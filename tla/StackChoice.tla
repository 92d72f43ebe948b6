---------------------------- MODULE StackChoice ----------------------------
(***************************************************************************)
(* Which stacks `git stack' works on (State::new): the protected branch    *)
(* each of them is based on, where it goes, and the branches it is made    *)
(* of, with every branch or the ones --stack, --base and --onto ask for.   *)
(*                                                                         *)
(* A repository r has                                                      *)
(*   refs       where the local branches are                               *)
(*   protected  the names of the protected ones                            *)
(*   upstream   where their counterparts at the pull remote are            *)
(*   head       HEAD                                                       *)
(*   foreign    the commits that are somebody else's                       *)
(* Histories are lines.                                                    *)
(***************************************************************************)
EXTENDS StackPlan

CONSTANTS
    Branch,     \* the names of local branches
    NoBranch    \* no name: HEAD is detached

Ours(name) == [name |-> name, remote |-> FALSE]
Theirs(name) == [name |-> name, remote |-> TRUE]

CommitAt(r, b) == IF b.remote THEN r.upstream[b.name] ELSE r.refs[b.name]
IsThere(r, b) == CommitAt(r, b) # NoCommit

HeadOf(r) == IF r.head.on = NoBranch THEN r.head.at ELSE r.refs[r.head.on]

(***************************************************************************)
(* The branches State::new collects, each protected one with its           *)
(* counterpart; and the protected ones, which are the counterparts where   *)
(* there are any.                                                          *)
(***************************************************************************)
Locals(r) == {b \in {Ours(name) : name \in Branch} : IsThere(r, b)}

Counterparts(r, some) ==
    {b \in {Theirs(t.name) : t \in some} : b.name \in r.protected /\ IsThere(r, b)}

AllBranches(r) == Locals(r) \cup Counterparts(r, Locals(r))

ProtectedBranches(r) ==
    LET ours == {b \in Locals(r) : b.name \in r.protected}
    IN  {b \in ours : Counterparts(r, {b}) = {}} \cup Counterparts(r, ours)

\* Branches::new of some of the branches; the other commits have none.
BranchesAt(r, some, commits) ==
    LET there == {b \in some : IsThere(r, b)}
    IN  [c \in {CommitAt(r, b) : b \in there} \cup commits |->
            SetToSeq({b \in there : CommitAt(r, b) = c})]

(***************************************************************************)
(* find_protected_base: going down from a commit, the first one that a     *)
(* protected branch also has, and of those that have it the shortest.  A   *)
(* tie goes to the lowest id, and on one commit to the first branch.       *)
(***************************************************************************)
AnyProtectedBase(r, c) == CHOOSE b \in ProtectedBranches(r) : TRUE     \* mutant

FindProtectedBase(r, c) ==
    LET tips == {CommitAt(r, b) : b \in ProtectedBranches(r)}
        Shared(t) == Len(MergeBase(c, t))
        Nearer(t, u) ==
            \/ Shared(t) > Shared(u)
            \/ Shared(t) = Shared(u) /\ Len(t) < Len(u)
            \/ Shared(t) = Shared(u) /\ Len(t) = Len(u) /\ Rank(t) <= Rank(u)
        nearest == CHOOSE t \in tips : \A u \in tips : Nearer(t, u)
    IN  CHOOSE b \in ProtectedBranches(r) : CommitAt(r, b) = nearest

(***************************************************************************)
(* An AnnotatedOid: a commit, by a branch or just so.                      *)
(***************************************************************************)
Annotated(r, b) == [at |-> CommitAt(r, b), by |-> {b}]

\* infer_base: the first commit going down that is not by who made c, or the
\* first of all commits.
InferBase(r, c) ==
    LET others == {a \in Histories(c) : (a \in r.foreign) # (c \in r.foreign)}
    IN  IF others = {} THEN SubSeq(c, 1, 1)
        ELSE CHOOSE a \in others : \A d \in others : Len(d) <= Len(a)

\* The limit is stack.auto-base-commit-count, 0 for none.
IsTooFar(r, c, base) ==
    LET shared == Len(MergeBase(CommitAt(r, base), c))
    IN  r.limit # 0 /\ r.limit <= Len(c) + Len(CommitAt(r, base)) - 2 * shared

NearOrInferred(r, c, base) ==
    IF ProtectedBranches(r) = {} \/ IsTooFar(r, c, base)
    THEN [at |-> InferBase(r, c), by |-> {}]
    ELSE Annotated(r, base)

ResolveImplicitBase(r, c) == NearOrInferred(r, c, FindProtectedBase(r, c))

\* Where that branch is now, the branch on the other side when there is one.
ResolveBaseFromOnto(r, onto) ==
    LET locals == {Ours(b.name) : b \in {t \in onto.by : t.remote}}
        known == {b \in locals : IsThere(r, b)}
    IN  IF known = {} THEN onto ELSE Annotated(r, CHOOSE b \in known : TRUE)

ResolveOntoFromBase(r, base) ==
    LET remotes == {Theirs(b.name) : b \in {t \in base.by : ~t.remote}}
        known == {b \in remotes : IsThere(r, b)}
    IN  IF known = {} THEN base ELSE Annotated(r, CHOOSE b \in known : TRUE)

\* AnnotatedOid::update.
Refreshed(r, place) ==
    LET known == {b \in place.by : IsThere(r, b)}
    IN  IF known = {} THEN place ELSE Annotated(r, CHOOSE b \in known : TRUE)

\* StackState::new.
StackOf(base, onto, own) ==
    [base |-> base, onto |-> onto, branches |-> own \cup base.by \cup onto.by]

(***************************************************************************)
(* Branches::branch, dependents and descendants: the branches of           *)
(* BASE..HEAD, BASE..HEAD.. and BASE..                                     *)
(***************************************************************************)
EveryBranch(r, scope, start, head) == AllBranches(r)     \* mutant

InScope(r, scope, start, head) ==
    {b \in AllBranches(r) :
        LET c == CommitAt(r, b)
        IN  /\ IsPrefix(start, c)
            /\ scope = "current" => IsPrefix(c, head)
            /\ scope = "dependents" => c = start \/ MergeBase(c, head) # start}

(***************************************************************************)
(* The stacks.  What the user asks for is in o:                            *)
(*   stack       "current", "dependents", "descendants" or "all"           *)
(*   base, onto  the places asked for, one at most                         *)
(***************************************************************************)
\* Every branch finds its base; the ones that share it are a stack.
ImplicitStacks(r) ==
    LET all == {[branch |-> b, onto |-> ResolveImplicitBase(r, CommitAt(r, b))] :
                    b \in AllBranches(r)}
        Stack(onto) == StackOf(ResolveBaseFromOnto(r, onto), onto,
                               {x.branch : x \in {y \in all : y.onto = onto}})
    IN  SetToSortSeq({Stack(x.onto) : x \in all},
                     LAMBDA s, t : \/ Rank(s.onto.at) < Rank(t.onto.at)
                                   \/ /\ s.onto.at = t.onto.at
                                      /\ s.onto.by = {} /\ t.onto.by # {})

ExplicitStack(r, o) ==
    LET head == HeadOf(r)
        implied == ResolveImplicitBase(r, head)
        onto == CASE o.onto # << >> -> o.onto[1]
                  [] o.onto = << >> /\ o.base # << >> ->
                        ResolveOntoFromBase(r, o.base[1])
                  [] OTHER -> implied
        base == CASE o.base # << >> -> o.base[1]
                  [] o.base = << >> /\ o.stack = "all" ->
                        ResolveBaseFromOnto(r, onto)
                  [] OTHER -> ResolveBaseFromOnto(r, implied)
        start == MergeBase(base.at, head)
    IN  StackOf(base, onto,
                IF o.stack = "all" THEN AllBranches(r)
                ELSE InScope(r, o.stack, start, head))

ChosenStacks(r, o) ==
    IF o.stack = "all" /\ o.base = << >> /\ o.onto = << >> THEN ImplicitStacks(r)
    ELSE <<ExplicitStack(r, o)>>

\* The protected branches, and those the stacks are based on and go to.
Guarded(r, stacks) ==
    ProtectedBranches(r)
        \cup UNION {s.base.by \cup s.onto.by : s \in Range(stacks)}

(***************************************************************************)
(* --pull: what the stacks go onto is fetched.  The branches stay in the   *)
(* stacks they were chosen for.                                            *)
(***************************************************************************)
Pulled(r, stacks, fetched) ==
    LET asked == UNION {s.onto.by : s \in Range(stacks)}
    IN  [r EXCEPT !.upstream = [name \in DOMAIN @ |->
                                  IF Theirs(name) \in asked THEN fetched[name]
                                  ELSE @[name]]]

\* plan_changes of a stack, once the repository has been looked at again.
PlanOf(r, stack, guarded, o) ==
    LET base == Refreshed(r, stack.base).at
        onto == Refreshed(r, stack.onto).at
    IN  PlanChanges(BranchesAt(r, stack.branches, {base, onto}), base, onto,
                    {CommitAt(r, b) : b \in {g \in guarded : IsThere(r, g)}},
                    {b.name : b \in {g \in guarded : IsLocal(g)}}, o)

=============================================================================

----------------------------- MODULE StackGraph -----------------------------
(***************************************************************************)
(* `git stack' itself plans and plays its changes with a library of its    *)
(* own (src/legacy): this is its commit graph, the operations that         *)
(* --rebase, --fixup, --repair and --push make on it, and to_script.       *)
(*                                                                         *)
(* A graph is the record of GraphOps, whose actions here are "pick",       *)
(* "fixup", "protected" and "delete", and whose branches are sequences of  *)
(* [name, remote].  The children of a commit are a set ordered by id,      *)
(* which Rank stands for.                                                  *)
(***************************************************************************)
EXTENDS GraphOps

CONSTANTS
    Time(_),    \* when a commit was made
    Wips,       \* the messages of work in progress: "WIP: ...", "draft: ..."
    Reverts     \* the messages of reverts

ASSUME WipsAreMessages == Wips \cup Reverts \subseteq Message

IsLocal(b) == ~b.remote
HasBranches(g, n) == g.branches[n] # << >>
IsSettled(g, n) == g.action[n] \in {"protected", "delete"}

KidsOf(g, n) == Range(Kids(g, n))
Subtree(g, n) == {m \in g.nodes : n \in Ancestry(g, m)}

\* The first commits of the stacks: the commits most operations start from.
FirstCommits(g) ==
    {n \in g.nodes \ {g.root} : /\ ~IsSettled(g, n)
                                /\ IsSettled(g, g.parent[n])}

-----------------------------------------------------------------------------
\* protect_commits: ids that do not descend from the root are left out.
ProtectCommits(g, ids) ==
    LET protected == UNION {Histories(id) : id \in {i \in ids : IsPrefix(g.root, i)}}
    IN  [g EXCEPT !.action = [n \in g.nodes |->
                                IF n \in protected THEN "protected" ELSE @[n]]]

\* protect_large_branches: a line of more than max + 1 commits without a branch,
\* from the first commit of a stack on, is protected up to the first branches;
\* and from there it is looked for again.
ProtectLongLines(g, max) ==
    LET Line(n) == {a \in Ancestry(g, n) : ~IsProtected(g, a)}
        bare == {n \in g.nodes : \A a \in Line(n) : ~HasBranches(g, a)}
        long == {n \in bare : Cardinality(Line(n)) > max + 1}
        first == {n \in g.nodes : Line(n) \ {n} \subseteq bare}
        protected == {n \in first : \E m \in long : \/ m \in Ancestry(g, n)
                                                    \/ n \in Ancestry(g, m)}
    IN  [g EXCEPT !.action = [n \in g.nodes |->
                                IF n \in protected THEN "protected" ELSE @[n]]]

ProtectLargeStacks(g, max) ==
    IF max = 0 \/ ~IsProtected(g, g.root) THEN g
    ELSE FoldLeft(LAMBDA h, n : ProtectLongLines(h, max),
                  g, [i \in 1..Cardinality(g.nodes) |-> i])

\* protect_old_branches and protect_foreign_branches: when all that is above
\* a protected commit is somebody else's, or old, it is protected up to the
\* first commits with branches.
ProtectWholeStacks(g, tagged) ==
    LET whole == {n \in FirstCommits(g) : Subtree(g, n) \subseteq tagged}
        UpTo(n) == {m \in Subtree(g, n) :
                       \A a \in (Ancestry(g, m) \cap Subtree(g, n)) \ {m} :
                           ~HasBranches(g, a)}
        protected == UNION {UpTo(n) : n \in whole}
    IN  [g EXCEPT !.action = [n \in g.nodes |->
                                IF n \in protected THEN "protected" ELSE @[n]]]

\* rebase_development_branches.
MoveEveryCommit(g, onto) ==             \* mutant: not the first ones only
    [g EXCEPT !.parent = [n \in DOMAIN @ |->
        IF ~IsSettled(g, n) THEN onto ELSE @[n]]]

MoveStacks(g, onto) ==
    LET first == FirstCommits(g)
    IN  [g EXCEPT !.parent = [n \in DOMAIN @ |->
            IF n \in first THEN onto ELSE @[n]]]

\* fast_forward_pulled_branches.
FastForward(g, pull_start, pull_end) ==
    LET start == g.branches[pull_start]
    IN  IF pull_start = pull_end THEN g
        ELSE [g EXCEPT
                !.branches[pull_start] = SelectSeq(start, LAMBDA b : b.remote),
                !.branches[pull_end] = @ \o SelectSeq(start, IsLocal)]

\* drop_squashed_by_tree_id: the commits up to the first branch of a stack,
\* when that has the tree of a pulled commit and none of them is a revert.
DropSquashed(g, trees) ==
    LET Below(n) == {a \in Ancestry(g, n) : ~IsSettled(g, a)}
        squashed == {n \in g.nodes :
            /\ ~IsSettled(g, n) /\ HasBranches(g, n) /\ Tree(n) \in trees
            /\ \A a \in Below(n) : /\ Summary(a) \notin Reverts
                                   /\ a # n => ~HasBranches(g, a)}
        dropped == UNION {Below(n) : n \in squashed}
    IN  [g EXCEPT !.action = [n \in g.nodes |->
                                IF n \in dropped THEN "delete" ELSE @[n]]]

\* drop_merged_branches.  The loop over the branches of a commit runs down
\* from the last to the first as a range that is empty unless they are one.
MergedBranches(g, pulled, protected) ==
    {g.branches[n][1].name :
        n \in {m \in pulled \cap g.nodes :
                 /\ Len(g.branches[m]) = 1
                 /\ IsLocal(g.branches[m][1])
                 /\ g.branches[m][1].name \notin protected}}

WithoutBranches(g, names) ==
    [g EXCEPT !.branches = [n \in g.nodes |->
        SelectSeq(@[n], LAMBDA b : b.remote \/ b.name \notin names)]]

-----------------------------------------------------------------------------
(***************************************************************************)
(* fixup: from the leaves of a stack down, fixup commits are taken out of  *)
(* the graph until a commit they fix is met; what is left over goes below  *)
(* the stack.                                                              *)
(***************************************************************************)
\* splice_after: the ids, the last one first, come between n and what was on
\* top of it; the branches of n move up to the topmost.
SpliceAfter(g, n, ids, effect) ==
    LET At(i) == IF i = Len(ids) THEN n ELSE ids[i + 1]
        Index(m) == CHOOSE i \in DOMAIN ids : ids[i] = m
    IN  [g EXCEPT
            !.parent = [m \in DOMAIN @ |->
                          IF m \in Range(ids) THEN At(Index(m))
                          ELSE IF @[m] = n THEN Head(ids) ELSE @[m]],
            !.branches[Head(ids)] = g.branches[n],
            !.branches[n] = << >>,
            !.action = [m \in g.nodes |->
                          IF effect = "squash" /\ m \in Range(ids)
                          THEN "fixup" ELSE @[m]]]

\* splice_between base and n, the last id at the bottom.
SpliceBelow(g, n, ids) ==
    LET Index(m) == CHOOSE i \in DOMAIN ids : ids[i] = m
        Under(i) == IF i = Len(ids) THEN g.parent[n] ELSE ids[i + 1]
    IN  [g EXCEPT !.parent = [m \in DOMAIN @ |->
            IF m \in Range(ids) THEN Under(Index(m))
            ELSE IF m = n THEN Head(ids) ELSE @[m]]]

\* A fixup commit leaves its place to its children, and its branches to its
\* parent.
Unspliced(g, f) ==
    LET base == g.parent[f]
    IN  [g EXCEPT !.parent = [m \in DOMAIN @ |->
                                IF m = f THEN NoCommit
                                ELSE IF @[m] = f THEN base ELSE @[m]],
                  !.branches[base] = @ \o g.branches[f],
                  !.branches[f] = << >>]

\* The ids waiting for the commit of a message, the topmost first.
Waiting(out, msg) == SelectSeq(out, LAMBDA f : Fixes[Summary(f)] = msg)

Placed(st, n, effect) ==
    LET ids == Waiting(st.out, Summary(n))
    IN  IF ids = << >> THEN st
        ELSE [g |-> SpliceAfter(st.g, n, ids, effect),
              out |-> SelectSeq(st.out, LAMBDA f : f \notin Range(ids))]

\* fixup_node.
FixupNode(st, n, effect) ==
    IF IsFixup(n)
    THEN [g |-> Unspliced(st.g, n), out |-> Append(st.out, n)]
    ELSE Placed(st, n, effect)

\* The commits above a commit, each after those above it.
LeavesFirst(g, top) ==
    LET P[n \in g.nodes] ==
            LET kids == Kids(g, n)
            IN  FlattenSeq([i \in DOMAIN kids |-> Append(P[kids[i]], kids[i])])
    IN  P[top]

\* fixup_branch.
FixupStack(g, top, effect) ==
    LET above == FoldLeft(LAMBDA st, n : FixupNode(st, n, effect),
                          [g |-> g, out |-> << >>], LeavesFirst(g, top))
        st == Placed(above, top, effect)
        \* the ids of a message together, the messages in some order
        targets == SetToSeq({Fixes[Summary(f)] : f \in Range(st.out)})
        left == FlattenSeq([i \in DOMAIN targets |-> Waiting(st.out, targets[i])])
    IN  IF left = << >> THEN st.g ELSE SpliceBelow(st.g, top, left)

FixupStacks(g, effect) ==
    IF effect = "ignore" THEN g
    ELSE FoldLeft(LAMBDA m, top : FixupStack(m, top, effect),
                  g, SetToSortSeq(FirstCommits(g),
                                  LAMBDA a, b : Rank(a) < Rank(b)))

-----------------------------------------------------------------------------
\* Of some commits, the one made last (merge_stacks gives a tie to the greater
\* id, realign_stack to either).
Newest(ids) ==
    CHOOSE n \in ids : \A m \in ids \ {n} :
        Time(m) < Time(n) \/ (Time(m) = Time(n) /\ Rank(m) < Rank(n))

(***************************************************************************)
(* realign_stack: from the first commit of a stack to the first one with a *)
(* branch, the newest child continues the stack, and the others go on top  *)
(* of the last commit.                                                     *)
(***************************************************************************)
NewestLine(g, first) ==
    LET L[n \in g.nodes] ==
            <<n>> \o IF HasBranches(g, n) \/ KidsOf(g, n) = {} THEN << >>
                     ELSE L[Newest(KidsOf(g, n))]
    IN  L[first]

RealignStacks(g) ==
    LET Lifted(line) == UNION {KidsOf(g, n) : n \in Range(Front(line))}
                            \ Range(line)
        lines == {NewestLine(g, first) : first \in FirstCommits(g)}
    IN  [g EXCEPT !.parent = [n \in DOMAIN @ |->
            IF \E line \in lines : n \in Lifted(line)
            THEN Last(CHOOSE line \in lines : n \in Lifted(line)) ELSE @[n]]]

(***************************************************************************)
(* merge_stacks: of the commits on one parent that have the same tree, the *)
(* newest takes over the branches and the children of the others, level by *)
(* level.                                                                  *)
(***************************************************************************)
MergeLevel(g, depth) ==
    LET level == {n \in g.nodes :
                    /\ ~IsSettled(g, n)
                    /\ depth = Cardinality({a \in Ancestry(g, n) : ~IsSettled(g, a)})}
        Heir(n) == Newest({m \in level : /\ g.parent[m] = g.parent[n]
                                         /\ Tree(m) = Tree(n)})
        gone == {n \in level : Heir(n) # n}
        Left(n) == SetToSortSeq({m \in gone : Heir(m) = n},
                                LAMBDA a, b : Time(a) < Time(b))
        Inherited(n) == FlattenSeq([i \in DOMAIN Left(n) |->
                                        g.branches[Left(n)[i]]])
    IN  [g EXCEPT
            !.nodes = @ \ gone,
            !.parent = [n \in DOMAIN @ \ gone |->
                          IF @[n] \in gone THEN Heir(@[n]) ELSE @[n]],
            !.action = [n \in DOMAIN @ \ gone |-> @[n]],
            !.branches = [n \in DOMAIN @ \ gone |-> @[n] \o Inherited(n)]]

MergeFirstCommits(g) == MergeLevel(g, 1)        \* mutant: one level only

MergeStacks(g) ==
    FoldLeft(MergeLevel, g, [depth \in 1..Cardinality(g.nodes) |-> depth])

-----------------------------------------------------------------------------
(***************************************************************************)
(* pushable: the first branch of a stack, unless what it is made of is     *)
(* work in progress.  IsPushed says of a branch that the push remote has   *)
(* it where it is.                                                         *)
(***************************************************************************)
IsWip(n) == Summary(n) \in Wips

PushableAnywhere(g, pushed) ==          \* mutant: the parents do not count
    {n \in g.nodes : /\ ~IsProtected(g, n) /\ HasBranches(g, n) /\ ~IsWip(n)
                     /\ ~(Range(g.branches[n]) \subseteq pushed)}

Pushable(g, pushed) ==
    LET Below(n) == {a \in Ancestry(g, n) \ {n} : ~IsProtected(g, a)}
    IN  {n \in g.nodes :
            /\ IsProtected(g, g.root) /\ ~IsProtected(g, n)
            /\ HasBranches(g, n) /\ ~IsWip(n)
            /\ ~(Range(g.branches[n]) \subseteq pushed)
            /\ \A a \in Below(n) : ~HasBranches(g, a) /\ ~IsWip(a)}

=============================================================================

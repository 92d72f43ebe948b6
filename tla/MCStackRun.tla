----------------------------- MODULE MCStackRun -----------------------------
(***************************************************************************)
(* `git stack' on every stack of Small commits: --rebase while upstream    *)
(* merged some of it, --fixup, --repair and --push, on some of the stacks, *)
(* and on stacks of two protected branches.                                *)
(***************************************************************************)
EXTENDS StackRun, MCShapes

CONSTANTS
    Small,      \* how many commits the stacks have
    Asked       \* the requests of the run

\* The order of the commits in the repository and in time.
Order(c) == Max({Last(c).msg.of} \cup Last(c).changes)

MCWips == {m \in MCMessage : m.kind = "wip"}

RefsOf(commit, tips) ==
    [b \in MCBranch |-> IF b \in tips THEN commit[b]
                        ELSE IF b = Main THEN Base ELSE NoCommit]

None == [b \in MCBranch |-> NoCommit]

\* The stacks and the branches on them; HEAD is on the last one.
Tips(shape) == {t \in SUBSET DOMAIN shape : Leaves(shape) \subseteq t}

Plain(commit, tips) ==
    [refs |-> RefsOf(commit, tips), remote |-> None,
     protected |-> {Main}, upstream |-> [None EXCEPT ![Main] = Base],
     head |-> [on |-> Max(tips), at |-> NoCommit],
     stack |-> "all", base |-> << >>, onto |-> << >>, pull |-> FALSE,
     fetched |-> None,
     work |-> FALSE, midway |-> FALSE, rebase |-> FALSE, fixup |-> "ignore",
     repair |-> FALSE, push |-> FALSE, dry_run |-> FALSE,
     stale |-> {}, foreign |-> {}, large |-> 0, limit |-> 0]

(***************************************************************************)
(* --rebase: upstream has merged the stack up to some commit, as it is or  *)
(* squashed into one, and may have added a commit.                         *)
(***************************************************************************)
Merged(commit, i, squash) ==
    IF squash
    THEN Append(Base, [changes |-> Tree(commit[i]) \ Tree(Base),
                       msg |-> Text(Size + 1)])
    ELSE commit[i]

Advanced(c) == Append(c, Patched(Size + 2))

Attached(requests) == {r \in requests : r.refs[r.head.on] # NoCommit}

RebaseRequests ==
    Attached(UNION {{
        LET commit == Built(shape, Nothing)
            onto == Merged(commit, i, squash)
        IN  [Plain(commit, tips) EXCEPT
                !.rebase = TRUE,
                !.push = advanced,
                !.head.on = h,
                !.upstream[Main] = IF advanced THEN Advanced(onto) ELSE onto] :
        tips \in Tips(shape), h \in DOMAIN shape, i \in 0..Small,
        squash \in BOOLEAN, advanced \in BOOLEAN} :
        shape \in ShapesOf(Small)})

(***************************************************************************)
(* What the user may be in the middle of.                                  *)
(***************************************************************************)
Circumstances ==
    UNION {{
        LET r == [Plain(Built(shape, Nothing), tips) EXCEPT
                    !.rebase = TRUE, !.push = TRUE, !.upstream[Main] = Advanced(Base)]
        IN  CASE how = "work" -> [r EXCEPT !.work = TRUE]
              [] how = "midway" -> [r EXCEPT !.work = TRUE, !.midway = TRUE]
              [] how = "dry" -> [r EXCEPT !.work = TRUE, !.dry_run = TRUE]
              [] how = "detached" ->
                    [r EXCEPT !.work = TRUE,
                              !.head = [on |-> NoBranch,
                                        at |-> r.refs[r.head.on]]] :
        tips \in Tips(shape), how \in {"work", "midway", "dry", "detached"}} :
        shape \in ShapesOf(Small)}

(***************************************************************************)
(* --fixup: one commit is a fixup of a commit below it, or of the base.    *)
(***************************************************************************)
Under(shape) ==
    LET U[i \in 0..Len(shape)] == IF i = 0 THEN {} ELSE {shape[i]} \cup U[shape[i]]
    IN  U

FixupRequests ==
    UNION {{
        [Plain(Original(shape, [i \in {f} |-> t]), tips) EXCEPT
            !.fixup = effect,
            !.rebase = advanced,
            !.upstream[Main] = IF advanced THEN Advanced(Base) ELSE Base] :
        tips \in Tips(shape), effect \in {"move", "squash"},
        t \in Under(shape)[f], advanced \in BOOLEAN} :
        shape \in ShapesOf(Small), f \in 1..Small}

(***************************************************************************)
(* --repair: one commit may be a twin of another: it makes the same change *)
(* under another message.                                                  *)
(***************************************************************************)
Twin(i, j) == [changes |-> {j}, msg |-> Text(i)]

RepairRequests ==
    UNION {{
        [Plain(Built(shape, IF j = 0 THEN Nothing ELSE [k \in {i} |-> Twin(i, j)]),
               tips) EXCEPT !.repair = TRUE] :
        tips \in Tips(shape), j \in (0..(i - 1)) \ Under(shape)[i]} :
        shape \in ShapesOf(Small), i \in 1..Small}
    \cup
    UNION {{[Plain(Built(shape, Nothing), tips) EXCEPT !.repair = TRUE] :
                tips \in Tips(shape)} : shape \in ShapesOf(Small)}
    \cup
    \* commits 1 and 2 of a stack of three were rebased without the third
    {[Plain(Built(<<0, 1, 2, 0, 4>>, [i \in {4, 5} |-> Twin(i, i - 3)]), tips)
        EXCEPT !.repair = TRUE] : tips \in {{3, 5}, {3, 4, 5}}}

(***************************************************************************)
(* --push: one commit may be work in progress, some branches are pushed    *)
(* already, some of the commits may be somebody else's, or old.            *)
(***************************************************************************)
WipRequests ==
    UNION {{
        LET commit == Built(shape, IF wip = 0 THEN Nothing
                                   ELSE [i \in {wip} |-> [changes |-> {i},
                                                         msg |-> Wip(i)]])
        IN  [Plain(commit, tips) EXCEPT
                !.push = TRUE,
                !.remote = [b \in MCBranch |->
                              IF b \in pushed \cap tips THEN commit[b]
                              ELSE NoCommit]] :
        tips \in Tips(shape), pushed \in SUBSET (1..Small), wip \in 0..Small} :
        shape \in ShapesOf(Small)}

\* The stack of a first commit is old, or somebody else's.  HEAD's commit is
\* never old: HEAD is on main then.  A commit that is rewritten keeps its author
\* and `foreign' does not follow it: what may be rewritten of it is not pushed.
OthersRequests ==
    UNION {{
        LET commit == Built(shape, Nothing)
            From(k) == {i \in 1..Small : IsPrefix(commit[k], commit[i])}
            theirs == {commit[k] : k \in From(first)}
            flat == \A b \in tips \cap From(first) : tips \cap From(b) = {b}
        IN  [Plain(commit, tips) EXCEPT
                !.rebase = TRUE, !.push = old \/ flat,
                !.upstream[Main] = Advanced(Base),
                !.head.on = IF old THEN Main ELSE @,
                !.stale = IF old THEN theirs ELSE {},
                !.foreign = IF old THEN {} ELSE theirs] :
        tips \in Tips(shape), old \in BOOLEAN,
        first \in {i \in 1..Small : shape[i] = 0}} :
        shape \in ShapesOf(Small)}

(***************************************************************************)
(* --stack, --base and --onto: HEAD on main or on a stack, the stack on    *)
(* another branch, or from a branch below HEAD on.                         *)
(***************************************************************************)
Scopes == {"current", "dependents", "descendants"}

ScopeRequests ==
    UNION {UNION {{
        [Plain(Built(shape, Nothing), tips) EXCEPT
            !.rebase = TRUE, !.upstream[Main] = Advanced(Base),
            !.stack = scope, !.head.on = on] :
        scope \in Scopes, on \in tips \cup {Main}} :
        tips \in Tips(shape)} : shape \in ShapesOf(Small)}

At(r, b) == <<Annotated(r, Ours(b))>>

PlaceRequests ==
    UNION {UNION {{
        LET r == [Plain(Built(shape, Nothing), tips) EXCEPT
                    !.rebase = TRUE, !.upstream[Main] = Advanced(Base),
                    !.stack = scope]
        IN  IF way = "onto" THEN [r EXCEPT !.onto = At(r, b)]
                            ELSE [r EXCEPT !.base = At(r, b)] :
        scope \in Scopes \cup {"all"}, b \in tips, way \in {"base", "onto"}} :
        tips \in Tips(shape)} : shape \in ShapesOf(Small)}

(***************************************************************************)
(* A second protected branch, the release, is at some commit of the shape; *)
(* upstream's main and release have gone on, main apart from the release,  *)
(* to it or past it, and --pull may find that out.                         *)
(***************************************************************************)
Release == Extra
Released(c) == Append(c, Patched(Size))

ReleasesFrom(first) ==
    UNION {UNION {{
        LET commit == Built(shape, Nothing)
            cut == commit[i]
            old == [None EXCEPT ![Main] = Base, ![Release] = cut]
            main == CASE how = "apart" -> Advanced(Base)
                      [] how = "to" -> cut
                      [] how = "past" -> Advanced(cut)
            new == [old EXCEPT ![Main] = main,
                               ![Release] = IF ahead THEN Released(@) ELSE @]
        IN  [Plain(commit, tips) EXCEPT
                !.refs[Release] = cut,
                !.protected = {Main, Release},
                !.upstream = IF pull THEN old ELSE new,
                !.fetched = new, !.pull = pull,
                !.rebase = TRUE, !.push = ahead] :
        i \in first..Small, pull \in BOOLEAN, ahead \in BOOLEAN,
        how \in {"apart", "to", "past"}} :
        tips \in Tips(shape)} : shape \in ShapesOf(Small)}

ReleaseRequests == ReleasesFrom(1)

\* It is cut where main is, too.
CutRequests == ReleasesFrom(0)

(***************************************************************************)
(* The base of a branch that is too far from main, or has no protected     *)
(* branch to be near to, is inferred: upstream's commits are not by the    *)
(* user, or the user made all of them and main is on the stack.            *)
(***************************************************************************)
Far(shape, tips, limit) ==
    [Plain(Built(shape, Nothing), tips) EXCEPT
        !.rebase = TRUE, !.upstream[Main] = Advanced(Base), !.limit = limit]

FarRequests ==
    UNION {UNION {
        {[Far(shape, tips, 3) EXCEPT !.foreign = {Base}],
         [Far(shape, tips, 0) EXCEPT !.foreign = {Base}, !.protected = {}]} :
        tips \in Tips(shape)} : shape \in ShapesOf(Small)}

\* The user made all the commits, and main, where it was cloned, too.
OwnRequests ==
    UNION {{
        LET commit == Built(shape, Nothing)
        IN  [Far(shape, tips, 2) EXCEPT !.refs[Main] = commit[1],
                                        !.upstream[Main] = commit[1]] :
        tips \in Tips(shape)} : shape \in {s \in ShapesOf(Small) : s[2] = 1}}

(***************************************************************************)
(* Branches of one to five commits, with limits that make them large, large *)
(* in the docs only, or neither; one parts from the middle of a large one. *)
(***************************************************************************)
LargeRequests ==
    {[Plain(Built(shape, Nothing), Leaves(shape)) EXCEPT
        !.rebase = TRUE, !.push = TRUE, !.upstream[Main] = Advanced(Base),
        !.large = large] :
        shape \in {<<0, 1, 2, 3, 4>>, <<0, 1, 2, 3, 0>>, <<0, 1, 2, 0, 4>>,
                   <<0, 1, 2, 3, 2>>},
        large \in {1, 2, 5}}

AllRequests ==
    RebaseRequests \cup Circumstances \cup FixupRequests
        \cup RepairRequests \cup WipRequests \cup OthersRequests
        \cup ScopeRequests \cup PlaceRequests \cup ReleaseRequests
        \cup FarRequests \cup OwnRequests \cup LargeRequests

MCJobs == {JobOf(r) : r \in Asked}

=============================================================================

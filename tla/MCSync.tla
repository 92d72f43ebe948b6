------------------------------- MODULE MCSync -------------------------------
(***************************************************************************)
(* `git stack sync' on every stack of Size commits.  Upstream has merged   *)
(* the stack up to some commit, the base when it has merged nothing, and   *)
(* may have added a commit.  The local main is still at the base.          *)
(***************************************************************************)
EXTENDS MCStacks

CONSTANTS
    Extras,     \* the commits the extra branch, when there is one, may be at
    Count,      \* stack.protect-commit-count
    Asked       \* the requests of the run

SyncRequests ==
    {r \in [shape : Shapes, tips : SUBSET (1..Size), merged : 0..Size,
            advanced : BOOLEAN, extra : {{}} \cup {{i} : i \in Extras}, head : 1..Size,
            attached : BOOLEAN] :
        /\ Leaves(r.shape) \subseteq r.tips
        /\ r.head \in r.tips}

SyncPlanOf(r) ==
    LET commit == Original(r.shape, Nothing)
        merged == commit[r.merged]
        onto == IF r.advanced THEN Upstream(merged) ELSE merged
        tips == [b \in Branch |->
                    IF b \in r.tips THEN commit[b]
                    ELSE IF b = Main THEN Base
                    ELSE IF b = Extra /\ r.extra # {}
                         THEN commit[CHOOSE i \in r.extra : TRUE]
                    ELSE NoCommit]
        plan == SyncPlan(BranchSet(tips, onto), Base, onto,
                         commit[r.head],
                         [count |-> Count, stale |-> {}, foreign |-> {}])
        dropped == {d.name : d \in Range(plan.dropped)}
    IN  [graph |-> plan.graph, dropped |-> plan.dropped,
         refs |-> tips,
         head |-> HeadAt(tips, r.head, r.attached),
         \* the local main stands in for a HEAD branch that is dropped
         restore |-> IF ~r.attached THEN NoBranch
                     ELSE IF r.head \in dropped THEN Main ELSE r.head,
         dry_run |-> FALSE]

\* Commit 1 has three children; the last of them, 4, has two more.
ForkRequests ==
    {[shape |-> <<0, 1, 1, 1, 4, 4>>, tips |-> {1, 2, 3, 4, 5, 6},
      merged |-> 0, advanced |-> TRUE, extra |-> {}, head |-> 1,
      attached |-> TRUE]}

SyncJobs == {JobOf(SyncPlanOf(r)) : r \in Asked}

-----------------------------------------------------------------------------
Clean == pc = "done" /\ faults = 0

\* fast_forward_pulled_branches: "if the user has branches on the same commit
\* as `main`, we should also update these to what we pulled": a branch that
\* has no commit of its own yet follows main.
BranchesOnMainFollowMain ==
    Clean => \A b \in Branch :
                job.refs[b] = job.refs[Main] => refs[b] = refs[Main]

=============================================================================

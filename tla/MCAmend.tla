------------------------------ MODULE MCAmend ------------------------------
(***************************************************************************)
(* `git stack amend' and `git stack reword' of any commit of any stack of  *)
(* Size commits, one of which may already be a fixup of an earlier one.    *)
(* HEAD is at any of the branches.  The user amends staged changes, or a   *)
(* new message.  The jobs of sync are added to those of these two.         *)
(***************************************************************************)
EXTENDS MCSync

Fixings ==
    {Nothing} \cup {[i \in {f} |-> t] : f, t \in 1..Size}

AmendRequests ==
    {r \in [shape : Shapes, tips : SUBSET (1..Size), head : 1..Size,
            attached : BOOLEAN, fixing : Fixings, target : 1..Size,
            command : {"amend", "amend -m", "reword"}, dry_run : BOOLEAN,
            twin : BOOLEAN] :     \* one more branch where HEAD is
        /\ Leaves(r.shape) \subseteq r.tips
        /\ r.head \in r.tips
        /\ \A f \in DOMAIN r.fixing : r.fixing[f] < f
        /\ r.dry_run => r.attached /\ r.tips = 1..Size
        /\ r.twin => r.command = "amend" /\ r.attached /\ ~r.dry_run
        /\ r.fixing # Nothing => r.attached /\ ~r.dry_run /\ ~r.twin}

\* commit_fixup moves every branch at HEAD to the commit it creates.
AmendPlanOf(r) ==
    LET commit == Original(r.shape, r.fixing)
        before == [b \in Branch |->
                      IF b \in r.tips THEN commit[b]
                      ELSE IF b = Main THEN Base
                      ELSE IF r.twin THEN commit[r.head] ELSE NoCommit]
        fixed == IF r.target \in DOMAIN r.fixing THEN r.fixing[r.target]
                                                 ELSE r.target
        fixup == IF r.command # "amend" THEN NoCommit
                 ELSE Append(commit[r.head],
                             [changes |-> {Size + 2}, msg |-> FixupOf(fixed)])
        after == IF r.command # "amend" \/ r.dry_run THEN before
                 ELSE [b \in Branch |->
                          IF before[b] = commit[r.head] THEN fixup
                                                        ELSE before[b]]
        head_ref == HeadAt(after, r.head, r.attached)
        plan ==
            IF r.command = "reword"
            THEN RewordPlan(BranchSet(before, Base), commit[r.target],
                            Reworded)
            ELSE AmendPlan(BranchSet(before, Base), commit[r.target],
                           fixup, BranchSet(after, Base),
                           IF r.command = "amend -m" THEN {Reworded} ELSE {})
    IN  [graph |-> plan.graph, dropped |-> plan.dropped,
         refused |-> plan.refused,
         refs |-> after,
         head |-> head_ref,
         restore |-> head_ref.on,
         dry_run |-> r.dry_run]

AmendPlans == {p \in {AmendPlanOf(r) : r \in AmendRequests} : ~p.refused}

\* Everything the three commands may be asked to do; a plan that is refused
\* does not reach the executor.
AllJobs == SyncJobs \cup {JobOf(p) : p \in AmendPlans}
MCJobs == AllJobs

-----------------------------------------------------------------------------
\* amend: the staged change, committed above the commit it amends, ends up in
\* every branch that contains that commit, and in no commit of its own.
StagedChangeReachesTheStack ==
    pc = "done" /\ faults = 0 =>
        \A b, c \in Branch : \A f \in DOMAIN job.refs[c] :
            LET change == job.refs[c][f]
            IN  change.changes = {Size + 2} =>
                \A t \in 1..(f - 1) :
                    /\ job.refs[c][t].msg = Fixes[change.msg]
                    /\ IsPrefix(SubSeq(job.refs[c], 1, t), job.refs[b])
                    => /\ change.changes \subseteq Tree(refs[b])
                       /\ change.msg \notin {p.msg : p \in Range(refs[b])}
=============================================================================

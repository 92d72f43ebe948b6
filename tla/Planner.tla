------------------------------ MODULE Planner ------------------------------
(***************************************************************************)
(* How the commands plan: the graph `sync', `amend' and `reword' make of   *)
(* the repository, and the branches they drop.  `branches' is a BranchSet: *)
(* by commit, the branches at it.                                          *)
(***************************************************************************)
EXTENDS Scripts

MergeBase(a, b) ==
    LET shared == Histories(a) \cap Histories(b)
    IN  CHOOSE c \in shared : \A d \in shared : Len(d) <= Len(c)

\* Branches main has the changes of, or the commits: marked, and dropped.
DropAt(plan, ids) ==
    [graph |-> MarkDeleted(plan.graph, Range(ids)),
     dropped |-> plan.dropped \o Mutables(plan.graph, ids)]

DropSquashed(plan, start, pulled) ==
    DropAt(plan, SquashedIds(plan.graph, start, {Tree(c) : c \in pulled}))

DropMerged(plan, pulled) == DropAt(plan, MergedIds(plan.graph, pulled))

\* sync's plan_changes.  `limits' holds stack.protect-commit-count (0: none)
\* and the commits that are stale or by somebody else.
Restricted(g, head, limits) ==
    LET small == IF limits.count = 0 THEN g
                 ELSE ProtectLargeBranches(g, limits.count)
    IN  ProtectTaggedBranches(
            ProtectTaggedBranches(small, limits.stale \ {head}), limits.foreign)

Pulled(g, start, onto) ==
    LET pulled == Histories(onto) \ Histories(start)
        rebased == FastForwardPulledBranches(
                       RebaseDevelopmentBranches(g, onto), start, onto)
    IN  DropMerged(DropSquashed([graph |-> rebased, dropped |-> << >>],
                                start, pulled),
                   pulled)

SyncPlan(branches, base, onto, head, limits) ==
    Pulled(Restricted(ProtectBranches(FromBranches(branches)), head, limits),
           MergeBase(base, onto), onto)

\* amend of `target': the staged changes were committed on HEAD as `fixup', a
\* fixup of the target, and `moved' are the branches after that.  Nothing
\* staged: fixup is NoCommit; no new message: msgs is empty.
AmendPlan(branches, target, fixup, moved, msgs) ==
    LET before == ProtectBranches(FromBranches(branches))
        inserted == IF fixup = NoCommit THEN before
                    ELSE Insert(before, fixup, Front(fixup))
        updated == [inserted EXCEPT !.branches =
                       [n \in DOMAIN @ |->
                           IF n \in DOMAIN moved THEN moved[n] ELSE << >>]]
        fixed == Fixup(updated, "squash")
    IN  [graph |-> IF msgs = {} THEN fixed
                   ELSE RewordCommit(fixed, target, CHOOSE m \in msgs : TRUE),
         dropped |-> << >>,
         refused |-> msgs # {} /\ ~CanReword(fixed, target)]

\* reword.
RewordPlan(branches, id, msg) ==
    LET graph == ProtectBranches(FromBranches(branches))
    IN  [graph |-> RewordCommit(graph, id, msg), dropped |-> << >>,
         refused |-> ~CanReword(graph, id)]

=============================================================================

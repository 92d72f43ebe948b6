----------------------------- MODULE StackMoves -----------------------------
(***************************************************************************)
(* What a command promises about the branches it re-stacks, whatever       *)
(* happens on the way: a branch is either where it was or where the plan   *)
(* puts it, it gets there in one step, and only after the branches it is   *)
(* stacked on got where they go.  The command may stop at any time.        *)
(***************************************************************************)
CONSTANTS
    Branch,
    Plans       \* where each branch is, where it goes, and the branches
                \* below it in its stack: [old, new, below]

VARIABLES plan, tip

Init ==
    /\ plan \in Plans
    /\ tip = plan.old

Move(b) ==
    /\ tip[b] = plan.old[b]
    /\ \A a \in plan.below[b] : tip[a] = plan.new[a]
    /\ tip' = [tip EXCEPT ![b] = plan.new[b]]
    /\ UNCHANGED plan

Next == \E b \in Branch : Move(b)

Spec == Init /\ [][Next]_<<plan, tip>>

=============================================================================

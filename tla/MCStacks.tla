------------------------------ MODULE MCStacks ------------------------------
(***************************************************************************)
(* The repositories amend, reword and sync are run on.                     *)
(***************************************************************************)
EXTENDS Restack, Planner, MCShapes

Remote == 0         \* origin/main, which is not a local branch

\* The BranchSet of the local branches tips and of upstream's main.
BranchSet(tips, upstream) ==
    LET ids == (Range(tips) \ {NoCommit}) \cup {upstream}
        Local(c) == SetToSortSeq({b \in Branch : tips[b] = c}, <)
        Kind(b) == IF b = Main THEN "mixed" ELSE "mutable"
    IN  [c \in ids |->
            [i \in DOMAIN Local(c) |-> [name |-> Local(c)[i],
                                        kind |-> Kind(Local(c)[i])]]
            \o IF c = upstream THEN <<[name |-> Remote, kind |-> "protected"]>>
                               ELSE << >>]

\* HEAD on a branch, or detached where the branch is.
HeadAt(tips, b, attached) ==
    IF attached THEN [on |-> b, at |-> NoCommit]
                ELSE [on |-> NoBranch, at |-> tips[b]]

=============================================================================

------------------------------ MODULE MCShapes ------------------------------
(***************************************************************************)
(* The stacks the runs start from: every way to put some commits on a base *)
(* commit.                                                                 *)
(*                                                                         *)
(* Commit i of a shape is the child of commit shape[i] < i, and of the     *)
(* base when that is 0.  The children of a commit are listed in the order  *)
(* of their numbers; another order is another shape.                       *)
(***************************************************************************)
EXTENDS Naturals, Sequences, SequencesExt

CONSTANT Size

ShapesOf(size) ==
    {s \in [1..size -> 0..(size - 1)] : \A i \in 1..size : s[i] < i}

Shapes == ShapesOf(Size)

Leaves(shape) == DOMAIN shape \ Range(shape)

\* Patches Size + 1 and Size + 2 are upstream's and the user's new changes.
MCChange == 0..(Size + 2)

Text(i) == [of |-> i, kind |-> "text"]
FixupOf(i) == [of |-> i, kind |-> "fixup"]
Wip(i) == [of |-> i, kind |-> "wip"]
Reworded == Text(Size + 3)
MCMessage == [of : 0..(Size + 3), kind : {"text", "fixup", "wip"}]
MCFixes == [m \in {n \in MCMessage : n.kind = "fixup"} |-> Text(m.of)]

Patched(i) == [changes |-> {i}, msg |-> Text(i)]
Base == <<Patched(0)>>
Upstream(c) == Append(c, Patched(Size + 1))

\* The commits of a shape, with the patches that are not Patched(i).
Built(shape, patches) ==
    LET C[i \in 0..Len(shape)] ==
            IF i = 0 THEN Base
            ELSE Append(C[shape[i]], IF i \in DOMAIN patches THEN patches[i]
                                     ELSE Patched(i))
    IN  C

\* A commit in DOMAIN fixing is a fixup of another.
Original(shape, fixing) ==
    Built(shape, [i \in DOMAIN fixing |-> [changes |-> {i},
                                           msg |-> FixupOf(fixing[i])]])

Nothing == [i \in {} |-> 0]

\* The number of the last patch of a commit.
Number(c) == CHOOSE i \in Last(c).changes : TRUE

\* Branch i, when there is one, is at commit i.  Branches Size + 1 and
\* Size + 2 are the local main and one more.
Main == Size + 1
Extra == Size + 2
MCBranch == 1..(Size + 2)

=============================================================================

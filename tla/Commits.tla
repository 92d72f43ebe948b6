------------------------------ MODULE Commits ------------------------------
(***************************************************************************)
(* Git commits as values, and the three operations of `git::Repo' that     *)
(* create one: cherry_pick, reword and squash.                             *)
(*                                                                         *)
(* A commit id is a hash of the commit and, through its parent, of its     *)
(* whole first-parent history.  A commit is therefore modelled by that     *)
(* history: the sequence of its patches from the root commit to itself.    *)
(* Two ids are equal exactly when the histories are; the parent of a       *)
(* commit is the history without its last patch.  A patch carries the set  *)
(* of changes it makes to the tree and its message; the committer date,    *)
(* which the rewrites preserve, is left out.  Merge commits are outside    *)
(* this model.                                                             *)
(***************************************************************************)
EXTENDS Naturals, Sequences, SequencesExt

CONSTANTS
    Change,     \* the elementary edits a patch can make
    Message     \* the commit messages

Patch == [changes : SUBSET Change, msg : Message]

\* The histories that are commits; the empty history stands for `None'.
Commit == Seq(Patch) \ {<< >>}
NoCommit == << >>

\* What the commit looks like when it is checked out (its tree id).
Tree(c) == UNION {c[i].changes : i \in DOMAIN c}

\* git2_ext::ops::cherry_pick: a commit that already sits on head is returned
\* as it is, one whose changes head already has is skipped, any other is
\* applied on top of head.
CherryPick(head, cherry) ==
    IF Front(cherry) = head THEN cherry
    ELSE IF Last(cherry).changes \subseteq Tree(head) THEN head
    ELSE Append(head, Last(cherry))

\* git2_ext::ops::reword: the same tree and parent under another message.
RewordTip(head, msg) ==
    Append(Front(head), [Last(head) EXCEPT !.msg = msg])

\* git2_ext::ops::squash: the changes of `squashed' folded into `into', which
\* keeps its parent and its message.
Squash(squashed, into) ==
    Append(Front(into),
           [Last(into) EXCEPT !.changes = @ \cup Last(squashed).changes])

=============================================================================

------------------------------ MODULE MCRounds ------------------------------
(***************************************************************************)
(* Two branches, Edits commits of the user and Pulls of upstream.          *)
(***************************************************************************)
EXTENDS Rounds

CONSTANTS Edits, Pulls

MCMine == 1..Edits
MCTheirs == (Edits + 1)..(Edits + Pulls)
MCChange == 0..(Edits + Pulls)
MCRoot == <<[changes |-> {0}, msg |-> Plain]>>
MCFixes == [m \in {} |-> ""]
Number(c) == Max(Last(c).changes)
=============================================================================

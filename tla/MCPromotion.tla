------------------------------ MODULE MCPromotion ------------------------------
(***************************************************************************)
(* Instance of Promotion: the package job on what an earlier packaging may *)
(* leave in the working tree, and publication of what the hosted runner,   *)
(* whose tree is new, makes.                                               *)
(***************************************************************************)
EXTENDS Promotion

\* Any two leftovers together, and all of them.
MCCheckouts == {L \in SUBSET Leftovers : Cardinality(L) <= 2} \cup {Leftovers}
=============================================================================

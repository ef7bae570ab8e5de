---------------------------- MODULE MCCardFunding ----------------------------
(* Small instances of CardFunding for TLC.                                 *)
EXTENDS CardFunding, TLC

Symmetry == Permutations(Actors) \cup Permutations(Collaterals)
=============================================================================

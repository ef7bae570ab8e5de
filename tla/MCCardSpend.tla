----------------------------- MODULE MCCardSpend -----------------------------
(* Small instances of CardSpend for TLC.                                   *)
EXTENDS CardSpend, TLC

Symmetry == Permutations(Actors)
=============================================================================

--------------------------- MODULE MCNgnWithdrawal ---------------------------
(* NgnWithdrawal for TLC: two requests that repeat one key and a third     *)
(* with a key of its own; the balance covers either withdrawal, not both.  *)
(* Two operators may decide on one review.                                 *)
EXTENDS NgnWithdrawal, TLC

CONSTANTS k1, k2, r1, r2, r3, j1, j2, j3, o1, o2

MCTx == [a \in Agents |-> IF a \in {r3, j3} THEN k2 ELSE k1]
Symmetry == Permutations({r1, r2}) \cup Permutations({j1, j2})
              \cup Permutations({o1, o2})
MCAmount == [k \in Keys |-> IF k = k1 THEN 2 ELSE 1]
=============================================================================

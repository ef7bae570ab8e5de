-------------------------- MODULE MCNgnUsdExchange --------------------------
(* Small instances of NgnUsdExchange for TLC.                              *)
EXTENDS NgnUsdExchange, TLC

(* Jobs, deliveries and rows differ only in name.                          *)
Symmetry == Permutations(Jobs) \cup Permutations(Yc) \cup Permutations(Zh)
            \cup Permutations(Rows)
=============================================================================

-------------------------- MODULE MCUsdNgnExchange --------------------------
(* Small instances of UsdNgnExchange for TLC.                              *)
EXTENDS UsdNgnExchange, TLC

(* Deliveries of one webhook differ only in name.                          *)
PgSymmetry == Permutations(Pg)
=============================================================================

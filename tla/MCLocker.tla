------------------------------ MODULE MCLocker ------------------------------
(* Locker for TLC: two calls of withLock and one of runWithLock.           *)
EXTENDS Locker

CONSTANTS c1, c2, c3
=============================================================================

---------------------------- MODULE MCFiatWallet ----------------------------
(* FiatWallet for TLC: a withdrawal and a deposit that manage their own    *)
(* database transaction, and the same deposit made inside its caller's.    *)
(* From a balance of 2 the withdrawal must wait for a deposit.             *)
EXTENDS FiatWallet

CONSTANTS c1, c2, c3, t1, t2

MCAmount == [c \in Callers |-> IF c = c1 THEN -3 ELSE 1]
MCTxOf == [c \in Callers |-> IF c = c1 THEN t1 ELSE t2]
=============================================================================

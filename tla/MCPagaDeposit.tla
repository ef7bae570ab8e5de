--------------------------- MODULE MCPagaDeposit ---------------------------
(* PagaDeposit for TLC: a payment notified twice as successful and once as *)
(* failed, and a second payment.                                           *)
EXTENDS PagaDeposit, TLC

CONSTANTS p1, p2, d1, d2, d3, d4, d5

MCRef == [d \in Deliveries |-> IF d \in {d4, d5} THEN p2 ELSE p1]
MCMessage == [d \in Deliveries |->
    CASE d = d3 -> "FAILED" [] d = d5 -> "PENDING" [] OTHER -> "SUCCESS"]
MCAmount == [r \in Refs |-> IF r = p1 THEN 1 ELSE 2]
Symmetry == Permutations({d1, d2})
=============================================================================

------------------------------ MODULE Account -------------------------------
(***************************************************************************)
(* What a balance update promises its callers: each step adds one amount   *)
(* to the balance, atomically and without overdrawing it.  The promise is  *)
(* made only while the account is `trusted`; what takes the trust away is  *)
(* for the implementation to say.                                          *)
(***************************************************************************)
EXTENDS Integers

CONSTANTS Amounts, InitialBalance

VARIABLES balance, trusted

Init ==
    /\ balance = InitialBalance
    /\ trusted = TRUE

Apply(a) ==
    /\ trusted
    /\ balance' = balance + a
    /\ balance' >= 0
    /\ trusted' \in BOOLEAN

LoseTrust ==
    /\ trusted
    /\ trusted' = FALSE
    /\ UNCHANGED balance

Untrusted ==
    /\ ~trusted
    /\ ~trusted'
    /\ balance' \in Nat

Next ==
    \/ \E a \in Amounts : Apply(a)
    \/ LoseTrust
    \/ Untrusted

Spec == Init /\ [][Next]_<<balance, trusted>>
=============================================================================

------------------------------- MODULE Payout -------------------------------
(***************************************************************************)
(* What paying out of a balance promises its owner: an amount is held once *)
(* and never overdraws the balance, is sent only while it is held, and     *)
(* ends up paid or, in full and once, back in the balance.  The promise is *)
(* made for the payouts that are not `doubted`; what makes one doubtful is *)
(* for the implementation to say.                                          *)
(***************************************************************************)
EXTENDS Integers

CONSTANTS Keys, Amount, InitialBalance

VARIABLES balance, phase, doubted

Init ==
    /\ balance = InitialBalance
    /\ phase = [k \in Keys |-> "none"]
    /\ doubted = {}

Move(k, from, to) ==
    /\ phase[k] = from
    /\ phase' = [phase EXCEPT ![k] = to]
    /\ UNCHANGED doubted

Hold(k) ==
    /\ Move(k, "none", "held")
    /\ balance' = balance - Amount[k]
    /\ balance' >= 0

Send(k) == Move(k, "held", "sent") /\ UNCHANGED balance

(* Who pays it out settles it: the amount is gone, or held as before.      *)
Settle(k) ==
    /\ Move(k, "sent", "paid") \/ Move(k, "sent", "held")
    /\ UNCHANGED balance

Return(k) ==
    /\ Move(k, "held", "returned")
    /\ balance' = balance + Amount[k]

(* A payout becomes or is doubted; the others go on as they were.          *)
Stray(k) ==
    /\ doubted' = doubted \cup {k}
    /\ \A i \in Keys \ {k} : phase'[i] = phase[i]
    /\ balance' \in Nat

Next == \E k \in Keys : Hold(k) \/ Send(k) \/ Settle(k) \/ Return(k) \/ Stray(k)

Spec == Init /\ [][Next]_<<balance, phase, doubted>>
=============================================================================

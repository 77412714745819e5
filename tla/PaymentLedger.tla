---------------------------- MODULE PaymentLedger ----------------------------
(* What the payment operations promise, without rows, children, keys or        *)
(* crashes: each payment has one phase and a refunded total, and money moves   *)
(* in one direction.  build specification sections 13.1, 13.2 and 13.4.        *)
EXTENDS Integers

CONSTANTS Tx, Amounts

VARIABLE ledger

Unknown == [phase |-> "unknown", amount |-> 0, refunded |-> 0]

Init == ledger = [t \in Tx |-> Unknown]

Open(t, amount) ==
  /\ ledger[t] = Unknown
  /\ ledger' = [ledger EXCEPT
       ![t] = [phase |-> "open", amount |-> amount, refunded |-> 0]]

(* The outcome of the payment attempt. *)
Decide(t, phase) ==
  /\ ledger[t].phase = "open"
  /\ ledger' = [ledger EXCEPT ![t].phase = phase]

Capture(t) ==
  /\ ledger[t].phase = "authorized"
  /\ ledger' = [ledger EXCEPT ![t].phase = "captured"]

(* Money that was never given back can be released or returned in parts. *)
Void(t) ==
  /\ ledger[t].phase \in {"authorized", "paid"}
  /\ ledger[t].refunded = 0
  /\ ledger' = [ledger EXCEPT ![t].phase = "voided"]

Refund(t) ==
  /\ ledger[t].phase = "paid"
  /\ \E cents \in 1 .. (ledger[t].amount - ledger[t].refunded) :
       ledger' = [ledger EXCEPT ![t].refunded = @ + cents]

Next ==
  \E t \in Tx :
    \/ \E amount \in Amounts : Open(t, amount)
    \/ \E phase \in {"authorized", "paid", "failed"} : Decide(t, phase)
    \/ Capture(t) \/ Void(t) \/ Refund(t)

Spec == Init /\ [][Next]_ledger
=============================================================================

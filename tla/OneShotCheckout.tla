--------------------------- MODULE OneShotCheckout ---------------------------
(* What a checkout promises a merchant: an intention's terms may change while  *)
(* it is open, it is charged at most once, and what is charged are the terms   *)
(* it had at that moment (build specification section 9.1).                    *)
CONSTANTS Intentions, Terms

VARIABLE checkouts

Absent == [phase |-> "none"]
Open(terms) == [phase |-> "open", terms |-> terms]
Charged(terms) == [phase |-> "charged", terms |-> terms]

Init == checkouts = [i \in Intentions |-> Absent]

Create(i, terms) ==
  /\ checkouts[i] = Absent
  /\ checkouts' = [checkouts EXCEPT ![i] = Open(terms)]

Amend(i, terms) ==
  /\ checkouts[i].phase = "open"
  /\ checkouts' = [checkouts EXCEPT ![i] = Open(terms)]

Charge(i) ==
  /\ checkouts[i].phase = "open"
  /\ checkouts' = [checkouts EXCEPT ![i] = Charged(checkouts[i].terms)]

Next ==
  \E i \in Intentions :
    \/ Charge(i)
    \/ \E terms \in Terms : Create(i, terms) \/ Amend(i, terms)

Spec == Init /\ [][Next]_checkouts
=============================================================================

------------------------ MODULE MCCheckoutActivation ------------------------
(* CheckoutActivation with two intentions and two expectations.                *)
EXTENDS CheckoutActivation, TLC

CONSTANTS i1, i2, e1, e2, termsA, termsB, ref1, key1

MCIntentions == {i1, i2}
MCExpectations == {e1, e2}
MCTerms == {termsA, termsB}
Symmetry == Permutations(MCIntentions) \cup Permutations(MCExpectations)
              \cup Permutations(MCTerms)
=============================================================================

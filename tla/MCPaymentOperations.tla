------------------------- MODULE MCPaymentOperations -------------------------
(* PaymentOperations on four rows and amounts of one to three cents.           *)
EXTENDS PaymentOperations, TLC

CONSTANTS t1, t2, t3, t4, k1

MCTx == {t1, t2, t3, t4}
MCKeys == {k1}
Symmetry == Permutations(MCTx)
=============================================================================

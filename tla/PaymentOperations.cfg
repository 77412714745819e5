SPECIFICATION Spec
CONSTANTS
  t1 = t1
  t2 = t2
  t3 = t3
  t4 = t4
  k1 = k1
  NoTx = NoTx
  NoKey = NoKey
  Tx <- MCTx
  Keys <- MCKeys
  Amounts = {2, 3}
  RequestAmounts = {1, 2, 3}
  SettleStates = {"pending", "authorized", "succeeded", "failed"}
SYMMETRY Symmetry
INVARIANTS
  TypeOK
  RefundsAddUp
  StateTellsRefund
  ChildrenMatchState
  KeyedOnce
  SnapshotIsCurrent
PROPERTIES
  OnlyForward
  ImplementsLedger
CHECK_DEADLOCK FALSE

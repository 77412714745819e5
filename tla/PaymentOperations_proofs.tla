---------------------- MODULE PaymentOperations_proofs ----------------------
(* Proofs about PaymentOperations, for every set of rows, keys and amounts.    *)
(*                                                                             *)
(* Inv is the inductive invariant.  Besides the properties themselves it needs *)
(* only RowsSane: a row that does not exist is blank, an existing one has a    *)
(* positive amount, and a row's parent exists (so a fresh child has no         *)
(* children of its own).                                                       *)
EXTENDS PaymentOperations, FiniteSetTheorems, TLAPS

RowsSane ==
  \A t \in Tx :
    /\ ~Exists(t) => txns[t] = Absent
    /\ Exists(t) => txns[t].amount > 0
    /\ txns[t].refunded <= txns[t].amount
    /\ txns[t].op = "none" <=> txns[t].parent = NoTx
    /\ txns[t].parent \in Tx => Exists(txns[t].parent)

Inv ==
  /\ TypeOK
  /\ RowsSane
  /\ StateTellsRefund
  /\ ChildrenMatchState
  /\ VoidOrCaptureOnce
  /\ KeyedOnce
  /\ SnapshotIsCurrent

-----------------------------------------------------------------------------
(* Which operation is legal where: the edges of states.ts an operation uses.   *)
LEMMA OperationEdges ==
  /\ NormalTransitions["authorized"] = {"captured", "voided"}
  /\ NormalTransitions["succeeded"] = {"partially_refunded", "refunded", "voided"}
  /\ NormalTransitions["partially_refunded"] = {"partially_refunded", "refunded"}
  /\ NormalTransitions["captured"] = {}
  BY DEF NormalTransitions, InternalStates

(* A settling transition starts in processing or pending, or it is not one.    *)
LEMMA SettleEdges ==
  ASSUME NEW from \in InternalStates, NEW to \in SettleStates,
         IsLegalTransition(from, to)
  PROVE  from \in {"processing", "pending"}
  BY SettleAssumption DEF IsLegalTransition, NormalTransitions, InternalStates

(* What an accepted request knows about the row it works on.                   *)
LEMMA Accepted ==
  ASSUME TypeOK, NEW t \in Tx, NEW op \in OperationTypes, NEW amount \in Nat \ {0},
         NEW key, Answer(t, op, amount, key) = "created"
  PROVE  /\ txns[t].state \in AcceptingStates(op) \ {"captured"}
         /\ op = "capture" => amount = txns[t].amount
         /\ op = "refund" => amount <= Remaining(t)
         /\ Recorded(t, op, key) = {}
         /\ IsLegalTransition(txns[t].state, NewState(t, op, amount))
<1>1. /\ txns[t].state \in AcceptingStates(op)
      /\ op = "capture" => amount = txns[t].amount
      /\ op = "refund" => ~(amount > Remaining(t))
      /\ Recorded(t, op, key) = {}
      /\ IsLegalTransition(txns[t].state, NewState(t, op, amount))
  BY DEF Answer
<1>2. txns[t].amount \in Nat /\ txns[t].refunded \in Nat
  BY DEF TypeOK, Rows
<1>3. txns[t].state # "captured"
  BY <1>1, OperationEdges DEF IsLegalTransition
<1> QED
  BY <1>1, <1>2, <1>3 DEF Remaining

(* The rows after an operation: a fresh child, the updated original, and every *)
(* other row untouched.                                                        *)
LEMMA CreateChildRows ==
  ASSUME TypeOK, NEW t \in Tx, NEW child \in Tx, child # t,
         NEW op \in OperationTypes, NEW amount \in Nat \ {0}, NEW key,
         CreateChild(t, op, amount, key, child)
  PROVE  /\ txns' \in [Tx -> Rows]
         /\ txns'[child] = ChildRow(t, op, amount)
         /\ txns'[t] = Transitioned(PatchedAmounts(txns[t], op, amount),
                                    NewState(t, op, amount))
         /\ \A u \in Tx \ {t, child} : txns'[u] = txns[u]
<1>1. txns[t] \in Rows /\ txns \in [Tx -> Rows]
  BY DEF TypeOK
<1>2. NewState(t, op, amount) \in {"captured", "voided", "refunded", "partially_refunded"}
  BY DEF NewState, OperationTypes
<1>3. ChildRow(t, op, amount) \in Rows
  BY <1>2 DEF ChildRow, Absent, Rows, NotificationUrls, InternalStates, OperationTypes
<1>4. PatchedAmounts(txns[t], op, amount) \in Rows
  BY <1>1 DEF PatchedAmounts, Rows, OperationTypes
<1>5. Transitioned(PatchedAmounts(txns[t], op, amount), NewState(t, op, amount)) \in Rows
  BY <1>2, <1>4 DEF Transitioned, Rows, InternalStates
<1>6. txns' = [txns EXCEPT ![child] = ChildRow(t, op, amount),
                           ![t] = Transitioned(PatchedAmounts(txns[t], op, amount),
                                               NewState(t, op, amount))]
  BY DEF CreateChild
<1> QED
  BY <1>1, <1>3, <1>5, <1>6

(* The same, column by column, for an accepted request.                        *)
LEMMA AcceptedRows ==
  ASSUME TypeOK, RowsSane, NEW t \in Tx, NEW child \in Tx,
         Exists(t), ~Exists(child),
         NEW op \in OperationTypes, NEW amount \in Nat \ {0}, NEW key,
         Answer(t, op, amount, key) = "created",
         CreateChild(t, op, amount, key, child)
  PROVE  /\ child # t
         /\ txns' \in [Tx -> Rows]
         /\ \A u \in Tx \ {t, child} : txns'[u] = txns[u]
         /\ /\ txns'[child].state \in {"succeeded", "captured", "voided"}
            /\ txns'[child].amount = amount
            /\ txns'[child].refunded = 0
            /\ txns'[child].parent = t
            /\ txns'[child].op = op
         /\ /\ txns'[t].state = NewState(t, op, amount)
            /\ txns'[t].amount = txns[t].amount
            /\ txns'[t].refunded = IF op = "refund" THEN txns[t].refunded + amount
                                                  ELSE txns[t].refunded
            /\ txns'[t].parent = txns[t].parent
            /\ txns'[t].op = txns[t].op
<1>1. child # t
  OBVIOUS
<1>2. /\ txns' \in [Tx -> Rows]
      /\ txns'[child] = ChildRow(t, op, amount)
      /\ txns'[t] = Transitioned(PatchedAmounts(txns[t], op, amount),
                                 NewState(t, op, amount))
      /\ \A u \in Tx \ {t, child} : txns'[u] = txns[u]
  BY <1>1, CreateChildRows
<1>3. txns[t] \in Rows
  BY DEF TypeOK
<1>4. /\ txns'[child].state \in {"succeeded", "captured", "voided"}
      /\ txns'[child].amount = amount
      /\ txns'[child].refunded = 0
      /\ txns'[child].parent = t
      /\ txns'[child].op = op
  BY <1>2 DEF ChildRow, Absent, NewState, OperationTypes
<1>5. /\ txns'[t].state = NewState(t, op, amount)
      /\ txns'[t].amount = txns[t].amount
      /\ txns'[t].refunded = IF op = "refund" THEN txns[t].refunded + amount
                                            ELSE txns[t].refunded
      /\ txns'[t].parent = txns[t].parent
      /\ txns'[t].op = txns[t].op
  BY <1>2, <1>3 DEF Transitioned, PatchedAmounts, Rows, OperationTypes
<1> QED
  BY <1>1, <1>2, <1>4, <1>5

-----------------------------------------------------------------------------
(* An accepted operation preserves the invariant, conjunct by conjunct.        *)
LEMMA AcceptPreserves ==
  ASSUME Inv, NEW t \in Tx, NEW child \in Tx, Exists(t), ~Exists(child),
         NEW op \in OperationTypes, NEW amount \in Nat \ {0},
         NEW key \in Keys \cup {NoKey},
         Answer(t, op, amount, key) = "created",
         CreateChild(t, op, amount, key, child)
  PROVE  Inv'
<1> DEFINE updated == Transitioned(PatchedAmounts(txns[t], op, amount),
                                   NewState(t, op, amount))
<1>1. TypeOK /\ RowsSane
  BY DEF Inv
<1>2. /\ child # t
      /\ txns' \in [Tx -> Rows]
      /\ \A u \in Tx \ {t, child} : txns'[u] = txns[u]
      /\ /\ txns'[child].state \in {"succeeded", "captured", "voided"}
         /\ txns'[child].amount = amount
         /\ txns'[child].refunded = 0
         /\ txns'[child].parent = t
         /\ txns'[child].op = op
      /\ /\ txns'[t].state = NewState(t, op, amount)
         /\ txns'[t].amount = txns[t].amount
         /\ txns'[t].refunded = IF op = "refund" THEN txns[t].refunded + amount
                                               ELSE txns[t].refunded
         /\ txns'[t].parent = txns[t].parent
         /\ txns'[t].op = txns[t].op
  BY <1>1, AcceptedRows
<1>3. /\ txns[t].state \in AcceptingStates(op) \ {"captured"}
      /\ op = "capture" => amount = txns[t].amount
      /\ op = "refund" => amount <= Remaining(t)
      /\ Recorded(t, op, key) = {}
  BY <1>1, Accepted
<1>4. \A u \in Tx : txns[u] \in Rows
  BY <1>1 DEF TypeOK
<1>5. /\ op = "capture" => txns[t].state = "authorized" /\ NewState(t, op, amount) = "captured"
      /\ op = "void" => /\ txns[t].state \in {"authorized", "succeeded"}
                        /\ NewState(t, op, amount) = "voided"
      /\ op = "refund" =>
           /\ txns[t].state \in {"succeeded", "partially_refunded"}
           /\ NewState(t, op, amount) =
                IF txns[t].refunded + amount >= txns[t].amount
                THEN "refunded" ELSE "partially_refunded"
  BY <1>3 DEF AcceptingStates, NewState
<1>6. \A u \in Tx : txns[u].parent # child
  BY <1>1 DEF RowsSane
<1>7. TypeOK'
  <2>1. OperationRows(t, op, amount, key, child) \subseteq
          [txn : Tx, op : OperationTypes, key : Keys, amount : Nat, child : Tx]
    BY DEF OperationRows
  <2>2. operations' \subseteq
          [txn : Tx, op : OperationTypes, key : Keys, amount : Nat, child : Tx]
    BY <1>1, <2>1 DEF TypeOK, CreateChild
  <2>3. DOMAIN snapshots' = Tx
    BY <1>1 DEF TypeOK, CreateChild
  <2>4. callbacks' \subseteq Tx /\ committed' \in Tx \cup {NoTx}
    BY <1>1 DEF TypeOK, CreateChild
  <2> QED
    BY <1>2, <2>2, <2>3, <2>4 DEF TypeOK
<1>8. RowsSane'
  <2> SUFFICES ASSUME NEW u \in Tx
               PROVE  /\ txns'[u].state = "none" => txns'[u] = Absent
                      /\ txns'[u].state # "none" => txns'[u].amount > 0
                      /\ txns'[u].refunded <= txns'[u].amount
                      /\ txns'[u].op = "none" <=> txns'[u].parent = NoTx
                      /\ txns'[u].parent \in Tx => txns'[txns'[u].parent].state # "none"
    BY DEF RowsSane, Exists
  <2>1. NewState(t, op, amount) # "none"
    BY DEF NewState, OperationTypes
  <2>2. \A v \in Tx : Exists(v) => txns'[v].state # "none"
    BY <1>2, <2>1 DEF Exists
  <2>3. CASE u = child
    BY <1>2, <1>4, <2>2, <2>3, TxAssumption DEF OperationTypes, Exists
  <2>4. CASE u = t
    BY <1>1, <1>2, <1>3, <1>4, <2>1, <2>2, <2>4 DEF RowsSane, Remaining, Rows, Exists
  <2>5. CASE u \notin {t, child}
    BY <1>1, <1>2, <2>2, <2>5 DEF RowsSane, Exists
  <2> QED
    BY <2>3, <2>4, <2>5
<1>9. StateTellsRefund'
  <2> SUFFICES ASSUME NEW u \in Tx
               PROVE  /\ txns'[u].state = "partially_refunded" =>
                           0 < txns'[u].refunded /\ txns'[u].refunded < txns'[u].amount
                      /\ txns'[u].state = "refunded" => txns'[u].refunded = txns'[u].amount
                      /\ txns'[u].state \notin {"partially_refunded", "refunded"}
                           => txns'[u].refunded = 0
    BY DEF StateTellsRefund
  <2>0. StateTellsRefund
    BY DEF Inv
  <2>1. CASE u = child
    BY <1>2, <2>1
  <2>2. CASE u = t /\ op = "refund"
    BY <1>2, <1>3, <1>4, <1>5, <2>0, <2>2 DEF Remaining, Rows
  <2>3. CASE u = t /\ op # "refund"
    BY <1>2, <1>4, <1>5, <2>0, <2>3 DEF StateTellsRefund, OperationTypes, Rows
  <2>4. CASE u \notin {t, child}
    BY <1>2, <2>0, <2>4 DEF StateTellsRefund
  <2> QED
    BY <2>1, <2>2, <2>3, <2>4
<1>10. ChildrenMatchState'
  <2> SUFFICES ASSUME NEW c \in Tx, txns'[c].op # "none"
               PROVE  /\ txns'[c].parent \in Tx /\ txns'[c].parent # c
                      /\ txns'[c].op = "void" => txns'[txns'[c].parent].state = "voided"
                      /\ txns'[c].op = "capture" =>
                           /\ txns'[txns'[c].parent].state = "captured"
                           /\ txns'[c].amount = txns'[txns'[c].parent].amount
                      /\ txns'[c].op = "refund" =>
                           txns'[txns'[c].parent].state \in {"partially_refunded", "refunded"}
    BY DEF ChildrenMatchState
  <2>0. ChildrenMatchState
    BY DEF Inv
  <2>1. CASE c = child
    BY <1>2, <1>3, <1>5, <2>1
  <2>2. CASE c # child
    <3>1. /\ txns[c].op # "none" /\ txns'[c].op = txns[c].op
          /\ txns'[c].parent = txns[c].parent /\ txns'[c].amount = txns[c].amount
      BY <1>2, <2>2
    <3>2. txns[c].parent # child
      BY <1>6
    <3>3. CASE txns[c].parent = t
      <4>1. txns[c].op = "refund" /\ op = "refund"
        BY <1>4, <1>5, <2>0, <3>1, <3>3 DEF ChildrenMatchState, OperationTypes, Rows
      <4> QED
        BY <1>2, <1>5, <2>0, <3>1, <3>3, <4>1 DEF ChildrenMatchState
    <3>4. CASE txns[c].parent # t
      BY <1>2, <2>0, <3>1, <3>2, <3>4 DEF ChildrenMatchState
    <3> QED
      BY <3>3, <3>4
  <2> QED
    BY <2>1, <2>2
<1>11. VoidOrCaptureOnce'
  <2> SUFFICES ASSUME NEW c \in Tx, NEW d \in Tx,
                      txns'[c].op \in {"void", "capture"},
                      txns'[d].op \in OperationTypes,
                      txns'[c].parent = txns'[d].parent
               PROVE  c = d
    BY DEF VoidOrCaptureOnce
  <2>0. ChildrenMatchState /\ VoidOrCaptureOnce
    BY DEF Inv
  <2>1. \A u \in Tx \ {child} : txns'[u].op = txns[u].op /\ txns'[u].parent = txns[u].parent
    BY <1>2
  <2>2. ASSUME NEW u \in Tx \ {child}, txns[u].op \in OperationTypes, txns[u].parent = t
        PROVE  txns[u].op = "refund" /\ op = "refund"
    BY <1>5, <2>0, <2>2 DEF ChildrenMatchState, OperationTypes
  <2>3. CASE c = child
    BY <1>2, <2>1, <2>2, <2>3
  <2>4. CASE d = child
    BY <1>2, <2>1, <2>2, <2>4 DEF OperationTypes
  <2>5. CASE c # child /\ d # child
    BY <2>0, <2>1, <2>5 DEF VoidOrCaptureOnce
  <2> QED
    BY <2>3, <2>4, <2>5
<1>12. KeyedOnce'
  <2>0. KeyedOnce
    BY DEF Inv
  <2>1. operations' = operations \cup OperationRows(t, op, amount, key, child)
    BY DEF CreateChild
  <2>2. \A o \in operations : o.child \in Tx
    BY <1>1 DEF TypeOK
  <2>3. \A o \in operations : o.child # child
    BY <1>1, <2>0, <2>2 DEF KeyedOnce, RowsSane, Absent, TypeOK, OperationTypes
  <2>4. \A o \in operations : /\ txns'[o.child].parent = o.txn
                              /\ txns'[o.child].op = o.op
                              /\ txns'[o.child].amount = o.amount
    BY <1>2, <2>0, <2>2, <2>3 DEF KeyedOnce
  <2>5. \A o \in OperationRows(t, op, amount, key, child) :
          o = [txn |-> t, op |-> op, key |-> key, amount |-> amount, child |-> child]
    BY DEF OperationRows
  <2>6. \A o \in operations : ~(o.txn = t /\ o.op = op /\ o.key = key)
    BY <1>3 DEF Recorded
  <2>7. \A o, q \in operations' :
          o.txn = q.txn /\ o.op = q.op /\ o.key = q.key => o = q
    BY <2>0, <2>1, <2>5, <2>6 DEF KeyedOnce
  <2>8. \A o \in operations' : /\ txns'[o.child].parent = o.txn
                               /\ txns'[o.child].op = o.op
                               /\ txns'[o.child].amount = o.amount
    BY <1>2, <2>1, <2>4, <2>5
  <2> QED
    BY <2>7, <2>8 DEF KeyedOnce
<1>13. SnapshotIsCurrent'
  <2>0. SnapshotIsCurrent
    BY DEF Inv
  <2>1. snapshots' = [snapshots EXCEPT ![t] = SnapshotOf(updated)]
    BY DEF CreateChild
  <2>2. txns'[t] = updated
    BY <1>1, <1>2, CreateChildRows
  <2>3. snapshots'[t] = SnapshotOf(txns'[t])
    BY <1>1, <2>1, <2>2 DEF TypeOK
  <2>4. snapshots[child] = NoSnapshot
    BY <1>1, <2>0 DEF SnapshotIsCurrent, RowsSane, SnapshotOf, NoSnapshot, Absent
  <2>5. \A u \in Tx \ {t} : snapshots'[u] = snapshots[u]
    BY <1>1, <2>1 DEF TypeOK
  <2>6. ASSUME NEW u \in Tx, snapshots'[u] # NoSnapshot
        PROVE  snapshots'[u] = SnapshotOf(txns'[u])
    BY <1>2, <2>0, <2>3, <2>4, <2>5, <2>6 DEF SnapshotIsCurrent, SnapshotOf
  <2>7. NoSnapshot' = NoSnapshot
    BY DEF NoSnapshot, TransactionObj, Absent
  <2> QED
    BY <2>6, <2>7 DEF SnapshotIsCurrent, SnapshotOf
<1> QED
  BY <1>7, <1>8, <1>9, <1>10, <1>11, <1>12, <1>13 DEF Inv

-----------------------------------------------------------------------------
(* The other actions.                                                          *)
LEMMA InitInv == Init => Inv
<1> SUFFICES ASSUME Init PROVE Inv
  OBVIOUS
<1>1. \A t \in Tx : txns[t] = Absent
  BY DEF Init
<1>2. Absent \in Rows
  BY DEF Absent, Rows, NotificationUrls
<1>3. TypeOK
  BY <1>1, <1>2 DEF Init, TypeOK
<1>4. RowsSane
  <2>1. \A t \in Tx : /\ txns[t].state = "none" /\ txns[t].amount = 0
                      /\ txns[t].refunded = 0
                      /\ txns[t].parent = NoTx /\ txns[t].op = "none"
    BY <1>1 DEF Absent
  <2> QED
    BY <1>1, <2>1, TxAssumption DEF RowsSane, Exists
<1>5. StateTellsRefund
  BY <1>1 DEF StateTellsRefund, Absent
<1>6. ChildrenMatchState /\ VoidOrCaptureOnce
  BY <1>1 DEF ChildrenMatchState, VoidOrCaptureOnce, Absent, OperationTypes
<1>7. KeyedOnce /\ SnapshotIsCurrent
  BY DEF Init, KeyedOnce, SnapshotIsCurrent
<1> QED
  BY <1>3, <1>4, <1>5, <1>6, <1>7 DEF Inv

(* A new original row disturbs nothing: nobody refers to it yet.               *)
LEMMA CreateTransactionPreserves ==
  ASSUME Inv, NEW t \in Tx, NEW amount \in Amounts, NEW url \in NotificationUrls,
         CreateTransaction(t, amount, url)
  PROVE  Inv'
<1> DEFINE row == [Absent EXCEPT !.state = "processing", !.amount = amount,
                                 !.notificationUrl = url]
<1>1. /\ ~Exists(t) /\ txns' = [txns EXCEPT ![t] = row]
      /\ UNCHANGED <<snapshots, operations, callbacks, committed>>
  BY DEF CreateTransaction
<1>2. /\ TypeOK /\ RowsSane /\ StateTellsRefund /\ ChildrenMatchState
      /\ VoidOrCaptureOnce /\ KeyedOnce /\ SnapshotIsCurrent
  BY DEF Inv
<1>3. /\ row.state = "processing" /\ row.amount = amount /\ row.refunded = 0
      /\ row.parent = NoTx /\ row.op = "none" /\ row \in Rows
      /\ amount \in Nat /\ amount > 0
  <2>1. amount \in Nat /\ amount > 0
    BY AmountsAssumption
  <2>2. Absent \in Rows
    BY DEF Absent, Rows, NotificationUrls
  <2>3. row \in Rows
    BY <2>1, <2>2 DEF Rows, InternalStates
  <2>4. /\ row.state = "processing" /\ row.amount = amount /\ row.refunded = 0
        /\ row.parent = NoTx /\ row.op = "none"
    BY DEF Absent
  <2> QED
    BY <2>1, <2>3, <2>4
<1>4. /\ txns'[t] = row /\ txns[t] = Absent
      /\ \A u \in Tx \ {t} : txns'[u] = txns[u]
  BY <1>1, <1>2 DEF TypeOK, RowsSane
<1>5. \A u \in Tx : txns[u].parent # t
  BY <1>1, <1>2 DEF RowsSane
<1>6. TypeOK'
  BY <1>1, <1>2, <1>3 DEF TypeOK
<1>7. RowsSane'
  BY <1>1, <1>2, <1>3, <1>4, TxAssumption DEF RowsSane, Exists, Absent
<1>8. StateTellsRefund'
  BY <1>2, <1>3, <1>4 DEF StateTellsRefund
<1>9. ChildrenMatchState'
  <2>1. txns'[t].op = "none"
    BY <1>3, <1>4
  <2>2. ASSUME NEW c \in Tx, txns'[c].op # "none"
        PROVE  /\ txns'[c] = txns[c] /\ txns[c].parent \in Tx
               /\ txns'[txns[c].parent] = txns[txns[c].parent]
    BY <1>2, <1>4, <1>5, <2>1, <2>2 DEF ChildrenMatchState
  <2> QED
    BY <1>2, <2>2 DEF ChildrenMatchState
<1>10. VoidOrCaptureOnce'
  <2>1. txns'[t].op \notin OperationTypes
    BY <1>3, <1>4 DEF OperationTypes
  <2>2. \A c \in Tx : txns'[c].op \in OperationTypes => txns'[c] = txns[c]
    BY <1>4, <2>1
  <2> QED
    BY <1>2, <2>2 DEF VoidOrCaptureOnce, OperationTypes
<1>11. KeyedOnce'
  <2>1. \A o \in operations : o.child \in Tx /\ o.op \in OperationTypes
    BY <1>2 DEF TypeOK
  <2>2. \A o \in operations : o.child # t
    BY <1>2, <1>4, <2>1 DEF KeyedOnce, Absent, OperationTypes
  <2> QED
    BY <1>1, <1>2, <1>4, <2>1, <2>2 DEF KeyedOnce
<1>12. SnapshotIsCurrent'
  <2>1. snapshots[t] = NoSnapshot
    BY <1>2, <1>4 DEF SnapshotIsCurrent, SnapshotOf, NoSnapshot, Absent
  <2>2. NoSnapshot' = NoSnapshot
    BY DEF NoSnapshot, TransactionObj, Absent
  <2> QED
    BY <1>1, <1>2, <1>4, <2>1, <2>2 DEF SnapshotIsCurrent, SnapshotOf
<1> QED
  BY <1>6, <1>7, <1>8, <1>9, <1>10, <1>11, <1>12 DEF Inv

(* A scenario transition leaves processing or pending, where a payment has no  *)
(* children yet, so it cannot contradict any.                                  *)
LEMMA SettlePreserves ==
  ASSUME Inv, NEW t \in Tx, NEW to \in SettleStates, Settle(t, to)
  PROVE  Inv'
<1> DEFINE updated == Transitioned(txns[t], to)
<1>1. /\ Exists(t) /\ txns[t].op = "none" /\ IsLegalTransition(txns[t].state, to)
      /\ txns' = [txns EXCEPT ![t] = updated]
      /\ snapshots' = [snapshots EXCEPT ![t] = SnapshotOf(updated)]
      /\ UNCHANGED <<operations, callbacks, committed>>
  BY DEF Settle
<1>2. /\ TypeOK /\ RowsSane /\ StateTellsRefund /\ ChildrenMatchState
      /\ VoidOrCaptureOnce /\ KeyedOnce /\ SnapshotIsCurrent
  BY DEF Inv
<1>3. \A u \in Tx : txns[u] \in Rows
  BY <1>2 DEF TypeOK
<1>4. txns[t].state \in {"processing", "pending"}
  BY <1>1, <1>3, SettleEdges DEF Rows, Exists
<1>5. to \in {"pending", "authorized", "succeeded", "failed"}
  BY SettleAssumption
<1>6. /\ updated \in Rows /\ updated.state = to
      /\ updated.amount = txns[t].amount /\ updated.refunded = txns[t].refunded
      /\ updated.parent = txns[t].parent /\ updated.op = txns[t].op
  BY <1>3, <1>5 DEF Transitioned, Rows, InternalStates
<1>7. txns'[t] = updated /\ \A u \in Tx \ {t} : txns'[u] = txns[u]
  BY <1>1, <1>2 DEF TypeOK
<1>8. \A u \in Tx : txns[u].op # "none" => txns[u].parent # t
  BY <1>2, <1>3, <1>4 DEF ChildrenMatchState, Rows, OperationTypes
<1>9. TypeOK'
  BY <1>1, <1>2, <1>6 DEF TypeOK
<1>10. RowsSane'
  <2>1. \A u \in Tx : Exists(u)' <=> Exists(u)
    BY <1>1, <1>5, <1>6, <1>7 DEF Exists
  <2> QED
    BY <1>1, <1>2, <1>6, <1>7, <2>1 DEF RowsSane
<1>11. StateTellsRefund'
  BY <1>2, <1>4, <1>5, <1>6, <1>7 DEF StateTellsRefund
<1>12. ChildrenMatchState'
  BY <1>1, <1>2, <1>6, <1>7, <1>8 DEF ChildrenMatchState
<1>13. VoidOrCaptureOnce'
  BY <1>2, <1>6, <1>7 DEF VoidOrCaptureOnce
<1>14. KeyedOnce'
  <2>1. \A o \in operations : o.child \in Tx
    BY <1>2 DEF TypeOK
  <2> QED
    BY <1>1, <1>2, <1>6, <1>7, <2>1 DEF KeyedOnce
<1>15. SnapshotIsCurrent'
  <2>1. NoSnapshot' = NoSnapshot
    BY DEF NoSnapshot, TransactionObj, Absent
  <2>2. /\ snapshots'[t] = SnapshotOf(txns'[t])
        /\ \A u \in Tx \ {t} : snapshots'[u] = snapshots[u]
    BY <1>1, <1>2, <1>7 DEF TypeOK
  <2> QED
    BY <1>2, <1>7, <2>1, <2>2 DEF SnapshotIsCurrent, SnapshotOf
<1> QED
  BY <1>9, <1>10, <1>11, <1>12, <1>13, <1>14, <1>15 DEF Inv

(* Only callbacks and committed change: the two halves of a committed child.   *)
LEMMA SameTablesPreserve ==
  ASSUME Inv, UNCHANGED <<txns, snapshots, operations>>,
         callbacks' \subseteq Tx, committed' \in Tx \cup {NoTx}
  PROVE  Inv'
  BY DEF Inv, TypeOK, RowsSane, Exists, Absent, StateTellsRefund, ChildrenMatchState,
         VoidOrCaptureOnce, KeyedOnce, SnapshotIsCurrent, SnapshotOf, NoSnapshot,
         TransactionObj

(* Every accepted request is one of the three operations on a fresh child.     *)
LEMMA AcceptStep ==
  ASSUME Inv, NEW t \in Tx, NEW op \in OperationTypes, NEW amount \in Nat \ {0},
         NEW key \in Keys \cup {NoKey}, Accept(t, op, amount, key)
  PROVE  Inv'
<1>1. PICK child \in Tx : ~Exists(child) /\ CreateChild(t, op, amount, key, child)
  BY DEF Accept
<1>2. Exists(t) /\ Answer(t, op, amount, key) = "created"
  BY DEF Accept
<1> QED
  BY <1>1, <1>2, AcceptPreserves

LEMMA NextInv == Inv /\ [Next]_vars => Inv'
<1> SUFFICES ASSUME Inv, [Next]_vars PROVE Inv'
  OBVIOUS
<1>0. TypeOK /\ RowsSane
  BY DEF Inv
<1>1. ASSUME NEW t \in Tx, NEW amount \in Amounts, NEW url \in NotificationUrls,
             CreateTransaction(t, amount, url)
      PROVE  Inv'
  BY <1>1, CreateTransactionPreserves
<1>2. ASSUME NEW t \in Tx, NEW to \in SettleStates, Settle(t, to)
      PROVE  Inv'
  BY <1>2, SettlePreserves
<1>3. ASSUME NEW t \in Tx, NEW amount \in RequestAmounts, NEW key \in Keys \cup {NoKey},
             Capture(t, amount, key) \/ Refund(t, amount, key)
      PROVE  Inv'
  <2>1. amount \in Nat \ {0}
    BY AmountsAssumption
  <2> QED
    BY <1>3, <2>1, AcceptStep DEF Capture, Refund, OperationTypes
<1>4. ASSUME NEW t \in Tx, NEW key \in Keys \cup {NoKey}, Void(t, key)
      PROVE  Inv'
  <2>1. txns[t].amount \in Nat \ {0}
    BY <1>0, <1>4 DEF TypeOK, Rows, RowsSane, Void, Accept
  <2> QED
    BY <1>4, <2>1, AcceptStep DEF Void, OperationTypes
<1>5. CASE MaterializeChildCallback
  BY <1>0, <1>5, SameTablesPreserve DEF MaterializeChildCallback, Idle, TypeOK
<1>6. CASE Crash
  BY <1>0, <1>6, SameTablesPreserve DEF Crash, TypeOK
<1>7. CASE UNCHANGED vars
  BY <1>0, <1>7, SameTablesPreserve DEF vars, TypeOK
<1> QED
  BY <1>1, <1>2, <1>3, <1>4, <1>5, <1>6, <1>7 DEF Next

(* The inductive invariant holds in every reachable state of the tables.      *)
THEOREM Invariance == Spec => []Inv
<1> QED
  BY InitInv, NextInv, PTL DEF Spec

-----------------------------------------------------------------------------
(* The theorems.                                                               *)

(* Every table of transactions, operations and snapshots stays well formed.    *)
THEOREM TypeCorrect == Spec => []TypeOK
<1>1. Inv => TypeOK
  BY DEF Inv
<1> QED
  BY <1>1, Invariance, PTL

(* The state column of a payment tells how much of it was refunded, and no     *)
(* payment is refunded beyond its amount.                                      *)
THEOREM RefundStates == Spec => [](StateTellsRefund /\ RowsSane)
<1>1. Inv => StateTellsRefund /\ RowsSane
  BY DEF Inv
<1> QED
  BY <1>1, Invariance, PTL

(* A payment ends in one way, and its children say the same as its state.      *)
THEOREM OneEnding == Spec => [](ChildrenMatchState /\ VoidOrCaptureOnce)
<1>1. Inv => ChildrenMatchState /\ VoidOrCaptureOnce
  BY DEF Inv
<1> QED
  BY <1>1, Invariance, PTL

(* An idempotency key creates at most one child per transaction and operation. *)
THEOREM AtMostOnceByKey == Spec => []KeyedOnce
<1>1. Inv => KeyedOnce
  BY DEF Inv
<1> QED
  BY <1>1, Invariance, PTL

(* The newest canonical snapshot is a projection of the row as it stands.      *)
THEOREM SnapshotsFresh == Spec => []SnapshotIsCurrent
<1>1. Inv => SnapshotIsCurrent
  BY DEF Inv
<1> QED
  BY <1>1, Invariance, PTL

(* One row of OnlyForward, as a relation between two states.                   *)
Forward(t) ==
  Exists(t) =>
    /\ txns'[t].amount = txns[t].amount
    /\ txns'[t].refunded >= txns[t].refunded
    /\ txns[t].state \in Settled => txns'[t].state = txns[t].state
    /\ txns'[t].state # txns[t].state =>
         IsLegalTransition(txns[t].state, txns'[t].state)

LEMMA AcceptForward ==
  ASSUME Inv, NEW t \in Tx, NEW op \in OperationTypes, NEW amount \in Nat \ {0},
         NEW key \in Keys \cup {NoKey}, Accept(t, op, amount, key), NEW u \in Tx
  PROVE  Forward(u)
<1>1. PICK child \in Tx : ~Exists(child) /\ CreateChild(t, op, amount, key, child)
  BY DEF Accept
<1>2. Exists(t) /\ Answer(t, op, amount, key) = "created" /\ TypeOK /\ RowsSane
  BY DEF Accept, Inv
<1>3. /\ txns[t].state \in AcceptingStates(op) \ {"captured"}
      /\ IsLegalTransition(txns[t].state, NewState(t, op, amount))
  BY <1>2, Accepted
<1>4. /\ \A v \in Tx \ {t, child} : txns'[v] = txns[v]
      /\ txns'[t].state = NewState(t, op, amount)
      /\ txns'[t].amount = txns[t].amount
      /\ txns'[t].refunded = IF op = "refund" THEN txns[t].refunded + amount
                                            ELSE txns[t].refunded
  BY <1>1, <1>2, AcceptedRows
<1>5. txns[t].state \notin Settled
  BY <1>3 DEF AcceptingStates, Settled, OperationTypes
<1>6. txns[u].refunded \in Nat
  BY <1>2 DEF TypeOK, Rows
<1>7. CASE u = t
  BY <1>3, <1>4, <1>5, <1>6, <1>7 DEF Forward
<1>8. CASE u = child
  BY <1>1, <1>8 DEF Forward
<1>9. CASE u \notin {t, child}
  BY <1>4, <1>6, <1>9 DEF Forward
<1> QED
  BY <1>7, <1>8, <1>9

LEMMA NextForward ==
  ASSUME Inv, [Next]_vars, NEW u \in Tx
  PROVE  Forward(u)
<1>0. TypeOK /\ RowsSane /\ txns[u].refunded \in Nat
  BY DEF Inv, TypeOK, Rows
<1>1. ASSUME NEW t \in Tx, NEW amount \in Amounts, NEW url \in NotificationUrls,
             CreateTransaction(t, amount, url)
      PROVE  Forward(u)
  BY <1>0, <1>1 DEF CreateTransaction, Forward, TypeOK
<1>2. ASSUME NEW t \in Tx, NEW to \in SettleStates, Settle(t, to)
      PROVE  Forward(u)
  <2>1. /\ IsLegalTransition(txns[t].state, to)
        /\ txns' = [txns EXCEPT ![t] = Transitioned(txns[t], to)]
        /\ Exists(t) /\ txns[t] \in Rows
    BY <1>0, <1>2 DEF Settle, TypeOK
  <2>2. txns[t].state \in {"processing", "pending"}
    BY <2>1, SettleEdges DEF Rows, Exists
  <2>3. /\ txns'[t].state = to /\ txns'[t].amount = txns[t].amount
        /\ txns'[t].refunded = txns[t].refunded
    BY <1>0, <2>1 DEF TypeOK, Transitioned, Rows
  <2>4. CASE u = t
    BY <1>0, <2>1, <2>2, <2>3, <2>4 DEF Forward, Settled
  <2>5. CASE u # t
    BY <1>0, <2>1, <2>5 DEF Forward, TypeOK
  <2> QED
    BY <2>4, <2>5
<1>3. ASSUME NEW t \in Tx, NEW amount \in RequestAmounts, NEW key \in Keys \cup {NoKey},
             Capture(t, amount, key) \/ Refund(t, amount, key)
      PROVE  Forward(u)
  <2>1. amount \in Nat \ {0}
    BY AmountsAssumption
  <2> QED
    BY <1>3, <2>1, AcceptForward DEF Capture, Refund, OperationTypes
<1>4. ASSUME NEW t \in Tx, NEW key \in Keys \cup {NoKey}, Void(t, key)
      PROVE  Forward(u)
  <2>1. txns[t].amount \in Nat \ {0}
    BY <1>0, <1>4 DEF TypeOK, Rows, RowsSane, Void, Accept
  <2> QED
    BY <1>4, <2>1, AcceptForward DEF Void, OperationTypes
<1>5. CASE UNCHANGED txns
  BY <1>0, <1>5 DEF Forward
<1> QED
  BY <1>1, <1>2, <1>3, <1>4, <1>5 DEF Next, vars, MaterializeChildCallback, Crash

(* Amounts are fixed, refunds only grow, and an ended payment stays ended.     *)
THEOREM MoneyMovesForward == Spec => OnlyForward
<1>1. Inv /\ [Next]_vars => [\A t \in Tx : Forward(t)]_vars
  BY NextForward
<1>2. [\A t \in Tx : Forward(t)]_vars =>
        [\A t \in Tx : Exists(t) =>
           /\ txns'[t].amount = txns[t].amount
           /\ txns'[t].refunded >= txns[t].refunded
           /\ txns[t].state \in Settled => txns'[t].state = txns[t].state
           /\ txns'[t].state # txns[t].state =>
                IsLegalTransition(txns[t].state, txns'[t].state)]_vars
  BY DEF Forward
<1> QED
  BY <1>1, <1>2, Invariance, PTL DEF Spec, OnlyForward

-----------------------------------------------------------------------------
(* Refunded totals.  The cents of the refund children are finitely many and as *)
(* many as the refunded column says; a refund adds its child's cents, which    *)
(* are new, and no other step changes any.                                     *)

CentsMatch ==
  \A t \in Tx : /\ IsFiniteSet(RefundedCents(t))
                /\ txns[t].refunded = RefundedByChildren(t)

(* A child of a given amount has that many cents.                              *)
LEMMA CentsOfChild ==
  ASSUME NEW c, NEW n \in Nat
  PROVE  IsFiniteSet({c} \X (1 .. n)) /\ Cardinality({c} \X (1 .. n)) = n
<1>1. IsFiniteSet({c}) /\ Cardinality({c}) = 1
  BY FS_Singleton
<1>2. 1 \in Int /\ n \in Int
  OBVIOUS
<1>3. IsFiniteSet(1 .. n) /\ Cardinality(1 .. n) = IF 1 > n THEN 0 ELSE n - 1 + 1
  BY ONLY <1>2, FS_Interval
<1>4. Cardinality(1 .. n) = n
  BY <1>3
<1>5. /\ IsFiniteSet({c} \X (1 .. n))
      /\ Cardinality({c} \X (1 .. n)) = Cardinality({c}) * Cardinality(1 .. n)
  BY <1>1, <1>3, FS_Product
<1> QED
  BY <1>1, <1>4, <1>5

(* Rows that keep parent, operation and amount keep their cents.               *)
LEMMA SameCents ==
  ASSUME \A c \in Tx : /\ txns'[c].parent = txns[c].parent
                       /\ txns'[c].op = txns[c].op
                       /\ txns'[c].op = "refund" => txns'[c].amount = txns[c].amount,
         NEW t
  PROVE  RefundedCents(t)' = RefundedCents(t)
<1>1. ChildrenOf(t, "refund")' = ChildrenOf(t, "refund")
  BY DEF ChildrenOf
<1>2. \A c \in ChildrenOf(t, "refund") : txns'[c].amount = txns[c].amount
  BY DEF ChildrenOf
<1>3. \A x : x \in RefundedCents(t)' <=> x \in RefundedCents(t)
  BY <1>1, <1>2 DEF RefundedCents
<1> QED
  BY <1>3

(* An accepted operation adds its child's cents to a refunded payment.         *)
LEMMA AcceptCents ==
  ASSUME Inv, CentsMatch, NEW t \in Tx, NEW child \in Tx, Exists(t), ~Exists(child),
         NEW op \in OperationTypes, NEW amount \in Nat \ {0},
         NEW key \in Keys \cup {NoKey},
         Answer(t, op, amount, key) = "created",
         CreateChild(t, op, amount, key, child)
  PROVE  CentsMatch'
<1> DEFINE new == {child} \X (1 .. amount)
<1>1. TypeOK /\ RowsSane
  BY DEF Inv
<1>2. /\ child # t
      /\ \A u \in Tx \ {t, child} : txns'[u] = txns[u]
      /\ /\ txns'[child].amount = amount
         /\ txns'[child].refunded = 0
         /\ txns'[child].parent = t
         /\ txns'[child].op = op
      /\ /\ txns'[t].amount = txns[t].amount
         /\ txns'[t].refunded = IF op = "refund" THEN txns[t].refunded + amount
                                               ELSE txns[t].refunded
         /\ txns'[t].parent = txns[t].parent
         /\ txns'[t].op = txns[t].op
  BY <1>1, AcceptedRows
<1>3. /\ txns[child].op = "none" /\ txns[child].parent = NoTx /\ txns[child].refunded = 0
  BY <1>1 DEF RowsSane, Absent
<1>4. \A c \in Tx \ {child} : /\ txns'[c].parent = txns[c].parent
                             /\ txns'[c].op = txns[c].op
                             /\ txns'[c].amount = txns[c].amount
  BY <1>2
<1>5. \A u : new \cap RefundedCents(u) = {}
  BY <1>3 DEF RefundedCents, ChildrenOf
<1>6. ASSUME NEW u \in Tx, ~(u = t /\ op = "refund")
      PROVE  RefundedCents(u)' = RefundedCents(u)
  <2>1. ChildrenOf(u, "refund")' = ChildrenOf(u, "refund")
    BY <1>2, <1>3, <1>4, <1>6 DEF ChildrenOf
  <2>2. \A c \in ChildrenOf(u, "refund") : txns'[c].amount = txns[c].amount
    BY <1>3, <1>4 DEF ChildrenOf
  <2>3. \A x : x \in RefundedCents(u)' <=> x \in RefundedCents(u)
    BY <2>1, <2>2 DEF RefundedCents
  <2> QED
    BY <2>3
<1>7. op = "refund" => RefundedCents(t)' = RefundedCents(t) \cup new
  <2> SUFFICES ASSUME op = "refund" PROVE RefundedCents(t)' = RefundedCents(t) \cup new
    OBVIOUS
  <2>1. ChildrenOf(t, "refund")' = ChildrenOf(t, "refund") \cup {child}
    BY <1>2, <1>3, <1>4 DEF ChildrenOf
  <2>2. \A c \in ChildrenOf(t, "refund") : txns'[c].amount = txns[c].amount
    BY <1>3, <1>4 DEF ChildrenOf
  <2>3. {child} \X (1 .. txns'[child].amount) = new
    BY <1>2
  <2>4. \A x : x \in RefundedCents(t)' <=> x \in RefundedCents(t) \cup new
    BY <2>1, <2>2, <2>3 DEF RefundedCents
  <2> QED
    BY <2>4
<1>8. IsFiniteSet(new) /\ Cardinality(new) = amount
  BY CentsOfChild
<1> SUFFICES ASSUME NEW u \in Tx
             PROVE  /\ IsFiniteSet(RefundedCents(u)')
                    /\ txns'[u].refunded = Cardinality(RefundedCents(u)')
  BY DEF CentsMatch, RefundedByChildren
<1>9. IsFiniteSet(RefundedCents(u)) /\ txns[u].refunded = Cardinality(RefundedCents(u))
  BY DEF CentsMatch, RefundedByChildren
<1>10. CASE u = t /\ op = "refund"
  <2>1. /\ IsFiniteSet(RefundedCents(t) \cup new)
        /\ Cardinality(RefundedCents(t) \cup new) =
             Cardinality(RefundedCents(t)) + Cardinality(new)
               - Cardinality(RefundedCents(t) \cap new)
    BY <1>8, <1>9, <1>10, FS_Union
  <2>2. RefundedCents(t) \cap new = {} /\ Cardinality({}) = 0
    BY <1>5, FS_EmptySet
  <2>3. txns[t].refunded \in Nat
    BY <1>1 DEF TypeOK, Rows
  <2>4. Cardinality(RefundedCents(t) \cup new) = txns[t].refunded + amount
    BY <1>8, <1>9, <1>10, <2>1, <2>2, <2>3
  <2> QED
    BY <1>2, <1>7, <1>10, <2>1, <2>4
<1>11. CASE ~(u = t /\ op = "refund")
  <2>1. txns'[u].refunded = txns[u].refunded
    BY <1>2, <1>3, <1>11
  <2> QED
    BY <1>6, <1>9, <1>11, <2>1
<1> QED
  BY <1>10, <1>11

LEMMA AcceptStepCents ==
  ASSUME Inv, CentsMatch, NEW t \in Tx, NEW op \in OperationTypes,
         NEW amount \in Nat \ {0}, NEW key \in Keys \cup {NoKey},
         Accept(t, op, amount, key)
  PROVE  CentsMatch'
<1>1. PICK child \in Tx : ~Exists(child) /\ CreateChild(t, op, amount, key, child)
  BY DEF Accept
<1>2. Exists(t) /\ Answer(t, op, amount, key) = "created"
  BY DEF Accept
<1> QED
  BY <1>1, <1>2, AcceptCents

(* A step that leaves children and refunded columns alone.                     *)
LEMMA CentsKept ==
  ASSUME CentsMatch,
         \A c \in Tx : /\ txns'[c].parent = txns[c].parent
                       /\ txns'[c].op = txns[c].op
                       /\ txns'[c].op = "refund" => txns'[c].amount = txns[c].amount
                       /\ txns'[c].refunded = txns[c].refunded
  PROVE  CentsMatch'
<1>1. \A t \in Tx : RefundedCents(t)' = RefundedCents(t)
  BY SameCents
<1> QED
  BY <1>1 DEF CentsMatch, RefundedByChildren

LEMMA InitCents == Init => CentsMatch
<1> SUFFICES ASSUME Init, NEW t \in Tx
             PROVE  IsFiniteSet(RefundedCents(t)) /\ txns[t].refunded = RefundedByChildren(t)
  BY DEF CentsMatch
<1>1. txns[t].refunded = 0 /\ \A c \in Tx : txns[c].op = "none"
  BY DEF Init, Absent
<1>2. RefundedCents(t) = {}
  BY <1>1 DEF RefundedCents, ChildrenOf
<1> QED
  BY <1>1, <1>2, FS_EmptySet DEF RefundedByChildren

LEMMA NextCents == Inv /\ CentsMatch /\ [Next]_vars => CentsMatch'
<1> SUFFICES ASSUME Inv, CentsMatch, [Next]_vars PROVE CentsMatch'
  OBVIOUS
<1>0. TypeOK /\ RowsSane
  BY DEF Inv
<1>1. ASSUME NEW t \in Tx, NEW amount \in Amounts, NEW url \in NotificationUrls,
             CreateTransaction(t, amount, url)
      PROVE  CentsMatch'
  <2>1. txns[t] = Absent
    BY <1>0, <1>1 DEF CreateTransaction, RowsSane
  <2>2. /\ txns'[t].parent = NoTx /\ txns'[t].op = "none" /\ txns'[t].refunded = 0
        /\ \A u \in Tx \ {t} : txns'[u] = txns[u]
    BY <1>0, <1>1 DEF CreateTransaction, TypeOK, Absent
  <2> QED
    BY <2>1, <2>2, CentsKept DEF Absent
<1>2. ASSUME NEW t \in Tx, NEW to \in SettleStates, Settle(t, to)
      PROVE  CentsMatch'
  <2>1. /\ txns' = [txns EXCEPT ![t] = Transitioned(txns[t], to)]
        /\ txns \in [Tx -> Rows]
    BY <1>0, <1>2 DEF Settle, TypeOK
  <2>2. \A u \in Tx : /\ txns'[u].parent = txns[u].parent
                      /\ txns'[u].op = txns[u].op
                      /\ txns'[u].amount = txns[u].amount
                      /\ txns'[u].refunded = txns[u].refunded
    BY <2>1 DEF Transitioned, Rows
  <2> QED
    BY <2>2, CentsKept
<1>3. ASSUME NEW t \in Tx, NEW amount \in RequestAmounts, NEW key \in Keys \cup {NoKey},
             Capture(t, amount, key) \/ Refund(t, amount, key)
      PROVE  CentsMatch'
  <2>1. amount \in Nat \ {0}
    BY AmountsAssumption
  <2> QED
    BY <1>3, <2>1, AcceptStepCents DEF Capture, Refund, OperationTypes
<1>4. ASSUME NEW t \in Tx, NEW key \in Keys \cup {NoKey}, Void(t, key)
      PROVE  CentsMatch'
  <2>1. txns[t].amount \in Nat \ {0}
    BY <1>0, <1>4 DEF TypeOK, Rows, RowsSane, Void, Accept
  <2> QED
    BY <1>4, <2>1, AcceptStepCents DEF Void, OperationTypes
<1>5. CASE UNCHANGED txns
  BY <1>5, CentsKept
<1> QED
  BY <1>1, <1>2, <1>3, <1>4, <1>5 DEF Next, vars, MaterializeChildCallback, Crash

(* The refunded column is the sum of the refund children and never exceeds the *)
(* amount, for any number of partial refunds, retries and crashes.             *)
THEOREM RefundTotals == Spec => []RefundsAddUp
<1>1. Init => Inv /\ CentsMatch
  BY InitInv, InitCents
<1>2. (Inv /\ CentsMatch) /\ [Next]_vars => (Inv /\ CentsMatch)'
  BY NextInv, NextCents
<1>3. Inv /\ CentsMatch => RefundsAddUp
  BY DEF Inv, RowsSane, CentsMatch, RefundsAddUp
<1> QED
  BY <1>1, <1>2, <1>3, PTL DEF Spec

-----------------------------------------------------------------------------
(* The abstract ledger.  What it keeps of a row, read off the row alone.       *)

PhaseOf(state) ==
  CASE state \in {"processing", "pending"} -> "open"
    [] state \in {"succeeded", "partially_refunded", "refunded"} -> "paid"
    [] OTHER -> state

EntryOf(row) ==
  IF row.state # "none" /\ row.op = "none"
  THEN [phase |-> PhaseOf(row.state), amount |-> row.amount, refunded |-> row.refunded]
  ELSE [phase |-> "unknown", amount |-> 0, refunded |-> 0]

(* What the children say of a payment is what its own row says.                *)
LEMMA EntryOfRow ==
  ASSUME Inv, CentsMatch, NEW t \in Tx
  PROVE  LedgerEntry(t) = EntryOf(txns[t])
<1>1. RefundedByChildren(t) = txns[t].refunded
  BY DEF CentsMatch
<1>2. ChildrenMatchState
  BY DEF Inv
<1>3. ChildrenOf(t, "void") # {} => txns[t].state = "voided"
  BY <1>2 DEF ChildrenMatchState, ChildrenOf
<1>4. ChildrenOf(t, "capture") # {} => txns[t].state = "captured"
  BY <1>2 DEF ChildrenMatchState, ChildrenOf
<1>5. Phase(t) = PhaseOf(txns[t].state)
  BY <1>3, <1>4 DEF Phase, PhaseOf
<1> QED
  BY <1>1, <1>5 DEF LedgerEntry, EntryOf, Exists

Mirrored == \A t \in Tx : LedgerEntry(t) = EntryOf(txns[t])

(* One row's entry changes: the ledger changes there only.                     *)
LEMMA LedgerUpdate ==
  ASSUME Mirrored, Mirrored', NEW t \in Tx,
         \A u \in Tx \ {t} : EntryOf(txns'[u]) = EntryOf(txns[u])
  PROVE  [u \in Tx |-> LedgerEntry(u)]' =
           [[u \in Tx |-> LedgerEntry(u)] EXCEPT ![t] = EntryOf(txns'[t])]
<1>1. \A u \in Tx : LedgerEntry(u) = EntryOf(txns[u])
  BY DEF Mirrored
<1>2. \A u \in Tx : LedgerEntry(u)' = EntryOf(txns'[u])
  BY DEF Mirrored, EntryOf, PhaseOf
<1> QED
  BY <1>1, <1>2

(* A step of the tables is a step of the ledger or leaves it as it is.         *)
LedgerStep == [Ledger!Next]_([t \in Tx |-> LedgerEntry(t)])

LEMMA LedgerStutters ==
  ASSUME Mirrored, Mirrored',
         \A u \in Tx : EntryOf(txns'[u]) = EntryOf(txns[u])
  PROVE  LedgerStep
<1>1. \A u \in Tx : LedgerEntry(u) = EntryOf(txns[u])
  BY DEF Mirrored
<1>2. \A u \in Tx : LedgerEntry(u)' = EntryOf(txns'[u])
  BY DEF Mirrored, EntryOf, PhaseOf
<1>3. [u \in Tx |-> LedgerEntry(u)]' = [u \in Tx |-> LedgerEntry(u)]
  BY <1>1, <1>2
<1> QED
  BY <1>3 DEF LedgerStep

LEMMA AcceptLedger ==
  ASSUME Inv, Mirrored, Mirrored', NEW t \in Tx, NEW op \in OperationTypes,
         NEW amount \in Nat \ {0}, NEW key \in Keys \cup {NoKey},
         Accept(t, op, amount, key)
  PROVE  LedgerStep
<1> DEFINE map == [u \in Tx |-> LedgerEntry(u)]
           entry == [phase |-> PhaseOf(txns[t].state), amount |-> txns[t].amount,
                     refunded |-> txns[t].refunded]
<1>1. PICK child \in Tx : ~Exists(child) /\ CreateChild(t, op, amount, key, child)
  BY DEF Accept
<1>2. /\ Exists(t) /\ Answer(t, op, amount, key) = "created"
      /\ TypeOK /\ RowsSane /\ StateTellsRefund
  BY DEF Accept, Inv
<1>3. /\ txns[t].state \in AcceptingStates(op) \ {"captured"}
      /\ op = "refund" => amount <= Remaining(t)
  BY <1>2, Accepted
<1>4. /\ \A v \in Tx \ {t, child} : txns'[v] = txns[v]
      /\ child # t /\ txns'[child].op = op
      /\ txns'[t].state = NewState(t, op, amount)
      /\ txns'[t].amount = txns[t].amount
      /\ txns'[t].refunded = IF op = "refund" THEN txns[t].refunded + amount
                                            ELSE txns[t].refunded
      /\ txns'[t].op = txns[t].op
  BY <1>1, <1>2, AcceptedRows
<1>5. EntryOf(txns'[child]) = EntryOf(txns[child])
  BY <1>1, <1>4 DEF EntryOf, Exists, OperationTypes
<1>6. \A u \in Tx \ {t} : EntryOf(txns'[u]) = EntryOf(txns[u])
  BY <1>4, <1>5
<1>7. txns[t] \in Rows
  BY <1>2 DEF TypeOK
<1>8. CASE txns[t].op # "none"
  <2>1. EntryOf(txns'[t]) = EntryOf(txns[t])
    BY <1>4, <1>8 DEF EntryOf
  <2> QED
    BY <1>6, <2>1, LedgerStutters
<1>9. CASE txns[t].op = "none"
  <2>1. map' = [map EXCEPT ![t] = EntryOf(txns'[t])]
    BY <1>6, LedgerUpdate
  <2>2. map[t] = entry
    BY <1>2, <1>9 DEF Mirrored, EntryOf, Exists
  <2>3. NewState(t, op, amount) # "none"
    BY DEF NewState, OperationTypes
  <2>4. EntryOf(txns'[t]) =
          [phase |-> PhaseOf(txns'[t].state), amount |-> txns[t].amount,
           refunded |-> txns'[t].refunded]
    BY <1>4, <1>9, <2>3 DEF EntryOf
  <2>5. CASE op = "capture"
    <3>1. PhaseOf(txns[t].state) = "authorized" /\ PhaseOf(txns'[t].state) = "captured"
      BY <1>3, <1>4, <2>5 DEF AcceptingStates, NewState, PhaseOf
    <3>2. map' = [map EXCEPT ![t].phase = "captured"]
      <4>1. EntryOf(txns'[t]) = [phase |-> "captured", amount |-> txns[t].amount,
                                 refunded |-> txns[t].refunded]
        BY <1>4, <2>4, <2>5, <3>1
      <4>2. [entry EXCEPT !.phase = "captured"] = EntryOf(txns'[t])
        BY <4>1
      <4> QED
        BY <2>1, <2>2, <4>2, Zenon
    <3>3. map[t].phase = "authorized"
      BY <2>2, <3>1
    <3>4. Ledger!Capture(t)
      BY <3>2, <3>3, Zenon DEF Ledger!Capture
    <3> QED
      BY <3>4 DEF LedgerStep, Ledger!Next
  <2>6. CASE op = "void"
    <3>1. /\ PhaseOf(txns[t].state) \in {"authorized", "paid"}
          /\ PhaseOf(txns'[t].state) = "voided"
          /\ txns[t].refunded = 0
      BY <1>2, <1>3, <1>4, <2>6 DEF AcceptingStates, NewState, PhaseOf, StateTellsRefund
    <3>2. map' = [map EXCEPT ![t].phase = "voided"]
      <4>1. EntryOf(txns'[t]) = [phase |-> "voided", amount |-> txns[t].amount,
                                 refunded |-> txns[t].refunded]
        BY <1>4, <2>4, <2>6, <3>1
      <4>2. [entry EXCEPT !.phase = "voided"] = EntryOf(txns'[t])
        BY <4>1
      <4> QED
        BY <2>1, <2>2, <4>2, Zenon
    <3>3. map[t].phase \in {"authorized", "paid"} /\ map[t].refunded = 0
      BY <2>2, <3>1
    <3>4. Ledger!Void(t)
      BY <3>2, <3>3, Zenon DEF Ledger!Void
    <3> QED
      BY <3>4 DEF LedgerStep, Ledger!Next
  <2>7. CASE op = "refund"
    <3>1. PhaseOf(txns[t].state) = "paid" /\ PhaseOf(txns'[t].state) = "paid"
      BY <1>3, <1>4, <2>7 DEF AcceptingStates, NewState, PhaseOf
    <3>2. amount \in 1 .. (txns[t].amount - txns[t].refunded)
      BY <1>3, <1>7, <2>7 DEF Remaining, Rows
    <3>3. map' = [map EXCEPT ![t].refunded = @ + amount]
      <4>1. EntryOf(txns'[t]) = [phase |-> PhaseOf(txns[t].state), amount |-> txns[t].amount,
                                 refunded |-> txns[t].refunded + amount]
        BY <1>4, <2>4, <2>7, <3>1
      <4>2. [entry EXCEPT !.refunded = txns[t].refunded + amount] = EntryOf(txns'[t])
        BY <4>1
      <4>3. map[t].refunded = txns[t].refunded
        BY <2>2
      <4> QED
        BY <2>1, <2>2, <4>2, <4>3, Zenon
    <3>4. /\ map[t].phase = "paid" /\ map[t].amount = txns[t].amount
          /\ map[t].refunded = txns[t].refunded
      BY <2>2, <3>1
    <3>5. Ledger!Refund(t)
      BY <3>2, <3>3, <3>4, Zenon DEF Ledger!Refund
    <3> QED
      BY <3>5 DEF LedgerStep, Ledger!Next
  <2> QED
    BY <2>5, <2>6, <2>7 DEF OperationTypes
<1> QED
  BY <1>8, <1>9

LEMMA CreateTransactionLedger ==
  ASSUME Inv, Mirrored, Mirrored', NEW t \in Tx, NEW amount \in Amounts,
         NEW url \in NotificationUrls, CreateTransaction(t, amount, url)
  PROVE  LedgerStep
<1> DEFINE map == [u \in Tx |-> LedgerEntry(u)]
<1>1. ~Exists(t) /\ txns \in [Tx -> Rows]
  BY DEF CreateTransaction, Inv, TypeOK
<1>2. /\ txns'[t].state = "processing" /\ txns'[t].amount = amount
      /\ txns'[t].refunded = 0 /\ txns'[t].op = "none"
      /\ \A u \in Tx \ {t} : txns'[u] = txns[u]
  BY <1>1 DEF CreateTransaction, Absent
<1>3. map' = [map EXCEPT ![t] = EntryOf(txns'[t])]
  BY <1>2, LedgerUpdate
<1>4. EntryOf(txns'[t]) = [phase |-> "open", amount |-> amount, refunded |-> 0]
  BY <1>2 DEF EntryOf, PhaseOf
<1>5. map[t] = Ledger!Unknown
  BY <1>1 DEF Mirrored, EntryOf, Exists, Ledger!Unknown
<1>6. Ledger!Open(t, amount)
  BY <1>3, <1>4, <1>5 DEF Ledger!Open
<1> QED
  BY <1>6 DEF LedgerStep, Ledger!Next

LEMMA SettleLedger ==
  ASSUME Inv, Mirrored, Mirrored', NEW t \in Tx, NEW to \in SettleStates, Settle(t, to)
  PROVE  LedgerStep
<1> DEFINE map == [u \in Tx |-> LedgerEntry(u)]
           entry == [phase |-> "open", amount |-> txns[t].amount,
                     refunded |-> txns[t].refunded]
<1>1. /\ Exists(t) /\ txns[t].op = "none" /\ IsLegalTransition(txns[t].state, to)
      /\ txns' = [txns EXCEPT ![t] = Transitioned(txns[t], to)]
      /\ txns \in [Tx -> Rows]
  BY DEF Settle, Inv, TypeOK
<1>2. txns[t].state \in {"processing", "pending"}
  BY <1>1, SettleEdges DEF Rows, Exists
<1>3. /\ txns'[t].state = to /\ txns'[t].amount = txns[t].amount
      /\ txns'[t].refunded = txns[t].refunded /\ txns'[t].op = "none"
      /\ \A u \in Tx \ {t} : txns'[u] = txns[u]
  BY <1>1 DEF Transitioned, Rows
<1>4. to \in {"pending", "authorized", "succeeded", "failed"}
  BY SettleAssumption
<1>5. map' = [map EXCEPT ![t] = EntryOf(txns'[t])]
  BY <1>3, LedgerUpdate
<1>6. map[t] = entry
  BY <1>1, <1>2 DEF Mirrored, EntryOf, PhaseOf, Exists
<1>7. EntryOf(txns'[t]) = [phase |-> PhaseOf(to), amount |-> txns[t].amount,
                           refunded |-> txns[t].refunded]
  BY <1>3, <1>4 DEF EntryOf
<1>8. CASE to = "pending"
  <2>1. EntryOf(txns'[t]) = EntryOf(txns[t])
    BY <1>1, <1>2, <1>7, <1>8 DEF EntryOf, PhaseOf, Exists
  <2> QED
    BY <1>3, <2>1, LedgerStutters
<1>9. CASE to # "pending"
  <2>1. PhaseOf(to) \in {"authorized", "paid", "failed"}
    BY <1>4, <1>9 DEF PhaseOf
  <2>2. map' = [map EXCEPT ![t].phase = PhaseOf(to)]
    <3>1. [entry EXCEPT !.phase = PhaseOf(to)] = EntryOf(txns'[t])
      BY <1>7
    <3> QED
      BY <1>5, <1>6, <3>1, Zenon
  <2>3. map[t].phase = "open"
    BY <1>6
  <2>4. Ledger!Decide(t, PhaseOf(to))
    BY <2>2, <2>3, Zenon DEF Ledger!Decide
  <2> QED
    BY <2>1, <2>4 DEF LedgerStep, Ledger!Next
<1> QED
  BY <1>8, <1>9

LEMMA NextLedger == Inv /\ Mirrored /\ Mirrored' /\ [Next]_vars => LedgerStep
<1> SUFFICES ASSUME Inv, Mirrored, Mirrored', [Next]_vars PROVE LedgerStep
  OBVIOUS
<1>0. TypeOK /\ RowsSane
  BY DEF Inv
<1>1. ASSUME NEW t \in Tx, NEW amount \in Amounts, NEW url \in NotificationUrls,
             CreateTransaction(t, amount, url)
      PROVE  LedgerStep
  BY <1>1, CreateTransactionLedger
<1>2. ASSUME NEW t \in Tx, NEW to \in SettleStates, Settle(t, to)
      PROVE  LedgerStep
  BY <1>2, SettleLedger
<1>3. ASSUME NEW t \in Tx, NEW amount \in RequestAmounts, NEW key \in Keys \cup {NoKey},
             Capture(t, amount, key) \/ Refund(t, amount, key)
      PROVE  LedgerStep
  <2>1. amount \in Nat \ {0}
    BY AmountsAssumption
  <2> QED
    BY <1>3, <2>1, AcceptLedger DEF Capture, Refund, OperationTypes
<1>4. ASSUME NEW t \in Tx, NEW key \in Keys \cup {NoKey}, Void(t, key)
      PROVE  LedgerStep
  <2>1. txns[t].amount \in Nat \ {0}
    BY <1>0, <1>4 DEF TypeOK, Rows, RowsSane, Void, Accept
  <2> QED
    BY <1>4, <2>1, AcceptLedger DEF Void, OperationTypes
<1>5. CASE UNCHANGED txns
  BY <1>5, LedgerStutters
<1> QED
  BY <1>1, <1>2, <1>3, <1>4, <1>5 DEF Next, vars, MaterializeChildCallback, Crash

(* The tables implement the abstract ledger: every behaviour of rows, children,*)
(* keys and crashes is one in which money moves in one direction.              *)
THEOREM LedgerRefinement == Spec => ImplementsLedger
<1>1. Init => Inv /\ CentsMatch
  BY InitInv, InitCents
<1>2. (Inv /\ CentsMatch) /\ [Next]_vars => (Inv /\ CentsMatch)'
  BY NextInv, NextCents
<1>3. Inv /\ CentsMatch => Mirrored
  BY EntryOfRow DEF Mirrored
<1>4. Init => Ledger!Init
  BY DEF Init, Ledger!Init, LedgerEntry, Absent, Exists, Ledger!Unknown
<1>5. Inv /\ Mirrored /\ Mirrored' /\ [Next]_vars
        => [Ledger!Next]_([t \in Tx |-> LedgerEntry(t)])
  BY NextLedger DEF LedgerStep
<1> QED
  BY <1>1, <1>2, <1>3, <1>4, <1>5, PTL DEF Spec, ImplementsLedger, Ledger!Spec

=============================================================================

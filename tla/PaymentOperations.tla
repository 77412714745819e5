-------------------------- MODULE PaymentOperations --------------------------
(* Capture, refund and void of stored transactions, with idempotency keys.     *)
(* core/payment-operations.ts, core/transaction-service.ts and                 *)
(* core/transaction-payload.ts of apps/server.                                 *)
(*                                                                             *)
(* One operation is: the route reads the row, the operation decides on it,     *)
(* and one SQLite transaction inserts the child row, updates the original's    *)
(* amounts, moves its state, stores the canonical snapshot and the idempotency *)
(* row.  Nothing yields in between.  The child's callback event is written by  *)
(* a later commit of the same event-loop segment: only a crash separates them. *)
EXTENDS PaymentStates, FiniteSets

CONSTANTS
  Tx,            \* identities of transaction rows
  NoTx,          \* "no parent", "no child waits for its callback"
  Keys,          \* idempotency keys a client may send
  NoKey,         \* a request without the header
  Amounts,       \* original amounts, in cents
  RequestAmounts,\* amounts a capture or refund may ask for (zod: int, positive)
  SettleStates   \* states a scenario timeline moves a payment to

ASSUME TxAssumption == NoTx \notin Tx
ASSUME KeyAssumption == NoKey \notin Keys
ASSUME AmountsAssumption ==
  /\ Amounts \subseteq Nat \ {0}
  /\ RequestAmounts \subseteq Nat \ {0}
ASSUME SettleAssumption ==
  SettleStates \subseteq {"pending", "authorized", "succeeded", "failed"}

VARIABLES
  txns,       \* table transactions: one row, or Absent, per identity
  snapshots,  \* newest canonical transaction_snapshots payload of each row
  operations, \* table payment_operations: one row per keyed operation
  callbacks,  \* child transactions whose callback_events row exists
  committed   \* child committed by the running request, callback not yet written

vars == <<txns, snapshots, operations, callbacks, committed>>

(* The scenario run's notification URL: snapshotted at submit, or absent.     *)
NotificationUrls == {"null", "url"}

OperationTypes == {"capture", "refund", "void"}

Absent ==
  [state |-> "none", amount |-> 0, refunded |-> 0, captured |-> 0,
   parent |-> NoTx, op |-> "none", notificationUrl |-> "null"]

Exists(t) == txns[t].state # "none"

(* buildTransactionObj: a child shows only its own operation's flag, whatever  *)
(* its state column says.                                                      *)
TransactionObj(row) ==
  IF row.op = "none"
  THEN ProjectPaymobFlags(row.state, row.amount, row.refunded)
  ELSE [ProjectPaymobFlags("succeeded", row.amount, 0) EXCEPT !.ofChild = row.op]

NoSnapshot == [state |-> "none", obj |-> TransactionObj(Absent)]

Init ==
  /\ txns = [t \in Tx |-> Absent]
  /\ snapshots = [t \in Tx |-> NoSnapshot]
  /\ operations = {}
  /\ callbacks = {}
  /\ committed = NoTx

-----------------------------------------------------------------------------
(* What an operation request is answered.  captureTransaction, ...Refund and   *)
(* ...Void test the state first, then the amount; only then does               *)
(* createChildAndDeliver look the idempotency key up.                          *)

AcceptingStates(op) ==
  CASE op = "capture" -> {"authorized"}
    [] op = "refund"  -> {"succeeded", "captured", "partially_refunded"}
    [] op = "void"    -> {"authorized", "succeeded"}

(* Mutant of Remaining: earlier refunds are forgotten. *)
RemainingForgetful(t) == txns[t].amount

Remaining(t) == txns[t].amount - txns[t].refunded

(* Mutant of NewState: a refund of everything left counts as partial. *)
NewStateOffByOne(t, op, amount) ==
  CASE op = "capture" -> "captured"
    [] op = "void"    -> "voided"
    [] op = "refund"  -> IF txns[t].refunded + amount > txns[t].amount
                         THEN "refunded" ELSE "partially_refunded"

NewState(t, op, amount) ==
  CASE op = "capture" -> "captured"
    [] op = "void"    -> "voided"
    [] op = "refund"  -> IF txns[t].refunded + amount >= txns[t].amount
                         THEN "refunded" ELSE "partially_refunded"

(* Mutant of Recorded: the lookup compares the child's identity. *)
RecordedOfChild(t, op, key) ==
  {o \in operations : o.child = t /\ o.op = op /\ o.key = key}

(* findExistingByIdempotencyKey *)
Recorded(t, op, key) ==
  {o \in operations : o.txn = t /\ o.op = op /\ o.key = key}

(* Mutant of Answer: the amount of a capture is not compared. *)
AnswerAnyCapture(t, op, amount, key) ==
  IF txns[t].state \notin AcceptingStates(op) THEN "invalid_state"
  ELSE IF op = "refund" /\ amount > Remaining(t) THEN "amount_exceeds_remaining"
  ELSE IF Recorded(t, op, key) # {} THEN "replay"
  ELSE "created"

Answer(t, op, amount, key) ==
  IF txns[t].state \notin AcceptingStates(op) THEN "invalid_state"
  ELSE IF op = "capture" /\ amount # txns[t].amount THEN "partial_capture_unsupported"
  ELSE IF op = "refund" /\ amount > Remaining(t) THEN "amount_exceeds_remaining"
  ELSE IF \E o \in Recorded(t, op, key) : o.amount # amount THEN "idempotency_conflict"
  ELSE IF Recorded(t, op, key) # {} THEN "replay"
  ELSE IF IsLegalTransition(txns[t].state, NewState(t, op, amount)) THEN "created"
  ELSE "throws"

-----------------------------------------------------------------------------
(* The writes.                                                                 *)

(* transitionTransaction on an already patched row: the new state and the      *)
(* canonical snapshot of the row as it then stands.                            *)
Transitioned(row, to) == [row EXCEPT !.state = to]
SnapshotOf(row) == [state |-> row.state, obj |-> TransactionObj(row)]

(* Mutant of PatchedAmounts: the column is counted down. *)
PatchedAmountsDown(row, op, amount) ==
  CASE op = "capture" -> [row EXCEPT !.captured = amount]
    [] op = "refund"  -> [row EXCEPT !.refunded = @ - amount]
    [] op = "void"    -> row

PatchedAmounts(row, op, amount) ==
  CASE op = "capture" -> [row EXCEPT !.captured = amount]
    [] op = "refund"  -> [row EXCEPT !.refunded = @ + amount]
    [] op = "void"    -> row

ChildRow(t, op, amount) ==
  [Absent EXCEPT
     !.state = IF op = "refund" THEN "succeeded" ELSE NewState(t, op, amount),
     !.amount = amount, !.parent = t, !.op = op]

OperationRows(t, op, amount, key, child) ==
  IF key = NoKey THEN {}
  ELSE {[txn |-> t, op |-> op, key |-> key, amount |-> amount, child |-> child]}

(* Mutant of CreateChild: the snapshot is taken of the row before its amounts *)
(* are patched. *)
CreateChildEarlySnapshot(t, op, amount, key, child) ==
  LET updated == Transitioned(PatchedAmounts(txns[t], op, amount),
                              NewState(t, op, amount))
  IN
  /\ txns' = [txns EXCEPT ![child] = ChildRow(t, op, amount), ![t] = updated]
  /\ snapshots' = [snapshots EXCEPT
       ![t] = SnapshotOf(Transitioned(txns[t], updated.state))]
  /\ operations' = operations \cup OperationRows(t, op, amount, key, child)
  /\ committed' = IF txns[t].notificationUrl # "null" THEN child ELSE NoTx
  /\ UNCHANGED callbacks

(* The db.transaction of createChildAndDeliver.                                *)
CreateChild(t, op, amount, key, child) ==
  LET updated == Transitioned(PatchedAmounts(txns[t], op, amount),
                              NewState(t, op, amount))
  IN
  /\ txns' = [txns EXCEPT ![child] = ChildRow(t, op, amount), ![t] = updated]
  /\ snapshots' = [snapshots EXCEPT ![t] = SnapshotOf(updated)]
  /\ operations' = operations \cup OperationRows(t, op, amount, key, child)
  /\ committed' = IF txns[t].notificationUrl # "null" THEN child ELSE NoTx
  /\ UNCHANGED callbacks

Idle == committed = NoTx

(* Handling of an operation request that is neither refused nor replayed.      *)
Accept(t, op, amount, key) ==
  /\ Idle
  /\ Exists(t)
  /\ Answer(t, op, amount, key) = "created"
  /\ \E child \in Tx : ~Exists(child) /\ CreateChild(t, op, amount, key, child)

Capture(t, amount, key) == Accept(t, "capture", amount, key)
Refund(t, amount, key) == Accept(t, "refund", amount, key)
Void(t, key) == Accept(t, "void", txns[t].amount, key)

(* materializeTransactionCallback for the child: same segment, later commit.   *)
MaterializeChildCallback ==
  /\ ~Idle
  /\ callbacks' = callbacks \cup {committed}
  /\ committed' = NoTx
  /\ UNCHANGED <<txns, snapshots, operations>>

(* The process dies between the two commits; the tables survive.               *)
Crash ==
  /\ ~Idle
  /\ committed' = NoTx
  /\ UNCHANGED <<txns, snapshots, operations, callbacks>>

-----------------------------------------------------------------------------
(* Where originals come from: createTransaction at checkout submit, then the   *)
(* transitions of the scenario timeline.                                       *)

CreateTransaction(t, amount, url) ==
  /\ Idle
  /\ ~Exists(t)
  /\ txns' = [txns EXCEPT ![t] = [Absent EXCEPT
       !.state = "processing", !.amount = amount, !.notificationUrl = url]]
  /\ UNCHANGED <<snapshots, operations, callbacks, committed>>

Settle(t, to) ==
  LET updated == Transitioned(txns[t], to) IN
  /\ Idle
  /\ Exists(t)
  /\ txns[t].op = "none"
  /\ IsLegalTransition(txns[t].state, to)
  /\ txns' = [txns EXCEPT ![t] = updated]
  /\ snapshots' = [snapshots EXCEPT ![t] = SnapshotOf(updated)]
  /\ UNCHANGED <<operations, callbacks, committed>>

Next ==
  \/ \E t \in Tx, amount \in Amounts, url \in NotificationUrls :
       CreateTransaction(t, amount, url)
  \/ \E t \in Tx, to \in SettleStates : Settle(t, to)
  \/ \E t \in Tx, amount \in RequestAmounts, key \in Keys \cup {NoKey} :
       Capture(t, amount, key) \/ Refund(t, amount, key)
  \/ \E t \in Tx, key \in Keys \cup {NoKey} : Void(t, key)
  \/ MaterializeChildCallback
  \/ Crash

Spec == Init /\ [][Next]_vars

-----------------------------------------------------------------------------
(* Properties.                                                                 *)

Rows ==
  [state : InternalStates \cup {"none"}, amount : Nat, refunded : Nat,
   captured : Nat, parent : Tx \cup {NoTx}, op : OperationTypes \cup {"none"},
   notificationUrl : NotificationUrls]

(* Every table holds well-formed rows; amounts are never negative.             *)
TypeOK ==
  /\ txns \in [Tx -> Rows]
  /\ DOMAIN snapshots = Tx
  /\ operations \subseteq [txn : Tx, op : OperationTypes, key : Keys,
                           amount : Nat, child : Tx]
  /\ callbacks \subseteq Tx
  /\ committed \in Tx \cup {NoTx}

ChildrenOf(t, op) == {c \in Tx : txns[c].parent = t /\ txns[c].op = op}

(* Every cent the refund children gave back, told apart by child: their sum is *)
(* a number of elements.                                                       *)
RefundedCents(t) ==
  UNION {{c} \X (1 .. txns[c].amount) : c \in ChildrenOf(t, "refund")}

RefundedByChildren(t) == Cardinality(RefundedCents(t))

(* The refunded total of a payment is the sum of its refund children, never    *)
(* more than its amount, whatever order partial refunds, retries and crashes   *)
(* come in.                                                                    *)
RefundsAddUp ==
  \A t \in Tx : /\ txns[t].refunded = RefundedByChildren(t)
                /\ txns[t].refunded <= txns[t].amount

(* The state column tells how much was refunded: none of it before             *)
(* partially_refunded, some but not all in it, everything in refunded.         *)
StateTellsRefund ==
  \A t \in Tx :
    /\ txns[t].state = "partially_refunded" =>
         0 < txns[t].refunded /\ txns[t].refunded < txns[t].amount
    /\ txns[t].state = "refunded" => txns[t].refunded = txns[t].amount
    /\ txns[t].state \notin {"partially_refunded", "refunded"} => txns[t].refunded = 0

(* A payment ends in one way: a voided one has one void child and nothing      *)
(* refunded or captured, a captured one has one capture child for the whole    *)
(* amount, a refunded one has only refund children.                            *)
ChildrenMatchState ==
  \A c \in Tx : txns[c].op # "none" =>
    LET p == txns[c].parent IN
    /\ p \in Tx /\ p # c
    /\ txns[c].op = "void" => txns[p].state = "voided"
    /\ txns[c].op = "capture" =>
         txns[p].state = "captured" /\ txns[c].amount = txns[p].amount
    /\ txns[c].op = "refund" => txns[p].state \in {"partially_refunded", "refunded"}

VoidOrCaptureOnce ==
  \A c, d \in Tx :
    /\ txns[c].op \in {"void", "capture"}
    /\ txns[d].op \in OperationTypes
    /\ txns[c].parent = txns[d].parent
    => c = d

(* An idempotency key buys at most one child per transaction and operation,    *)
(* and the row that remembers it names that child and its amount.              *)
KeyedOnce ==
  /\ \A o, q \in operations :
       o.txn = q.txn /\ o.op = q.op /\ o.key = q.key => o = q
  /\ \A o \in operations :
       /\ txns[o.child].parent = o.txn
       /\ txns[o.child].op = o.op
       /\ txns[o.child].amount = o.amount

(* The newest canonical snapshot shows the row as it is now: what a merchant   *)
(* is told of a payment is what the tables say of it, refunded total included. *)
SnapshotIsCurrent ==
  \A t \in Tx : snapshots[t] # NoSnapshot => snapshots[t] = SnapshotOf(txns[t])

(* No step takes money back: a refunded total never shrinks, an amount never   *)
(* changes, and a terminal state is never left.                                *)
Settled == {"failed", "captured", "refunded", "voided"}
OnlyForward ==
  [][\A t \in Tx : Exists(t) =>
       /\ txns'[t].amount = txns[t].amount
       /\ txns'[t].refunded >= txns[t].refunded
       /\ txns[t].state \in Settled => txns'[t].state = txns[t].state
       /\ txns'[t].state # txns[t].state =>
            IsLegalTransition(txns[t].state, txns'[t].state)]_vars

(* The tables implement the abstract ledger, its refunded totals and its ways  *)
(* to end read off the child rows alone: section 13.2, "totals are derived     *)
(* from those operations".                                                     *)
Phase(t) ==
  IF ChildrenOf(t, "void") # {} THEN "voided"
  ELSE IF ChildrenOf(t, "capture") # {} THEN "captured"
  ELSE CASE txns[t].state \in {"processing", "pending"} -> "open"
         [] txns[t].state \in {"succeeded", "partially_refunded", "refunded"} -> "paid"
         [] OTHER -> txns[t].state

LedgerEntry(t) ==
  IF Exists(t) /\ txns[t].op = "none"
  THEN [phase |-> Phase(t), amount |-> txns[t].amount,
        refunded |-> RefundedByChildren(t)]
  ELSE [phase |-> "unknown", amount |-> 0, refunded |-> 0]

Ledger == INSTANCE PaymentLedger WITH ledger <- [t \in Tx |-> LedgerEntry(t)]

ImplementsLedger == Ledger!Spec

-----------------------------------------------------------------------------
(* What the build specification says and the code does not do.                 *)

(* Section 9.3: "replaying the same key and byte-identical request returns the *)
(* original child with 200".                                                   *)
IdempotentReplay ==
  \A o \in operations : Answer(o.txn, o.op, o.amount, o.key) = "replay"
=============================================================================

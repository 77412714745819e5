---------------------------- MODULE DemoMerchant ----------------------------
(* The demo merchant and the parts of the simulator it talks to: signed        *)
(* callbacks, the browser's redirect, and the legacy inquiry with its tokens.  *)
(* demo-merchant/server.mjs and lib/, compatibility/legacy/.                   *)
(*                                                                             *)
(* One order and the transaction that pays it, the child of a later void, and  *)
(* a transaction of another order that the simulator knows as well.  A message *)
(* that was sent stays in the air: it is delivered any number of times, at any *)
(* time, or never.                                                             *)
EXTENDS PaymentStates, Redirects, FiniteSets

CONSTANTS
  TokenLife,    \* AUTH_TOKEN_TTL_MS on the simulator's clock
  CacheLife,    \* how long the merchant keeps a token on its own clock
  Snapshots,    \* states the payment's timeline takes snapshots of, to call back with
  SimHorizon, WallHorizon    \* bounds on the two clocks

(* A state without a projection makes the snapshot throw.                      *)
ASSUME SnapshotsAssumption == Snapshots \subseteq {s \in InternalStates : HasProjection(s)}

VARIABLES
  simNow,     \* the simulator's clock, which a test may advance at will
  wallNow,    \* the merchant's clock
  tokens,     \* table legacy_auth_tokens; a token is told by its expiry
  paid,       \* states the order's transaction has gone through; << >> before
  foreign,    \* state of the transaction of another order, or "none"
  air,        \* callbacks sent
  order,      \* the order in orders.json
  cache,      \* cachedAuthToken and cachedAuthTokenExpiresAt
  inquiry     \* the reconciliation in progress

merchantVars == <<simNow, wallNow, tokens, paid, foreign, air, order, cache, inquiry>>
simulatorVars == <<simNow, tokens, paid, foreign, air>>

NoOrder == [status |-> "none", transactionId |-> "none", redirect |-> "none"]
NoCache == [token |-> 0, until |-> 0]
Idle == [pc |-> "idle", token |-> 0, id |-> "none", obj |-> << >>]

MerchantInit ==
  /\ simNow = 0 /\ wallNow = 0 /\ tokens = {} /\ paid = << >> /\ foreign = "none" /\ air = {}
  /\ order = NoOrder /\ cache = NoCache /\ inquiry = Idle

-----------------------------------------------------------------------------
(* The simulator. *)

State == paid[Len(paid)]
Visited == {paid[i] : i \in DOMAIN paid}

(* The rows of the transactions table, told by their ids.                      *)
Known(id) ==
  \/ id = "payment" /\ paid # << >>
  \/ id = "child" /\ "voided" \in Visited
  \/ id = "other" /\ foreign # "none"
StateOf(id) == CASE id = "payment" -> State [] id = "child" -> "voided" [] OTHER -> foreign

(* The fields of a transaction the merchant reads, with what it signs.         *)
Flags(id, state) ==
  [id |-> id, pending |-> ProjectPaymobFlags(state, 1, 0).pending,
   success |-> ProjectPaymobFlags(state, 1, 0).success, valid |-> TRUE]

(* browser.redirect: the address leads to the merchant's result page, with     *)
(* the status the timeline authored; the browser may open it later, or again.  *)
MerchantQuery == [ref |-> "order"]
RedirectTo(base, mode, state, browserStatus) ==
  LET flags == Flags("payment", state)
  IN  BuildRedirectUrl(base, mode,
        [id |-> flags.id, order |-> "order", pending |-> NormalizeHmacValue(flags.pending),
         success |-> NormalizeHmacValue(flags.success)], browserStatus)

(* A checkout, and then its timeline.                                          *)
Pay(state) ==
  /\ order.status # "none"
  /\ IF paid = << >> THEN state \in {"pending", "succeeded", "failed"}
     ELSE State = "pending" /\ IsLegalTransition(State, state) /\ HasProjection(state)
  /\ paid' = Append(paid, state)
  /\ UNCHANGED <<simNow, tokens, foreign, air, wallNow, order, cache, inquiry>>

(* The same of another order, whose callbacks carry that order's reference.    *)
PayElsewhere(state) ==
  /\ IF foreign = "none" THEN state \in {"pending", "succeeded", "failed"}
     ELSE foreign = "pending" /\ state \in {"succeeded", "failed"}
  /\ foreign' = state
  /\ UNCHANGED <<simNow, tokens, paid, air, wallNow, order, cache, inquiry>>

(* webhook.transaction: of the current state, or of a state it had before.     *)
SendCallback(i) ==
  /\ air' = air \cup {Flags("payment", paid[i])}
  /\ UNCHANGED <<simNow, tokens, paid, foreign, wallNow, order, cache, inquiry>>

(* webhook.transaction of a snapshot: signed like any other, whatever state    *)
(* the timeline wrote into it.                                                 *)
SendSnapshot(state) ==
  /\ paid # << >>
  /\ air' = air \cup {Flags("payment", state)}
  /\ UNCHANGED <<simNow, tokens, paid, foreign, wallNow, order, cache, inquiry>>

(* The legacy operations: the secret key, then the body, then the transaction, *)
(* then what the operation itself says.  A child has a callback of its own,    *)
(* under the order of its parent.                                              *)
LegacyOperationStatus(authorized, wellFormed, known, result) ==
  IF ~authorized THEN 401 ELSE IF ~wellFormed THEN 422 ELSE IF ~known THEN 404 ELSE result
LegacyVoid(authorized, wellFormed) ==
  /\ LegacyOperationStatus(authorized, wellFormed, paid # << >>,
       IF paid # << >> /\ State = "succeeded" THEN 201 ELSE 409) = 201
  /\ paid' = Append(paid, "voided")
  /\ air' = air \cup {Flags("child", "voided")}
  /\ UNCHANGED <<simNow, tokens, foreign, wallNow, order, cache, inquiry>>

(* POST /api/auth/tokens and GET /api/acceptance/transactions/:id, which asks  *)
(* for a living token and a transaction, whosever it is.                       *)
NewToken == simNow + TokenLife
InquiryStatus(token, id) ==
  IF token \notin tokens \/ token <= simNow THEN 401
  ELSE IF ~Known(id) THEN 404 ELSE 200

SimTick ==
  /\ simNow < SimHorizon /\ simNow' = simNow + 1
  /\ UNCHANGED <<tokens, paid, foreign, air, wallNow, order, cache, inquiry>>
(* A restart of the simulator: a manual clock is at its initial time again.    *)
SimRestart ==
  /\ simNow' = 0
  /\ UNCHANGED <<tokens, paid, foreign, air, wallNow, order, cache, inquiry>>
WallTick ==
  /\ wallNow < WallHorizon /\ wallNow' = wallNow + 1
  /\ UNCHANGED <<simulatorVars, order, cache, inquiry>>

-----------------------------------------------------------------------------
(* The merchant's store.  Every call reads the file, and writes it by a rename *)
(* that a crash cannot cut in two.                                             *)

StatusOf(obj) ==
  IF obj.pending THEN "pending" ELSE IF obj.success THEN "succeeded" ELSE "failed"

(* Mutant of ApplyTransactionUpdate: a failed order is not final. *)
ApplyTransactionUpdateRetried(obj) ==
  IF order.status \in {"none", "succeeded"} THEN order
  ELSE [order EXCEPT !.status = StatusOf(obj), !.transactionId = obj.id]

ApplyTransactionUpdate(obj) ==
  IF order.status \in {"none", "succeeded", "failed"} THEN order
  ELSE [order EXCEPT !.status = StatusOf(obj), !.transactionId = obj.id]

(* The order is stored before the intention is asked for.                      *)
NewOrder ==
  /\ order = NoOrder
  /\ order' = [NoOrder EXCEPT !.status = "pending"]
  /\ UNCHANGED <<simulatorVars, wallNow, cache, inquiry>>

(* Mutant of Webhook: the signature is not looked at. *)
WebhookUnsigned(message) ==
  /\ order' = ApplyTransactionUpdate(message)
  /\ UNCHANGED <<simulatorVars, wallNow, cache, inquiry>>

(* A callback with a wrong signature is answered 200 and changes nothing.      *)
Webhook(message) ==
  /\ message.valid
  /\ order' = ApplyTransactionUpdate(message)
  /\ UNCHANGED <<simulatorVars, wallNow, cache, inquiry>>

(* The browser comes back.  The id of a redirect with a signature is kept,     *)
(* also when the signature is wrong, which the page only shows, and whosever   *)
(* transaction it names; the order's status stays.                             *)
PaymentResult(query) ==
  /\ order.status # "none" /\ "ref" \in DOMAIN query
  /\ order' = IF {"hmac", "id"} \subseteq DOMAIN query
              THEN [order EXCEPT !.redirect = query["id"]] ELSE order
  /\ UNCHANGED <<simulatorVars, wallNow, cache, inquiry>>

(* webhook.corrupt_hmac, or a body of somebody else: it may say anything.      *)
Ids == {"payment", "child", "other"}
Forged == {[Flags(id, "succeeded") EXCEPT !.valid = FALSE] : id \in Ids}

(* Addresses the browser may open: the simulator's, and those somebody made    *)
(* up, with the id of any transaction, which may not be there yet.             *)
MadeUp == {With(MerchantQuery, [hmac |-> << >>, id |-> id]) : id \in Ids}
Redirects ==
  MadeUp \cup {RedirectTo(MerchantQuery, mode, paid[i], browserStatus) :
      mode \in RedirectModes, i \in DOMAIN paid, browserStatus \in {"success", "failed"}}

-----------------------------------------------------------------------------
(* Reconciliation: two requests to the simulator, each awaited. *)

Reconcile ==
  /\ inquiry.pc = "idle" /\ order.redirect # "none"
  /\ LET cached == cache.token # 0 /\ wallNow < cache.until
     IN  inquiry' = [Idle EXCEPT !.id = order.redirect,
                                 !.token = IF cached THEN cache.token ELSE 0,
                                 !.pc = IF cached THEN "inquire" ELSE "token"]
  /\ UNCHANGED <<simulatorVars, wallNow, order, cache>>

FetchToken ==
  /\ inquiry.pc = "token"
  /\ tokens' = tokens \cup {NewToken}
  /\ cache' = [token |-> NewToken, until |-> wallNow + CacheLife]
  /\ inquiry' = [inquiry EXCEPT !.pc = "inquire", !.token = NewToken]
  /\ UNCHANGED <<simNow, paid, foreign, air, wallNow, order>>

(* An answer other than 200 leaves the order as it is; any other is applied,   *)
(* whichever order the transaction in it is of.                                *)
Inquire ==
  /\ inquiry.pc = "inquire"
  /\ inquiry' = IF InquiryStatus(inquiry.token, inquiry.id) = 200
                THEN [inquiry EXCEPT !.pc = "answered", !.obj = <<Flags(inquiry.id, StateOf(inquiry.id))>>]
                ELSE Idle
  /\ UNCHANGED <<simulatorVars, wallNow, order, cache>>

ApplyInquiry ==
  /\ inquiry.pc = "answered"
  /\ order' = ApplyTransactionUpdate(inquiry.obj[1])
  /\ inquiry' = [inquiry EXCEPT !.pc = "applied"]
  /\ UNCHANGED <<simulatorVars, wallNow, cache>>

ReconcileDone ==
  /\ inquiry.pc = "applied"
  /\ inquiry' = Idle
  /\ UNCHANGED <<simulatorVars, wallNow, order, cache>>

(* A restart: the orders are in their file, the token was not.                 *)
MerchantRestart ==
  /\ inquiry' = Idle /\ cache' = NoCache
  /\ UNCHANGED <<simulatorVars, wallNow, order>>

MerchantNext ==
  \/ \E state \in {"pending", "succeeded", "failed"} : Pay(state)
  \/ \E state \in {"pending", "succeeded", "failed"} : PayElsewhere(state)
  \/ \E i \in DOMAIN paid : SendCallback(i)
  \/ \E state \in Snapshots : SendSnapshot(state)
  \/ \E authorized, wellFormed \in BOOLEAN : LegacyVoid(authorized, wellFormed)
  \/ SimTick \/ SimRestart \/ WallTick
  \/ NewOrder
  \/ \E query \in Redirects : PaymentResult(query)
  \/ \E message \in air \cup Forged : Webhook(message)
  \/ Reconcile \/ FetchToken \/ Inquire \/ ApplyInquiry \/ ReconcileDone
  \/ MerchantRestart

MerchantSpec == MerchantInit /\ [][MerchantNext]_merchantVars

-----------------------------------------------------------------------------
(* Properties. *)

(* store.mjs: an order ends once.  Callbacks out of order or twice, those of   *)
(* later refunds, and an inquiry that was under way when the order ended, all  *)
(* leave it where it is.                                                       *)
OrderEndsOnce ==
  [][order.status \in {"succeeded", "failed"} => order'.status = order.status]_merchantVars

(* A transaction has been successful, or its timeline has said so of it.       *)
ShowsSuccess(id) ==
  CASE id = "payment" -> \/ "succeeded" \in Visited
                         \/ \E state \in Snapshots : StatusOf(Flags(id, state)) = "succeeded"
    [] id = "child" -> {"succeeded", "voided"} \subseteq Visited
    [] id = "other" -> foreign = "succeeded"
    [] OTHER -> FALSE

(* server.mjs: an order is fulfilled only on the success of the transaction it *)
(* names, which no unsigned body and no redirect can stand in for.  That it is *)
(* the order's own nobody checks when the answer to an inquiry is applied, and *)
(* a snapshot is believed like a state.                                        *)
FulfilledWhenPaid == order.status = "succeeded" => ShowsSuccess(order.transactionId)

(* server.mjs, missing-webhook recovery: a reconciliation that got an answer   *)
(* about a payment that is over leaves the order over, without any callback.   *)
ReconcileSettles ==
  inquiry.pc = "applied" /\ ~inquiry.obj[1].pending => order.status \in {"succeeded", "failed"}

(* hmac.mjs, an independent implementation: what the simulator signs verifies, *)
(* in either order key and whatever parameters the address had, and the        *)
(* merchant finds its own parameters again.                                    *)
RedirectsVerify ==
  paid # << >> =>
  \A mode \in RedirectModes, own \in {{}, {"order", "success"}, {"order_id", "hmac"}} :
    LET base == With(MerchantQuery, [key \in own |-> IF key = "hmac" THEN <<"mine">> ELSE "mine"])
        query == RedirectTo(base, mode, State, "failed")
    IN  /\ query["ref"] = "order"
        /\ VerifyRedirectHmac(query) <=> mode \in {"paymob_query_order", "paymob_query_order_id"}
        /\ "hmac" \in DOMAIN query => VerifyRedirectHmac(query)

(* The two ways an order learns of a payment, callbacks and reconciliation,    *)
(* never fulfil it without a success, and the second ends it without any help  *)
(* of the first.                                                               *)
OrderFollowsPayment == FulfilledWhenPaid /\ ReconcileSettles
=============================================================================

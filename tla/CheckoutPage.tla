---------------------------- MODULE CheckoutPage ----------------------------
(* The hosted checkout page: loading, opening a session, submitting, following *)
(* the event stream.  apps/web/src/checkout, with the simulator behind it as   *)
(* checkout/checkout-routes.ts, core/browser-status.ts and                     *)
(* core/browser-events.ts answer it.                                           *)
(*                                                                             *)
(* One intention and one tab, which may be reloaded.  A request and its answer *)
(* travel: they are delayed, overtaken, and the answer may be lost.  What the  *)
(* timeline's pages tell is the state of the payment (ScenarioRun!             *)
(* PagesTruthful).                                                             *)
EXTENDS Naturals, Sequences, FiniteSets

CONSTANTS
  MaxLoads,    \* bound on loads of the page
  MaxEvents,   \* bound on browser events
  MaxSubmits   \* bound on submissions

VARIABLES
  pageStatus,  \* CheckoutStatus, and "left" after a navigation
  load,        \* which load of the page this is; its idempotency key
  session,     \* sessionRef: a session, or 0
  opening,     \* the request for a session and its answer
  submits,     \* submissions under way: the load, and an answer once there is one
  sent,        \* how many submissions there were
  stream,      \* the EventSource: session and events received, or NoStream
  logs,        \* table browser_events: the events of each session
  payment,     \* the transaction's browser status; "none" before the submission
  paidBy       \* the idempotency key of the accepted submission, or 0

pageVars == <<pageStatus, load, session, opening, submits, sent, stream, logs, payment, paidBy>>

Final == {"success", "failed"}
NoStream == [session |-> 0, got |-> 0]
NotAsked == [pc |-> "none", session |-> 0, status |-> "form"]

PageInit ==
  /\ pageStatus = "loading" /\ load = 1 /\ session = 0
  /\ opening = NotAsked /\ submits = {} /\ sent = 0 /\ stream = NoStream
  /\ logs = << >> /\ payment = "none" /\ paidBy = 0

-----------------------------------------------------------------------------
(* The event source.  It is opened anew whenever the status changes to one the *)
(* page listens in, and then receives the whole log again.                     *)

(* Mutant of Listening: a page that shows its form does not listen. *)
ListeningAfterPay(status) == status \in {"processing", "pending"}

Listening(status) == status \in {"form", "processing", "pending"}

StreamFor(status, s) == IF Listening(status) /\ s # 0 THEN [session |-> s, got |-> 0] ELSE NoStream

(* A page whose element query has failed stays with its error.                 *)
SetStatus(status, s) ==
  IF pageStatus \in {status, "error", "left"} THEN UNCHANGED <<pageStatus, stream>>
  ELSE pageStatus' = status /\ stream' = StreamFor(status, s)

(* What the page draws. *)
Rendered(status) ==
  IF status \in {"error", "loading"} THEN {"message"}
  ELSE {"summary"}
    \cup (IF status \in {"form", "processing"} THEN {"form"} ELSE {})
    \cup (IF status \in {"pending", "success", "failed", "cancelled", "expired"} THEN {"result"} ELSE {})
    \cup (IF status # "processing" THEN {"catalogue"} ELSE {})
PayEnabled(status) == "form" \in Rendered(status) /\ status # "processing"

-----------------------------------------------------------------------------
(* Loading. *)

(* fetchElement has answered and the session is asked for; the simulator       *)
(* creates it and reports the outcome there is.                                *)
CurrentStatus == IF payment = "none" THEN "form" ELSE payment
OpenCheckoutSession ==
  /\ pageStatus = "loading" /\ opening = NotAsked
  /\ logs' = Append(logs, << >>)
  /\ opening' = [pc |-> "answered", session |-> Len(logs) + 1, status |-> CurrentStatus]
  /\ UNCHANGED <<pageStatus, load, session, submits, sent, stream, payment, paidBy>>

SessionOpened ==
  /\ opening.pc = "answered"
  /\ opening' = [opening EXCEPT !.pc = "done"]
  /\ session' = opening.session
  /\ SetStatus(opening.status, opening.session)
  /\ UNCHANGED <<load, submits, sent, logs, payment, paidBy>>

(* No rejection is handled: the page keeps loading.                            *)
SessionLost ==
  /\ opening.pc = "answered"
  /\ opening' = [opening EXCEPT !.pc = "lost"]
  /\ UNCHANGED <<pageStatus, load, session, submits, sent, stream, logs, payment, paidBy>>

(* The element is refused, as unknown or expired, when the page asks for it or *)
(* asks again because the browser was offline.                                 *)
ElementRefused ==
  /\ SetStatus("error", 0)
  /\ UNCHANGED <<load, session, opening, submits, sent, logs, payment, paidBy>>

(* A reload forgets everything the page holds, not what it has sent.           *)
Reload ==
  /\ load < MaxLoads
  /\ pageStatus' = "loading" /\ load' = load + 1 /\ session' = 0
  /\ opening' = NotAsked /\ stream' = NoStream
  /\ UNCHANGED <<submits, sent, logs, payment, paidBy>>

-----------------------------------------------------------------------------
(* Submitting. *)

HandleSubmit ==
  /\ PayEnabled(pageStatus) /\ sent < MaxSubmits
  /\ SetStatus("processing", session)
  /\ submits' = submits \cup {[n |-> sent + 1, load |-> load, answer |-> "none"]}
  /\ sent' = sent + 1
  /\ UNCHANGED <<load, session, opening, logs, payment, paidBy>>

(* submitCheckout: the first submission makes the payment, the same key is     *)
(* told of it again, another one is in conflict.  The payment's first actions  *)
(* run before the answer, and may settle it.                                   *)
AnswerTo(key) ==
  IF payment = "none" THEN "accepted" ELSE IF paidBy = key THEN "replayed" ELSE "conflict"
SubmitCheckout(s, outcome) ==
  /\ s.answer = "none"
  /\ submits' = (submits \ {s}) \cup {[s EXCEPT !.answer = AnswerTo(s.load)]}
  /\ IF payment = "none"
     THEN payment' = outcome /\ paidBy' = s.load
     ELSE UNCHANGED <<payment, paidBy>>
  /\ UNCHANGED <<pageStatus, load, session, opening, sent, stream, logs>>

Answered(s, status) ==
  /\ submits' = submits \ {s}
  /\ IF s.load = load THEN SetStatus(status, session) ELSE UNCHANGED <<pageStatus, stream>>
  /\ UNCHANGED <<load, session, opening, sent, logs, payment, paidBy>>

(* Mutant of SubmitAccepted: an accepted submission is shown as a success. *)
SubmitAcceptedPaid(s) ==
  /\ s.answer \in {"accepted", "replayed"}
  /\ Answered(s, "success")

(* An answer changes nothing the page shows. *)
SubmitAccepted(s) ==
  /\ s.answer \in {"accepted", "replayed"}
  /\ Answered(s, pageStatus)

(* An error in place of an answer - a refused card or intention, a conflict, a *)
(* failure on the way there or back - brings the form back, whatever the       *)
(* stream has told meanwhile.                                                  *)
SubmitFailed(s) == Answered(s, "form")

-----------------------------------------------------------------------------
(* The timeline, and its events. *)

Settle(outcome) ==
  /\ payment = "pending"
  /\ payment' = outcome
  /\ UNCHANGED <<pageStatus, load, session, opening, submits, sent, stream, logs, paidBy>>

(* createBrowserEvent: the event goes to the newest session.                   *)
Event(type) == [type |-> type, status |-> IF type = "three_ds.open" THEN "none" ELSE payment]
Publish(type) ==
  /\ payment # "none" /\ logs # << >>
  /\ Len(logs[Len(logs)]) < MaxEvents
  /\ logs' = [logs EXCEPT ![Len(logs)] = Append(@, Event(type))]
  /\ UNCHANGED <<pageStatus, load, session, opening, submits, sent, stream, payment, paidBy>>

(* A redirect without an address is shown as a result.                         *)
ReceiveEvent ==
  /\ stream.session # 0 /\ stream.got < Len(logs[stream.session])
  /\ LET event == logs[stream.session][stream.got + 1]
         further == [stream EXCEPT !.got = @ + 1]
     IN  IF event.type = "navigate" THEN pageStatus' = "left" /\ stream' = NoStream
         ELSE IF event.type = "three_ds.open" \/ event.status = pageStatus
         THEN stream' = further /\ UNCHANGED pageStatus
         ELSE SetStatus(event.status, session)
  /\ UNCHANGED <<load, session, opening, submits, sent, logs, payment, paidBy>>

PageNext ==
  \/ OpenCheckoutSession \/ SessionOpened \/ SessionLost \/ ElementRefused \/ Reload
  \/ HandleSubmit \/ ReceiveEvent
  \/ \E s \in submits :
       \/ \E outcome \in Final \cup {"pending"} : SubmitCheckout(s, outcome)
       \/ SubmitAccepted(s)
       \/ SubmitFailed(s)
  \/ \E outcome \in Final : Settle(outcome)
  \/ \E type \in {"show_result", "navigate", "three_ds.open"} : Publish(type)

(* The browser's event source reconnects until it has received what there is.  *)
PageFairness == WF_pageVars(ReceiveEvent)

PageSpec == PageInit /\ [][PageNext]_pageVars /\ PageFairness

-----------------------------------------------------------------------------
(* Properties. *)

(* CheckoutPage.tsx: an outcome the page shows is the payment's, through       *)
(* reloads, conflicts, replayed logs and late answers; one that is not final   *)
(* may be behind, but never precedes the payment.                              *)
PageShowsPayment ==
  pageStatus # "left" /\ "result" \in Rendered(pageStatus) =>
    payment # "none" /\ pageStatus \in {"pending", payment}

(* An error answer that brings the form back, whether of a conflict or of an   *)
(* answer that was lost on the way, hides the outcome only until the stream    *)
(* has replayed it: the page comes to show it, unless it was left or failed.   *)
ToldOutcome ==
  session # 0 /\ \E i \in DOMAIN logs[session] : logs[session][i].status \in Final
PageCatchesUp ==
  \A l \in 1 .. MaxLoads :
    (load = l /\ ToldOutcome) ~> (load # l \/ pageStatus \in Final \cup {"left", "error"})
=============================================================================

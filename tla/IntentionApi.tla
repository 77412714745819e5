---------------------------- MODULE IntentionApi ----------------------------
(* The modern intention API: POST and PUT /v1/intention with the API-fault     *)
(* expectations that may answer in its place.  compatibility/modern/           *)
(* intention-routes.ts, core/api-fault.ts, core/expectations-service.ts,       *)
(* core/intention-service.ts.                                                  *)
(*                                                                             *)
(* A handler runs to completion, except that a fault may make it sleep after   *)
(* the fault was consumed and before anything of the request was checked.      *)
EXTENDS IntentionValidation

CONSTANTS
  Calls,             \* requests to the API
  Requests,          \* kind, body and whether it is authorized
  References,        \* special references
  FaultResponses,    \* delay, and how the fault ends the request
  Mode,              \* defaults.validationMode
  DefaultUrl,        \* defaults.notificationUrl, a field
  DefaultRedirect,   \* defaults.redirectionUrl, a field
  FaultLife,         \* expiresIn of an expectation, in ticks
  TicksOf,           \* expiration of a request, in ticks
  MaxTimes,          \* bound on the uses of an expectation
  MaxFaults,         \* bound on expectations ever created
  ApiHorizon         \* bound on the clock

ASSUME RequestsAssumption ==
  \A request \in Requests :
    request.kind \in {"create", "update"} /\ request.authorized \in BOOLEAN
ASSUME FaultsAssumption ==
  \A response \in FaultResponses :
    /\ response.delayed \in BOOLEAN
    /\ response.ending \in {"timeout", "close", "status", "none"}
ASSUME ApiBounds == {MaxTimes, ApiHorizon, FaultLife} \subseteq Nat

VARIABLES
  apiNow,   \* the instance clock
  rows,     \* table intentions, in insertion order
  faults,   \* table scenario_expectations, kind api_fault; deleted rows are kept and marked
  calls     \* the requests

apiVars == <<apiNow, rows, faults, calls>>

NewCall == [pc |-> "idle", kind |-> "create", body |-> Absent, target |-> 0,
            seen |-> << >>, authorized |-> FALSE, fault |-> 0, answer |-> 0]

ApiInit ==
  /\ apiNow = 0
  /\ rows = << >>
  /\ faults = << >>
  /\ calls = [c \in Calls |-> NewCall]

-----------------------------------------------------------------------------
(* Expectations. *)

ActiveFault(f) == ~faults[f].deleted /\ ~faults[f].consumed /\ apiNow < faults[f].expires

(* Another active expectation for the reference, of either operation, is       *)
(* refused as ambiguous.                                                       *)
CreateFault(operation, reference, response, times) ==
  /\ Len(faults) < MaxFaults
  /\ \A f \in DOMAIN faults : ActiveFault(f) => faults[f].reference # reference
  /\ faults' = Append(faults,
       [operation |-> operation, reference |-> reference, response |-> response,
        total |-> times, remaining |-> times, consumed |-> FALSE,
        expires |-> apiNow + FaultLife, deleted |-> FALSE])
  /\ UNCHANGED <<apiNow, rows, calls>>

CancelFault(f) ==
  /\ ~faults[f].deleted
  /\ faults' = [faults EXCEPT ![f].deleted = TRUE]
  /\ UNCHANGED <<apiNow, rows, calls>>

MatchingFaults(operation, reference) ==
  {f \in DOMAIN faults :
     ActiveFault(f) /\ faults[f].operation = operation /\ faults[f].reference = reference}

(* findAndConsumeApiFaultExpectation takes the oldest; all live equally long.  *)
OldestFault(matches) ==
  Min({f \in matches : \A g \in matches : faults[f].expires <= faults[g].expires})

(* Mutant of Consumed: the use is counted, the row stays available. *)
ConsumedForever(f) ==
  [faults EXCEPT ![f].remaining = IF @ = 0 THEN 0 ELSE @ - 1]

UsedOnce(e) ==
  [e EXCEPT !.remaining = @ - 1, !.consumed = e.remaining - 1 <= 0]
Consumed(f) == [faults EXCEPT ![f] = UsedOnce(faults[f])]

-----------------------------------------------------------------------------
(* The requests proper. *)

RowOf(input, expires, by) ==
  [input |-> [input EXCEPT !.expiration = Absent], status |-> "intended",
   created |-> apiNow, expires |-> expires, by |-> by]

Ends(c, call, pc, answer) ==
  calls' = [calls EXCEPT ![c] = [call EXCEPT !.pc = pc, !.answer = answer]]
Refuses(c, call, answer) == Ends(c, call, "answered", answer) /\ UNCHANGED rows

OrDefault(f, default) == IF IsGiven(f) THEN f ELSE default

CreateIntention(c, call) ==
  LET input == [Normalized(call.body) EXCEPT !.notification_url = OrDefault(@, DefaultUrl),
                                             !.redirection_url = OrDefault(@, DefaultRedirect)]
  IN  IF ~Accepts(call.body, Mode) THEN Refuses(c, call, ValidationStatus(call.body, Mode))
      ELSE /\ rows' = Append(rows, RowOf(input, apiNow + TicksOf[input.expiration.value], c))
           /\ Ends(c, call, "answered", 201)

(* The stored request with the fields of the patch in place of its own.        *)
Merged(row, patch) ==
  [f \in Fields |-> IF patch[f] = Absent THEN row.input[f] ELSE patch[f]]

(* Mutant of UpdateIntention: the row is the one read when the request came,   *)
(* before a fault made it sleep. *)
UpdateIntentionSeen(c, call) ==
  LET row == IF call.seen = << >> THEN [status |-> "none"] ELSE call.seen[1] IN
  IF \A f \in Fields : call.body[f] = Absent THEN Refuses(c, call, 422)
  ELSE IF call.target \notin DOMAIN rows THEN Refuses(c, call, 404)
  ELSE IF row.status # "intended" THEN Refuses(c, call, 409)
  ELSE IF ~Accepts(Merged(row, call.body), Mode)
       THEN Refuses(c, call, ValidationStatus(Merged(row, call.body), Mode))
  ELSE /\ rows' = [rows EXCEPT ![call.target] =
                     [row EXCEPT !.input = [Normalized(Merged(row, call.body))
                                              EXCEPT !.expiration = Absent], !.by = c]]
       /\ Ends(c, call, "answered", 200)

UpdateIntention(c, call) ==
  LET row == rows[call.target]
      merged == Merged(row, call.body)
  IN  IF \A f \in Fields : call.body[f] = Absent THEN Refuses(c, call, 422)
      ELSE IF call.target \notin DOMAIN rows THEN Refuses(c, call, 404)
      ELSE IF row.status # "intended" THEN Refuses(c, call, 409)
      ELSE IF row.expires <= apiNow THEN Refuses(c, call, 410)
      ELSE IF ~Accepts(merged, Mode) THEN Refuses(c, call, ValidationStatus(merged, Mode))
      ELSE /\ rows' = [rows EXCEPT ![call.target] =
                [row EXCEPT !.input = [Normalized(merged) EXCEPT !.expiration = Absent],
                            !.expires = IF IsGiven(call.body.expiration)
                                        THEN row.created + TicksOf[merged.expiration.value]
                                        ELSE @,
                            !.by = c]]
           /\ Ends(c, call, "answered", 200)

Process(c, call) ==
  IF ~call.authorized THEN Refuses(c, call, 401)
  ELSE IF call.kind = "create" THEN CreateIntention(c, call) ELSE UpdateIntention(c, call)

(* applyApiFault after its delay: a timeout leaves the request unanswered, a   *)
(* close ends the connection, a status answers, and a fault with none of them  *)
(* was only a delay.                                                           *)
Conclude(c, call) ==
  LET ending == IF call.fault = 0 THEN "none" ELSE faults[call.fault].response.ending
  IN  CASE ending = "timeout" -> Ends(c, call, "hung", 0) /\ UNCHANGED rows
        [] ending = "close"   -> Ends(c, call, "closed", 0) /\ UNCHANGED rows
        [] ending = "status"  -> Ends(c, call, "answered", 500) /\ UNCHANGED rows
        [] ending = "none"    -> Process(c, call)

(* The reference a fault is matched by: the body's, else the stored one.       *)
ReferenceOf(kind, body, target) ==
  IF body.special_reference.is = "given" THEN body.special_reference
  ELSE IF kind = "update" /\ target \in DOMAIN rows THEN rows[target].input.special_reference
  ELSE Absent

Receive(c, request, target) ==
  /\ calls[c].pc = "idle"
  /\ LET kind == request.kind
         reference == ReferenceOf(kind, request.body, target)
         matches == IF IsGiven(reference) THEN MatchingFaults(kind, reference.value) ELSE {}
         fault == IF matches = {} THEN 0 ELSE OldestFault(matches)
         call == [pc |-> "running", kind |-> kind, body |-> request.body, target |-> target,
                  seen |-> IF target \in DOMAIN rows THEN <<rows[target]>> ELSE << >>,
                  authorized |-> request.authorized, fault |-> fault, answer |-> 0]
     IN  /\ faults' = IF fault = 0 THEN faults ELSE Consumed(fault)
         /\ IF fault # 0 /\ faults[fault].response.delayed
            THEN Ends(c, call, "sleeping", 0) /\ UNCHANGED rows
            ELSE Conclude(c, call)
  /\ UNCHANGED apiNow

Wake(c) ==
  /\ calls[c].pc = "sleeping"
  /\ Conclude(c, calls[c])
  /\ UNCHANGED <<apiNow, faults>>

-----------------------------------------------------------------------------
(* Around the API: checkout submits an intention, time passes, the process     *)
(* dies and the requests it was holding with it.                               *)

SubmitIntention(i) ==
  /\ rows[i].status = "intended" /\ ~(rows[i].expires <= apiNow)
  /\ rows' = [rows EXCEPT ![i].status = "processing"]
  /\ UNCHANGED <<apiNow, faults, calls>>

ApiTick ==
  /\ apiNow < ApiHorizon
  /\ apiNow' = apiNow + 1
  /\ UNCHANGED <<rows, faults, calls>>

(* The process dies, asleep in a call or at rest, and is started again: a real *)
(* clock goes on, a manual one begins at its initial time.                     *)
ApiCrash ==
  /\ apiNow' \in {apiNow, 0}
  /\ calls' = [c \in Calls |-> IF calls[c].pc = "sleeping" THEN [calls[c] EXCEPT !.pc = "lost"]
                               ELSE calls[c]]
  /\ UNCHANGED <<rows, faults>>

ReceiveAny(c) ==
  \E request \in Requests :
    IF request.kind = "create" THEN Receive(c, request, 0)
    ELSE \E target \in 0 .. Len(rows) : Receive(c, request, target)

ApiNext ==
  \/ \E c \in Calls : ReceiveAny(c) \/ Wake(c)
  \/ \E operation \in {"create", "update"}, reference \in References,
        response \in FaultResponses, times \in 1 .. MaxTimes :
       CreateFault(operation, reference, response, times)
  \/ \E f \in DOMAIN faults : CancelFault(f)
  \/ \E i \in DOMAIN rows : SubmitIntention(i)
  \/ ApiTick
  \/ ApiCrash

ApiSpec == ApiInit /\ [][ApiNext]_apiVars

-----------------------------------------------------------------------------
(* Properties. *)

ApiTypeOK ==
  /\ apiNow \in 0 .. ApiHorizon
  /\ \A c \in Calls :
       /\ calls[c].pc \in {"idle", "sleeping", "hung", "closed", "answered", "lost"}
       /\ calls[c].fault \in 0 .. Len(faults)
       /\ calls[c].answer \in {0, 200, 201, 401, 404, 406, 409, 410, 422, 500}
  /\ \A f \in DOMAIN faults : faults[f].remaining \in 0 .. faults[f].total

(* intention-service.ts: partial updates re-validate the whole merged request, *)
(* so whatever sequence of patches made it, a stored intention is one the      *)
(* validator accepts: its items add up to its amount, its integrations exist   *)
(* and its URLs are allowed.                                                   *)
NoPatch == [f \in Fields |-> Absent]
StoredAccepted == \A i \in DOMAIN rows : Accepts(Merged(rows[i], NoPatch), Mode)

(* An intention that was submitted or has expired keeps its terms, even        *)
(* against an update that was received before and slept in between.            *)
Closed(i) == rows[i].status # "intended" \/ rows[i].expires <= apiNow
ClosedKeepTerms ==
  [][\A i \in DOMAIN rows : Closed(i) => rows'[i].input = rows[i].input
                                         /\ rows'[i].expires = rows[i].expires]_apiVars

(* A fault answers at most `times` requests, and each use is accounted for,    *)
(* also when the expectation is cancelled or expires under the request, or the *)
(* process dies while it sleeps.                                               *)
FaultAccounting ==
  \A f \in DOMAIN faults :
    /\ faults[f].remaining >= 0
    /\ Cardinality({c \in Calls : calls[c].fault = f}) = faults[f].total - faults[f].remaining

(* Only an authorized request that was answered with success leaves a trace:   *)
(* not one that a fault refused, cut off or left hanging.                      *)
OnlySuccessStores ==
  \A i \in DOMAIN rows :
    calls[rows[i].by].answer \in {200, 201} /\ calls[rows[i].by].authorized

(* The tables behind the API: each row is what an authorized, successful       *)
(* request left, and would be accepted again; each use of a fault is one       *)
(* request's.                                                                  *)
ApiTablesSound == ApiTypeOK /\ StoredAccepted /\ OnlySuccessStores /\ FaultAccounting
=============================================================================

------------------------- MODULE IntentionApi_proofs -------------------------
(* Proofs about IntentionApi, for every set of requests, faults, integrations, *)
(* allowlist entries, every validation mode and any number of calls.           *)
(*                                                                             *)
(* ApiInv is the inductive invariant.  Besides the properties it needs:        *)
(* FaultsSane (an expectation that can still match has a use left),            *)
(* IdleUnused (a request not yet received has used no fault), RowsAnswered     *)
(* (the request that wrote a row has ended, so nothing changes its answer) and *)
(* RowsAccepted (what the validator accepted once, normalized and with the     *)
(* defaults filled in, it accepts again).                                      *)
EXTENDS IntentionApi, RequestRules_proofs

(* The defaults of the configuration are ones the validator lets through:      *)
(* config/schema.ts does not check it, so it is no assumption of the model.    *)
DefaultsAllowed ==
  /\ ~NotificationRefused([NoPatch EXCEPT !.notification_url = DefaultUrl])
  /\ ~RedirectRefused([NoPatch EXCEPT !.redirection_url = DefaultRedirect])

-----------------------------------------------------------------------------
(* What the handlers store is accepted again.                                   *)

(* What UpdateIntention stores: the merged request, normalized.                *)
LEMMA UpdateStores ==
  ASSUME NEW raw
  PROVE  Stores(raw, [Normalized(raw) EXCEPT !.expiration = Absent])
<1> DEFINE stored == [Normalized(raw) EXCEPT !.expiration = Absent]
<1>1. /\ stored["expiration"] = Absent
      /\ \A f \in Fields \ {"expiration"} : stored[f] = Normalized(raw)[f]
  BY DEF Normalized, Fields
<1>2. /\ stored.notification_url = Kept(raw.notification_url)
      /\ stored.redirection_url = Kept(raw.redirection_url)
  BY <1>1 DEF Normalized, Fields
<1>3. ~NotificationRefused(raw) => ~NotificationRefused(stored)
  BY <1>2 DEF NotificationRefused, UrlRefused, Kept, IsGiven, Absent, Malformed
<1>4. ~RedirectRefused(raw) => ~RedirectRefused(stored)
  BY <1>2 DEF RedirectRefused, UrlRefused, Kept, IsGiven, Absent, Malformed
<1> QED
  BY <1>1, <1>3, <1>4 DEF Stores, Absent, Malformed, Null

(* What CreateIntention stores: the request, normalized, with the defaults.    *)
LEMMA CreateStores ==
  ASSUME DefaultsAllowed, NEW raw
  PROVE  Stores(raw, [[Normalized(raw) EXCEPT
                         !.notification_url = OrDefault(@, DefaultUrl),
                         !.redirection_url = OrDefault(@, DefaultRedirect)]
                        EXCEPT !.expiration = Absent])
<1> DEFINE stored == [[Normalized(raw) EXCEPT
                         !.notification_url = OrDefault(@, DefaultUrl),
                         !.redirection_url = OrDefault(@, DefaultRedirect)]
                        EXCEPT !.expiration = Absent]
<1>1. /\ stored["expiration"] = Absent /\ Absent \notin {Malformed, Null}
      /\ \A f \in Fields \ {"expiration", "notification_url", "redirection_url"} :
           stored[f] = Normalized(raw)[f]
  BY DEF Normalized, Fields, Absent, Malformed, Null
<1>2. /\ stored.notification_url = OrDefault(Kept(raw.notification_url), DefaultUrl)
      /\ stored.redirection_url = OrDefault(Kept(raw.redirection_url), DefaultRedirect)
  BY DEF Normalized, Fields
<1>3. /\ [NoPatch EXCEPT !.notification_url = DefaultUrl].notification_url = DefaultUrl
      /\ [NoPatch EXCEPT !.redirection_url = DefaultRedirect].redirection_url = DefaultRedirect
  BY DEF NoPatch, Fields
<1>4. ~NotificationRefused(raw) => ~NotificationRefused(stored)
  <2>1. CASE IsGiven(raw.notification_url)
    <3>1. stored.notification_url = raw.notification_url
      BY <1>2, <2>1 DEF OrDefault, Kept
    <3> QED
      BY <3>1 DEF NotificationRefused, UrlRefused
  <2>2. CASE ~IsGiven(raw.notification_url)
    <3>1. stored.notification_url = DefaultUrl
      BY <1>2, <2>2 DEF OrDefault, Kept, IsGiven, Absent
    <3> QED
      BY <1>3, <3>1 DEF DefaultsAllowed, NotificationRefused, UrlRefused
  <2> QED
    BY <2>1, <2>2
<1>5. ~RedirectRefused(raw) => ~RedirectRefused(stored)
  <2>1. CASE IsGiven(raw.redirection_url)
    <3>1. stored.redirection_url = raw.redirection_url
      BY <1>2, <2>1 DEF OrDefault, Kept
    <3> QED
      BY <3>1 DEF RedirectRefused, UrlRefused
  <2>2. CASE ~IsGiven(raw.redirection_url)
    <3>1. stored.redirection_url = DefaultRedirect
      BY <1>2, <2>2 DEF OrDefault, Kept, IsGiven, Absent
    <3> QED
      BY <1>3, <3>1 DEF DefaultsAllowed, RedirectRefused, UrlRefused
  <2> QED
    BY <2>1, <2>2
<1> QED
  BY <1>1, <1>4, <1>5 DEF Stores

(* A row holds what StoredAccepted asks the validator about.                   *)
LEMMA InputIsMerged ==
  ASSUME NEW row, NEW raw, Stores(raw, row.input)
  PROVE  Stores(raw, Merged(row, NoPatch))
<1>1. \A f \in Fields : Merged(row, NoPatch)[f] = row.input[f]
  BY DEF Merged, NoPatch
<1>2. /\ Merged(row, NoPatch).notification_url = row.input.notification_url
      /\ Merged(row, NoPatch).redirection_url = row.input.redirection_url
  BY <1>1 DEF Fields
<1>3. /\ ~NotificationRefused(row.input) => ~NotificationRefused(Merged(row, NoPatch))
      /\ ~RedirectRefused(row.input) => ~RedirectRefused(Merged(row, NoPatch))
  BY <1>2 DEF NotificationRefused, RedirectRefused, UrlRefused
<1> QED
  BY <1>1, <1>3 DEF Stores, Fields

(* A response that is not "accepted" is one of the validator's refusals.       *)
LEMMA Refusals ==
  ASSUME NEW raw, NEW mode, ~Accepts(raw, mode)
  PROVE  ValidationStatus(raw, mode) \in {404, 406, 422}
<1>1. \/ FieldIssues(raw, mode) # {}
      \/ FieldIssues(raw, mode) = {} /\ UnknownIntegration(raw, mode)
      \/ FieldIssues(raw, mode) = {} /\ ~UnknownIntegration(raw, mode)
  OBVIOUS
<1> QED
  BY <1>1 DEF Accepts, ValidationStatus

-----------------------------------------------------------------------------
(* Sequences whose elements have no common set.                                *)
ASequence(s) == s \in Seq({s[i] : i \in DOMAIN s})

LEMMA SequenceOfOwn ==
  ASSUME NEW S, NEW s \in Seq(S)
  PROVE  ASequence(s)
<1> DEFINE own == {s[i] : i \in DOMAIN s}
<1>1. Len(s) \in Nat /\ s \in [1 .. Len(s) -> S]
  OBVIOUS
<1>2. \A i \in 1 .. Len(s) : s[i] \in own
  BY <1>1
<1>3. s \in [1 .. Len(s) -> own]
  BY <1>1, <1>2
<1> HIDE DEF own
<1>4. s \in Seq(own)
  BY <1>1, <1>3
<1> QED
  BY <1>4 DEF ASequence, own

LEMMA SequenceLength ==
  ASSUME NEW s, ASequence(s)
  PROVE  Len(s) \in Nat /\ DOMAIN s = 1 .. Len(s)
  BY DEF ASequence

LEMMA Appended ==
  ASSUME NEW s, ASequence(s), NEW x
  PROVE  /\ ASequence(Append(s, x))
         /\ Len(s) \in Nat /\ Len(Append(s, x)) = Len(s) + 1
         /\ DOMAIN s = 1 .. Len(s)
         /\ DOMAIN Append(s, x) = 1 .. Len(s) + 1
         /\ Append(s, x)[Len(s) + 1] = x
         /\ \A i \in DOMAIN s : Append(s, x)[i] = s[i]
<1> DEFINE S == {s[i] : i \in DOMAIN s} \cup {x}
           more == Append(s, x)
<1>1. s \in Seq(S) /\ x \in S
  BY DEF ASequence
<1>2. /\ Len(s) \in Nat /\ Len(more) = Len(s) + 1 /\ more \in Seq(S)
      /\ DOMAIN s = 1 .. Len(s) /\ DOMAIN more = 1 .. Len(s) + 1
      /\ more[Len(s) + 1] = x /\ \A i \in DOMAIN s : more[i] = s[i]
  BY <1>1
<1>3. ASequence(more)
  BY <1>2, SequenceOfOwn
<1> QED
  BY <1>2, <1>3

LEMMA Replaced ==
  ASSUME NEW s, ASequence(s), NEW n \in DOMAIN s, NEW x, NEW new, new = [s EXCEPT ![n] = x]
  PROVE  /\ ASequence(new) /\ DOMAIN new = DOMAIN s /\ Len(new) = Len(s)
         /\ DOMAIN s = 1 .. Len(s) /\ Len(s) \in Nat
         /\ new[n] = x
         /\ \A i \in DOMAIN s \ {n} : new[i] = s[i]
<1> DEFINE S == {s[i] : i \in DOMAIN s} \cup {x}
<1>1. s \in Seq(S) /\ x \in S
  BY DEF ASequence
<1>2. /\ Len(s) \in Nat /\ DOMAIN s = 1 .. Len(s)
      /\ new \in Seq(S) /\ Len(new) = Len(s) /\ DOMAIN new = DOMAIN s
      /\ new[n] = x /\ \A i \in DOMAIN s \ {n} : new[i] = s[i]
  BY <1>1
<1>3. ASequence(new)
  BY <1>2, SequenceOfOwn
<1> QED
  BY <1>2, <1>3

-----------------------------------------------------------------------------
(* The inductive invariant.                                                    *)

CallShape(k) ==
  /\ k = [pc |-> k.pc, kind |-> k.kind, body |-> k.body, target |-> k.target,
          seen |-> k.seen, authorized |-> k.authorized, fault |-> k.fault,
          answer |-> k.answer]
  /\ k.authorized \in BOOLEAN
RowShape(r) ==
  r = [input |-> r.input, status |-> r.status, created |-> r.created,
       expires |-> r.expires, by |-> r.by]
FaultShape(e) ==
  /\ e.expires \in Nat
  /\ e = [operation |-> e.operation, reference |-> e.reference, response |-> e.response,
          total |-> e.total, remaining |-> e.remaining, consumed |-> e.consumed,
          expires |-> e.expires, deleted |-> e.deleted]

ApiShapes ==
  /\ DOMAIN calls = Calls /\ ASequence(rows) /\ ASequence(faults)
  /\ \A c \in Calls : CallShape(calls[c])
  /\ \A i \in DOMAIN rows : RowShape(rows[i])
  /\ \A f \in DOMAIN faults : FaultShape(faults[f])

FaultsSane ==
  \A f \in DOMAIN faults :
    /\ faults[f].response \in FaultResponses
    /\ faults[f].total \in Nat /\ faults[f].remaining \in 0 .. faults[f].total
    /\ faults[f].remaining = 0 => faults[f].consumed

IdleUnused == \A c \in Calls : calls[c].pc = "idle" => calls[c].fault = 0

Used(f) == {c \in Calls : calls[c].fault = f}
UsesCounted ==
  \A f \in DOMAIN faults :
    /\ IsFiniteSet(Used(f))
    /\ Cardinality(Used(f)) = faults[f].total - faults[f].remaining

RowsAnswered ==
  \A i \in DOMAIN rows :
    /\ rows[i].by \in Calls
    /\ calls[rows[i].by].pc = "answered"
    /\ calls[rows[i].by].answer \in {200, 201}
    /\ calls[rows[i].by].authorized

RowAccepted(row) == DefaultsAllowed => Accepts(Merged(row, NoPatch), Mode)
RowsAccepted == \A i \in DOMAIN rows : RowAccepted(rows[i])

ApiInv ==
  /\ ApiShapes
  /\ ApiTypeOK
  /\ FaultsSane
  /\ IdleUnused
  /\ UsesCounted
  /\ RowsAnswered
  /\ RowsAccepted

-----------------------------------------------------------------------------
(* One request: what receiving it or waking it may do to calls and rows.       *)

Answers == {0, 200, 201, 401, 404, 406, 409, 410, 422, 500}

(* A row a successful, authorized request of c leaves.                         *)
Left(c, row) == RowShape(row) /\ row.by = c /\ RowAccepted(row)

(* The rows are as they were, or the request was answered with success and     *)
(* left one: a new one, or one in the place of an intention that is open.      *)
RowsChange(c, call, pc, answer) ==
  \/ rows' = rows
  \/ /\ pc = "answered" /\ answer \in {200, 201} /\ call.authorized
     /\ \E row : /\ Left(c, row)
                 /\ \/ rows' = Append(rows, row)
                    \/ \E i \in DOMAIN rows : /\ rows[i].status = "intended"
                                              /\ ~(rows[i].expires <= apiNow)
                                              /\ rows' = [rows EXCEPT ![i] = row]

(* A request ends, or sleeps, as CallStep says. *)
CallStep(c, call) ==
  \E pc \in {"sleeping", "hung", "closed", "answered"}, answer \in Answers :
    Ends(c, call, pc, answer) /\ RowsChange(c, call, pc, answer)

LEMMA RefusesStep ==
  ASSUME NEW c, NEW call, NEW answer \in Answers, Refuses(c, call, answer)
  PROVE  CallStep(c, call)
  BY DEF Refuses, CallStep, RowsChange

LEMMA CreateStep ==
  ASSUME NEW c \in Calls, NEW call, call.authorized, CreateIntention(c, call)
  PROVE  CallStep(c, call)
<1> DEFINE input == [Normalized(call.body) EXCEPT
                       !.notification_url = OrDefault(@, DefaultUrl),
                       !.redirection_url = OrDefault(@, DefaultRedirect)]
           row == RowOf(input, apiNow + TicksOf[input.expiration.value], c)
<1>1. CASE ~Accepts(call.body, Mode)
  <2>1. Refuses(c, call, ValidationStatus(call.body, Mode))
    BY <1>1 DEF CreateIntention
  <2>2. ValidationStatus(call.body, Mode) \in Answers
    BY <1>1, Refusals DEF Answers
  <2> QED
    BY <2>1, <2>2, RefusesStep
<1>2. CASE Accepts(call.body, Mode)
  <2>1. rows' = Append(rows, row) /\ Ends(c, call, "answered", 201)
    BY <1>2 DEF CreateIntention
  <2>2. RowShape(row) /\ row.by = c /\ row.input = [input EXCEPT !.expiration = Absent]
    BY DEF RowOf, RowShape
  <2>3. RowAccepted(row)
    <3> SUFFICES ASSUME DefaultsAllowed PROVE Accepts(Merged(row, NoPatch), Mode)
      BY DEF RowAccepted
    <3>1. Stores(call.body, row.input)
      BY <2>2, CreateStores
    <3> HIDE DEF row
    <3>2. Stores(call.body, Merged(row, NoPatch))
      BY <3>1, InputIsMerged
    <3> QED
      BY <1>2, <3>2, StoredAcceptedAgain
  <2> HIDE DEF row
  <2>4. Left(c, row)
    BY <2>2, <2>3 DEF Left
  <2>5. RowsChange(c, call, "answered", 201)
    BY <2>1, <2>4 DEF RowsChange
  <2> QED
    BY <2>1, <2>5 DEF CallStep, Answers
<1> QED
  BY <1>1, <1>2

LEMMA UpdateStep ==
  ASSUME ApiShapes, NEW c \in Calls, NEW call, call.authorized, UpdateIntention(c, call)
  PROVE  CallStep(c, call)
<1> DEFINE old == rows[call.target]
           merged == Merged(old, call.body)
           input == [Normalized(merged) EXCEPT !.expiration = Absent]
           expires == IF IsGiven(call.body.expiration)
                      THEN old.created + TicksOf[merged.expiration.value]
                      ELSE old.expires
           row == [old EXCEPT !.input = input, !.expires = expires, !.by = c]
<1>1. CASE \E answer \in Answers : Refuses(c, call, answer)
  BY <1>1, RefusesStep
<1>2. CASE ~\E answer \in Answers : Refuses(c, call, answer)
  <2>1. /\ ~(\A f \in Fields : call.body[f] = Absent)
        /\ call.target \in DOMAIN rows
        /\ old.status = "intended"
        /\ ~(old.expires <= apiNow)
    BY <1>2 DEF UpdateIntention, Answers
  <2>2. Accepts(merged, Mode)
    <3>1. ~Accepts(merged, Mode) => Refuses(c, call, ValidationStatus(merged, Mode))
      BY <2>1 DEF UpdateIntention
    <3>2. ~Accepts(merged, Mode) => ValidationStatus(merged, Mode) \in Answers
      BY Refusals DEF Answers
    <3> QED
      BY <1>2, <3>1, <3>2
  <2>3. rows' = [rows EXCEPT ![call.target] = row] /\ Ends(c, call, "answered", 200)
    BY <2>1, <2>2 DEF UpdateIntention
  <2>4. RowShape(old)
    BY <2>1 DEF ApiShapes
  <2>5. row \in [input : {input}, status : {old.status}, created : {old.created},
                 expires : {expires}, by : {c}]
    <3> HIDE DEF input, expires
    <3>1. old \in [input : {old.input}, status : {old.status}, created : {old.created},
                   expires : {old.expires}, by : {old.by}]
      BY <2>4 DEF RowShape
    <3> HIDE DEF old
    <3> QED
      BY <3>1
  <2>6. RowShape(row) /\ row.by = c /\ row.input = input
    <3> HIDE DEF input, expires, row, old
    <3> QED
      BY <2>5 DEF RowShape
  <2>7. Stores(merged, row.input)
    BY <2>6, UpdateStores
  <2> HIDE DEF row, merged
  <2>8. Stores(merged, Merged(row, NoPatch))
    BY <2>7, InputIsMerged
  <2>9. Left(c, row)
    BY <2>2, <2>6, <2>8, StoredAcceptedAgain DEF Left, RowAccepted
  <2>10. RowsChange(c, call, "answered", 200)
    BY <2>1, <2>3, <2>9 DEF RowsChange
  <2> QED
    BY <2>3, <2>10 DEF CallStep, Answers
<1> QED
  BY <1>1, <1>2

(* What follows a fault, if the request goes on at all.                        *)
LEMMA ConcludeStep ==
  ASSUME ApiShapes, FaultsSane, NEW c \in Calls, NEW call,
         call.fault \in {0} \cup DOMAIN faults, call.authorized \in BOOLEAN,
         Conclude(c, call)
  PROVE  CallStep(c, call)
<1> DEFINE ending == IF call.fault = 0 THEN "none" ELSE faults[call.fault].response.ending
<1>1. ending \in {"timeout", "close", "status", "none"}
  BY FaultsAssumption DEF FaultsSane
<1>2. \/ \E pc \in {"hung", "closed"} : Ends(c, call, pc, 0) /\ rows' = rows
      \/ Refuses(c, call, 500)
      \/ Process(c, call)
  BY <1>1 DEF Conclude, Refuses
<1>3. CASE \E pc \in {"hung", "closed"} : Ends(c, call, pc, 0) /\ rows' = rows
  BY <1>3 DEF CallStep, RowsChange, Answers
<1>4. CASE Refuses(c, call, 500)
  BY <1>4, RefusesStep DEF Answers
<1>5. CASE Process(c, call)
  <2>1. CASE ~call.authorized
    BY <1>5, <2>1, RefusesStep DEF Process, Answers
  <2>2. CASE call.authorized
    BY <1>5, <2>2, CreateStep, UpdateStep DEF Process
  <2> QED
    BY <2>1, <2>2
<1> QED
  BY <1>2, <1>3, <1>4, <1>5

-----------------------------------------------------------------------------
(* Such a step keeps what the invariant says of calls and rows.                *)

LEMMA Ended ==
  ASSUME DOMAIN calls = Calls, NEW c \in Calls, NEW call, CallShape(call),
         NEW pc, NEW answer, Ends(c, call, pc, answer)
  PROVE  /\ DOMAIN calls' = Calls
         /\ \A d \in Calls \ {c} : calls'[d] = calls[d]
         /\ CallShape(calls'[c])
         /\ calls'[c].pc = pc /\ calls'[c].answer = answer
         /\ calls'[c].fault = call.fault /\ calls'[c].authorized = call.authorized
<1> DEFINE new == [call EXCEPT !.pc = pc, !.answer = answer]
<1>1. calls' = [calls EXCEPT ![c] = new]
  BY DEF Ends
<1>2. call \in [pc : {call.pc}, kind : {call.kind}, body : {call.body},
                target : {call.target}, seen : {call.seen},
                authorized : {call.authorized}, fault : {call.fault},
                answer : {call.answer}]
  BY DEF CallShape
<1>3. new \in [pc : {pc}, kind : {call.kind}, body : {call.body},
               target : {call.target}, seen : {call.seen},
               authorized : {call.authorized}, fault : {call.fault},
               answer : {answer}]
  BY <1>2
<1> HIDE DEF new
<1>4. CallShape(new) /\ new.pc = pc /\ new.answer = answer
      /\ new.fault = call.fault /\ new.authorized = call.authorized
  BY <1>3 DEF CallShape
<1> QED
  BY <1>1, <1>4

LEMMA RowsKept ==
  ASSUME ApiShapes, RowsAnswered, RowsAccepted,
         NEW c \in Calls, calls[c].pc \in {"idle", "sleeping"},
         NEW call, NEW pc, NEW answer, RowsChange(c, call, pc, answer),
         \A d \in Calls \ {c} : calls'[d] = calls[d],
         calls'[c].pc = pc /\ calls'[c].answer = answer
           /\ calls'[c].authorized = call.authorized
  PROVE  /\ ASequence(rows') /\ \A i \in DOMAIN rows' : RowShape(rows'[i])
         /\ RowsAnswered' /\ RowsAccepted'
<1>0. ASequence(rows) /\ \A i \in DOMAIN rows : RowShape(rows[i])
  BY DEF ApiShapes
<1>1. \A i \in DOMAIN rows : /\ rows[i].by \in Calls \ {c}
                             /\ calls'[rows[i].by] = calls[rows[i].by]
  BY DEF RowsAnswered
<1>2. CASE rows' = rows
  <2>1. RowsAnswered'
    BY <1>1, <1>2 DEF RowsAnswered
  <2>2. RowsAccepted'
    BY <1>2 DEF RowsAccepted, RowAccepted, Merged
  <2> QED
    BY <1>0, <1>2, <2>1, <2>2
<1>3. CASE /\ pc = "answered" /\ answer \in {200, 201} /\ call.authorized
           /\ \E row : /\ Left(c, row)
                       /\ \/ rows' = Append(rows, row)
                          \/ \E i \in DOMAIN rows : /\ rows[i].status = "intended"
                                                    /\ ~(rows[i].expires <= apiNow)
                                                    /\ rows' = [rows EXCEPT ![i] = row]
  <2>1. PICK row : /\ Left(c, row)
                   /\ \/ rows' = Append(rows, row)
                      \/ \E i \in DOMAIN rows : rows' = [rows EXCEPT ![i] = row]
    BY <1>3
  <2>2. RowShape(row) /\ row.by = c /\ RowAccepted(row)
    BY <2>1 DEF Left
  <2>3. /\ ASequence(rows')
        /\ \A i \in DOMAIN rows' : rows'[i] = row \/ (i \in DOMAIN rows /\ rows'[i] = rows[i])
    <3>1. CASE rows' = Append(rows, row)
      <4>1. /\ ASequence(rows') /\ Len(rows) \in Nat
            /\ DOMAIN rows = 1 .. Len(rows) /\ DOMAIN rows' = 1 .. Len(rows) + 1
            /\ rows'[Len(rows) + 1] = row
            /\ \A i \in DOMAIN rows : rows'[i] = rows[i]
        BY <1>0, <3>1, Appended
      <4> QED
        BY <4>1
    <3>2. ASSUME NEW n \in DOMAIN rows, rows' = [rows EXCEPT ![n] = row]
          PROVE  /\ ASequence(rows')
                 /\ \A i \in DOMAIN rows' :
                      rows'[i] = row \/ (i \in DOMAIN rows /\ rows'[i] = rows[i])
      <4>1. /\ ASequence(rows') /\ DOMAIN rows' = DOMAIN rows
            /\ rows'[n] = row /\ \A i \in DOMAIN rows \ {n} : rows'[i] = rows[i]
        BY <1>0, <3>2, Replaced
      <4> QED
        BY <4>1
    <3> QED
      BY <2>1, <3>1, <3>2
  <2>4. \A i \in DOMAIN rows' : RowShape(rows'[i])
    BY <1>0, <2>2, <2>3
  <2>5. RowsAnswered'
    <3> SUFFICES ASSUME NEW i \in DOMAIN rows'
                 PROVE  /\ rows'[i].by \in Calls
                        /\ calls'[rows'[i].by].pc = "answered"
                        /\ calls'[rows'[i].by].answer \in {200, 201}
                        /\ calls'[rows'[i].by].authorized
      BY DEF RowsAnswered
    <3>1. CASE rows'[i] = row
      BY <1>3, <2>2, <3>1
    <3>2. CASE i \in DOMAIN rows /\ rows'[i] = rows[i]
      BY <1>1, <3>2 DEF RowsAnswered
    <3> QED
      BY <2>3, <3>1, <3>2
  <2>6. RowsAccepted'
    <3>1. \A r : RowAccepted(r)' <=> RowAccepted(r)
      BY DEF RowAccepted, Merged
    <3>2. ASSUME NEW i \in DOMAIN rows'
          PROVE  RowAccepted(rows'[i])
      BY <2>2, <2>3 DEF RowsAccepted
    <3> QED
      BY <3>2 DEF RowsAccepted, RowAccepted, Merged
  <2> QED
    BY <2>3, <2>4, <2>5, <2>6
<1> QED
  BY <1>2, <1>3 DEF RowsChange

(* Everything but the counting of uses.                                        *)
LEMMA CallStepKeeps ==
  ASSUME ApiInv, NEW c \in Calls, calls[c].pc \in {"idle", "sleeping"},
         NEW call, CallShape(call), CallStep(c, call), call.fault \in 0 .. Len(faults),
         UNCHANGED apiNow, ASequence(faults'), Len(faults') = Len(faults),
         \A f \in DOMAIN faults' : FaultShape(faults'[f]), FaultsSane'
  PROVE  /\ ApiShapes' /\ ApiTypeOK' /\ IdleUnused' /\ RowsAnswered' /\ RowsAccepted'
         /\ \A d \in Calls \ {c} : calls'[d].fault = calls[d].fault
         /\ calls'[c].fault = call.fault
<1>0. ApiShapes /\ ApiTypeOK /\ RowsAnswered /\ RowsAccepted /\ IdleUnused
  BY DEF ApiInv
<1>1. PICK pc \in {"sleeping", "hung", "closed", "answered"}, answer \in Answers :
        Ends(c, call, pc, answer) /\ RowsChange(c, call, pc, answer)
  BY DEF CallStep
<1>2. /\ DOMAIN calls' = Calls
      /\ \A d \in Calls \ {c} : calls'[d] = calls[d]
      /\ CallShape(calls'[c])
      /\ calls'[c].pc = pc /\ calls'[c].answer = answer
      /\ calls'[c].fault = call.fault /\ calls'[c].authorized = call.authorized
  BY <1>0, <1>1, Ended DEF ApiShapes
<1>3. /\ ASequence(rows') /\ \A i \in DOMAIN rows' : RowShape(rows'[i])
      /\ RowsAnswered' /\ RowsAccepted'
  BY <1>0, <1>1, <1>2, RowsKept
<1>4. ApiShapes'
  <2>1. \A d \in Calls : CallShape(calls'[d])
    BY <1>0, <1>2 DEF ApiShapes
  <2> QED
    BY <1>2, <1>3, <2>1 DEF ApiShapes, CallShape, RowShape, FaultShape, ASequence
<1>5. ApiTypeOK'
  <2>1. ASSUME NEW d \in Calls
        PROVE  /\ calls'[d].pc \in {"idle", "sleeping", "hung", "closed", "answered", "lost"}
               /\ calls'[d].fault \in 0 .. Len(faults')
               /\ calls'[d].answer \in Answers
    BY <1>0, <1>2 DEF ApiTypeOK, Answers
  <2>2. \A f \in DOMAIN faults' : faults'[f].remaining \in 0 .. faults'[f].total
    BY DEF FaultsSane
  <2> QED
    BY <1>0, <2>1, <2>2 DEF ApiTypeOK, Answers
<1>6. IdleUnused'
  BY <1>0, <1>2 DEF IdleUnused
<1> QED
  BY <1>2, <1>3, <1>4, <1>5, <1>6

-----------------------------------------------------------------------------
(* The uses of a fault.                                                        *)

(* Using an expectation that is active leaves one use less.                    *)
LEMMA ConsumedFaults ==
  ASSUME ApiShapes, FaultsSane, NEW f \in DOMAIN faults, ~faults[f].consumed
  PROVE  /\ ASequence(Consumed(f)) /\ DOMAIN Consumed(f) = DOMAIN faults
         /\ Len(Consumed(f)) = Len(faults)
         /\ \A g \in DOMAIN faults \ {f} : Consumed(f)[g] = faults[g]
         /\ FaultShape(Consumed(f)[f])
         /\ Consumed(f)[f].response = faults[f].response
         /\ Consumed(f)[f].total = faults[f].total
         /\ Consumed(f)[f].remaining = faults[f].remaining - 1
         /\ Consumed(f)[f].remaining = 0 => Consumed(f)[f].consumed
         /\ faults[f].remaining >= 1
<1> DEFINE old == faults[f]
           row == UsedOnce(old)
<1>1. /\ old.remaining \in Nat /\ old.remaining >= 1 /\ FaultShape(old)
      /\ ASequence(faults)
  BY DEF FaultsSane, ApiShapes
<1>2. Consumed(f) = [faults EXCEPT ![f] = row]
  BY DEF Consumed
<1>3. PICK flag \in BOOLEAN : flag = (old.remaining - 1 <= 0)
  <2>1. (old.remaining - 1 <= 0) \in BOOLEAN
    OBVIOUS
  <2> QED
    BY <2>1, Zenon
<1>4. row = [old EXCEPT !.remaining = old.remaining - 1, !.consumed = flag]
  BY <1>3, Zenon DEF UsedOnce
<1>5. row \in [operation : {old.operation}, reference : {old.reference},
               response : {old.response}, total : {old.total},
               remaining : {old.remaining - 1}, consumed : {flag},
               expires : {old.expires}, deleted : {old.deleted}]
  <2>1. old \in [operation : {old.operation}, reference : {old.reference},
                 response : {old.response}, total : {old.total},
                 remaining : {old.remaining}, consumed : {old.consumed},
                 expires : {old.expires}, deleted : {old.deleted}]
    BY <1>1 DEF FaultShape
  <2> HIDE DEF old, row
  <2> QED
    BY <1>4, <2>1
<1>6. old.remaining - 1 = 0 => flag
  <2>1. ~flag => ~(old.remaining - 1 <= 0)
    BY <1>3, Zenon
  <2>2. flag = TRUE \/ flag = FALSE
    OBVIOUS
  <2> QED
    BY <1>1, <2>1, <2>2
<1>11. old.expires \in Nat /\ row.expires = old.expires
  BY <1>1, <1>5 DEF FaultShape
<1> HIDE DEF row, old
<1>7. /\ FaultShape(row) /\ row.response = old.response /\ row.total = old.total
      /\ row.remaining = old.remaining - 1 /\ row.consumed = flag
  BY <1>5, <1>11 DEF FaultShape
<1>8. row.remaining = 0 => row.consumed
  <2>1. row.remaining = 0 => flag
    BY <1>6, <1>7
  <2> QED
    BY <1>7, <2>1, Zenon
<1>9. /\ ASequence(Consumed(f)) /\ DOMAIN Consumed(f) = DOMAIN faults
      /\ Len(Consumed(f)) = Len(faults) /\ Consumed(f)[f] = row
      /\ \A g \in DOMAIN faults \ {f} : Consumed(f)[g] = faults[g]
  <2> DEFINE S == {faults[g] : g \in DOMAIN faults} \cup {row}
  <2>1. faults \in Seq(S) /\ row \in S
    BY <1>1 DEF ASequence
  <2> HIDE DEF S
  <2>2. /\ Consumed(f) \in Seq(S) /\ DOMAIN Consumed(f) = DOMAIN faults
        /\ Len(Consumed(f)) = Len(faults) /\ Consumed(f)[f] = row
        /\ \A g \in DOMAIN faults \ {f} : Consumed(f)[g] = faults[g]
    BY <1>2, <2>1
  <2> QED
    BY <2>2, SequenceOfOwn
<1> QED
  BY <1>1, <1>7, <1>8, <1>9 DEF old

(* What Receive does to faults, to calls and to rows.                          *)
LEMMA ReceiveCallStep ==
  ASSUME ApiInv, NEW c \in Calls, NEW request \in Requests, NEW target,
         Receive(c, request, target)
  PROVE  \E call : /\ CallStep(c, call) /\ CallShape(call)
                   /\ \/ call.fault = 0 /\ faults' = faults
                      \/ /\ call.fault \in DOMAIN faults /\ ~faults[call.fault].consumed
                         /\ faults' = Consumed(call.fault)
<1> DEFINE kind == request.kind
           reference == ReferenceOf(kind, request.body, target)
           matches == IF IsGiven(reference) THEN MatchingFaults(kind, reference.value) ELSE {}
           fault == IF matches = {} THEN 0 ELSE OldestFault(matches)
           call == [pc |-> "running", kind |-> kind, body |-> request.body, target |-> target,
                    seen |-> IF target \in DOMAIN rows THEN <<rows[target]>> ELSE << >>,
                    authorized |-> request.authorized, fault |-> fault, answer |-> 0]
<1>0. ApiShapes /\ ApiTypeOK /\ FaultsSane /\ IdleUnused /\ UsesCounted
  BY DEF ApiInv
<1>1. /\ calls[c].pc = "idle" /\ UNCHANGED apiNow
      /\ faults' = IF fault = 0 THEN faults ELSE Consumed(fault)
      /\ IF fault # 0 /\ faults[fault].response.delayed
         THEN Ends(c, call, "sleeping", 0) /\ UNCHANGED rows
         ELSE Conclude(c, call)
  BY DEF Receive
<1>2. DOMAIN faults = 1 .. Len(faults) /\ Len(faults) \in Nat
  BY <1>0, SequenceLength DEF ApiShapes
<1>3. fault = 0 \/ (fault \in DOMAIN faults /\ ~faults[fault].consumed)
  <2>1. matches \in SUBSET Nat /\ \A f \in matches : f \in DOMAIN faults /\ ~faults[f].consumed
    BY <1>2 DEF MatchingFaults, ActiveFault
  <2>2. CASE matches = {}
    BY <2>2
  <2>3. CASE matches # {}
    <3> DEFINE ends == {faults[f].expires : f \in matches}
               oldest == {f \in matches : \A g \in matches : faults[f].expires <= faults[g].expires}
    <3> HIDE DEF matches
    <3>1. ends \subseteq Nat /\ ends # {}
      BY <1>0, <2>1, <2>3 DEF ApiShapes, FaultShape
    <3>2. PICK least \in ends : \A y \in ends : least <= y
      <4> HIDE DEF ends
      <4> QED
        BY <3>1, LeastNat
    <3>3. PICK f \in matches : faults[f].expires = least
      OBVIOUS
    <3>4. f \in oldest /\ oldest \subseteq Nat
      BY <2>1, <3>2, <3>3
    <3>5. Min(oldest) \in oldest
      <4> HIDE DEF oldest
      <4> QED
        BY <3>4, LeastExists
    <3> QED
      BY <2>1, <2>3, <3>5 DEF OldestFault
  <2> QED
    BY <2>2, <2>3
<1>4. /\ CallShape(call) /\ call.fault = fault /\ call.authorized \in BOOLEAN
  <2> HIDE DEF fault, kind
  <2> QED
    BY RequestsAssumption DEF CallShape
<1> HIDE DEF call, fault
<1>5. CallStep(c, call)
  <2>1. CASE fault # 0 /\ faults[fault].response.delayed
    BY <1>1, <2>1 DEF CallStep, RowsChange, Answers
  <2>2. CASE ~(fault # 0 /\ faults[fault].response.delayed)
    BY <1>0, <1>1, <1>3, <1>4, <2>2, ConcludeStep
  <2> QED
    BY <2>1, <2>2
<1> QED
  BY <1>1, <1>3, <1>4, <1>5

LEMMA ReceiveStep ==
  ASSUME ApiInv, NEW c \in Calls, NEW request \in Requests, NEW target,
         Receive(c, request, target)
  PROVE  ApiInv'
<1>0. ApiShapes /\ ApiTypeOK /\ FaultsSane /\ IdleUnused /\ UsesCounted
  BY DEF ApiInv
<1>1. calls[c].pc = "idle" /\ UNCHANGED apiNow
  BY DEF Receive
<1>2. DOMAIN faults = 1 .. Len(faults) /\ Len(faults) \in Nat
  BY <1>0, SequenceLength DEF ApiShapes
<1>3. PICK call : /\ CallStep(c, call) /\ CallShape(call)
                  /\ \/ call.fault = 0 /\ faults' = faults
                     \/ /\ call.fault \in DOMAIN faults /\ ~faults[call.fault].consumed
                        /\ faults' = Consumed(call.fault)
  BY ReceiveCallStep
<1> DEFINE fault == call.fault
<1> HIDE DEF fault
<1>6. /\ ASequence(faults') /\ DOMAIN faults' = DOMAIN faults /\ Len(faults') = Len(faults)
      /\ \A f \in DOMAIN faults \ {fault} : faults'[f] = faults[f]
      /\ \A f \in DOMAIN faults : FaultShape(faults'[f])
      /\ fault # 0 => /\ faults'[fault].response = faults[fault].response
                      /\ faults'[fault].total = faults[fault].total
                      /\ faults'[fault].remaining = faults[fault].remaining - 1
                      /\ faults'[fault].remaining = 0 => faults'[fault].consumed
                      /\ faults[fault].remaining >= 1
  <2>1. CASE fault = 0
    BY <1>0, <1>2, <1>3, <2>1 DEF ApiShapes, fault
  <2>2. CASE fault # 0
    <3>1. fault \in DOMAIN faults /\ ~faults[fault].consumed /\ faults' = Consumed(fault)
      BY <1>3, <2>2 DEF fault
    <3> QED
      BY <1>0, <3>1, ConsumedFaults DEF ApiShapes
  <2> QED
    BY <2>1, <2>2
<1>7. FaultsSane'
  <2> SUFFICES ASSUME NEW f \in DOMAIN faults
               PROVE  /\ faults'[f].response \in FaultResponses
                      /\ faults'[f].total \in Nat
                      /\ faults'[f].remaining \in 0 .. faults'[f].total
                      /\ faults'[f].remaining = 0 => faults'[f].consumed
    BY <1>6 DEF FaultsSane
  <2>1. CASE f = fault
    <3>1. fault # 0
      BY <1>2, <2>1
    <3> QED
      BY <1>0, <1>6, <2>1, <3>1 DEF FaultsSane
  <2>2. CASE f # fault
    BY <1>0, <1>6, <2>2 DEF FaultsSane
  <2> QED
    BY <2>1, <2>2
<1>8. /\ ApiShapes' /\ ApiTypeOK' /\ IdleUnused' /\ RowsAnswered' /\ RowsAccepted'
      /\ \A d \in Calls \ {c} : calls'[d].fault = calls[d].fault
      /\ calls'[c].fault = fault
  BY <1>1, <1>2, <1>3, <1>6, <1>7, CallStepKeeps DEF fault
<1>9. UsesCounted'
  <2> SUFFICES ASSUME NEW f \in DOMAIN faults
               PROVE  /\ IsFiniteSet(Used(f)')
                      /\ Cardinality(Used(f)') = faults'[f].total - faults'[f].remaining
    BY <1>6 DEF UsesCounted, Used
  <2>1. /\ IsFiniteSet(Used(f)) /\ Cardinality(Used(f)) = faults[f].total - faults[f].remaining
        /\ f # 0 /\ calls[c].fault = 0
        /\ faults[f].total \in Nat /\ faults[f].remaining \in Nat
    BY <1>0, <1>1, <1>2 DEF UsesCounted, IdleUnused, FaultsSane
  <2>2. CASE f = fault
    <3>1. Used(f)' = Used(f) \cup {c} /\ c \notin Used(f)
      BY <1>8, <2>1, <2>2 DEF Used
    <3>2. IsFiniteSet(Used(f) \cup {c}) /\ Cardinality(Used(f) \cup {c}) = Cardinality(Used(f)) + 1
      BY <2>1, <3>1, FS_AddElement
    <3> QED
      BY <1>6, <2>1, <2>2, <3>1, <3>2
  <2>3. CASE f # fault
    <3>1. Used(f)' = Used(f)
      BY <1>8, <2>1, <2>3 DEF Used
    <3> QED
      BY <1>6, <2>1, <2>3, <3>1
  <2> QED
    BY <2>2, <2>3
<1> QED
  BY <1>7, <1>8, <1>9 DEF ApiInv

-----------------------------------------------------------------------------
(* The other actions.                                                          *)

LEMMA ApiInitInv == ApiInit => ApiInv
<1> SUFFICES ASSUME ApiInit PROVE ApiInv
  OBVIOUS
<1>1. /\ apiNow = 0 /\ rows = << >> /\ faults = << >>
      /\ calls = [c \in Calls |-> NewCall]
  BY DEF ApiInit
<1>2. ASequence(<< >>) /\ Len(<< >>) = 0 /\ DOMAIN << >> = {}
  BY DEF ASequence
<1>3. \A c \in Calls : /\ calls[c].pc = "idle" /\ calls[c].fault = 0 /\ calls[c].answer = 0
                       /\ CallShape(calls[c])
  BY <1>1 DEF NewCall, CallShape
<1>4. ApiShapes
  BY <1>1, <1>2, <1>3 DEF ApiShapes
<1>5. ApiTypeOK
  BY <1>1, <1>2, <1>3, ApiBounds DEF ApiTypeOK
<1> QED
  BY <1>1, <1>2, <1>3, <1>4, <1>5
     DEF ApiInv, FaultsSane, IdleUnused, UsesCounted, RowsAnswered, RowsAccepted

LEMMA WakeCallStep ==
  ASSUME ApiInv, NEW c \in Calls, Wake(c)
  PROVE  CallStep(c, calls[c])
<1>0. ApiShapes /\ ApiTypeOK /\ FaultsSane
  BY DEF ApiInv
<1>1. Conclude(c, calls[c])
  BY DEF Wake
<1>2. calls[c].authorized \in BOOLEAN /\ calls[c].fault \in {0} \cup DOMAIN faults
  BY <1>0, SequenceLength DEF ApiShapes, ApiTypeOK, CallShape
<1> QED
  BY <1>0, <1>1, <1>2, ConcludeStep

LEMMA WakeStep ==
  ASSUME ApiInv, NEW c \in Calls, Wake(c)
  PROVE  ApiInv'
<1>0. ApiShapes /\ ApiTypeOK /\ FaultsSane /\ UsesCounted
  BY DEF ApiInv
<1>1. calls[c].pc = "sleeping" /\ Conclude(c, calls[c]) /\ UNCHANGED <<apiNow, faults>>
  BY DEF Wake
<1>2. /\ Len(faults) \in Nat /\ DOMAIN faults = 1 .. Len(faults)
      /\ CallShape(calls[c]) /\ calls[c].fault \in 0 .. Len(faults)
  BY <1>0, SequenceLength DEF ApiShapes, ApiTypeOK
<1>3. CallStep(c, calls[c])
  BY WakeCallStep
<1>4. FaultsSane'
  BY <1>0, <1>1 DEF FaultsSane
<1>5. /\ ApiShapes' /\ ApiTypeOK' /\ IdleUnused' /\ RowsAnswered' /\ RowsAccepted'
      /\ \A d \in Calls \ {c} : calls'[d].fault = calls[d].fault
      /\ calls'[c].fault = calls[c].fault
  BY <1>0, <1>1, <1>2, <1>3, <1>4, CallStepKeeps DEF ApiShapes
<1>6. \A f : Used(f)' = Used(f)
  BY <1>5 DEF Used
<1>7. UsesCounted'
  BY <1>0, <1>1, <1>6 DEF UsesCounted
<1> QED
  BY <1>4, <1>5, <1>7 DEF ApiInv

(* The control plane's steps: calls and rows stay, and no use is added.        *)
LEMMA FaultsStep ==
  ASSUME ApiInv, UNCHANGED <<apiNow, rows, calls>>, ASequence(faults'), Len(faults') >= Len(faults),
         \A f \in DOMAIN faults' : FaultShape(faults'[f]), FaultsSane',
         \A f \in DOMAIN faults : /\ faults'[f].total = faults[f].total
                                  /\ faults'[f].remaining = faults[f].remaining,
         \A f \in DOMAIN faults' \ DOMAIN faults : faults'[f].total = faults'[f].remaining
  PROVE  ApiInv'
<1>0. ApiShapes /\ ApiTypeOK /\ FaultsSane /\ UsesCounted /\ IdleUnused /\ RowsAnswered /\ RowsAccepted
  BY DEF ApiInv
<1>1. /\ Len(faults) \in Nat /\ DOMAIN faults = 1 .. Len(faults)
      /\ Len(faults') \in Nat /\ DOMAIN faults' = 1 .. Len(faults')
  BY <1>0, SequenceLength DEF ApiShapes
<1>2. ApiShapes'
  BY <1>0 DEF ApiShapes, CallShape, RowShape, FaultShape, ASequence
<1>3. ApiTypeOK'
  BY <1>0, <1>1 DEF ApiTypeOK, FaultsSane
<1>4. UsesCounted'
  <2> SUFFICES ASSUME NEW f \in DOMAIN faults'
               PROVE  /\ IsFiniteSet(Used(f)')
                      /\ Cardinality(Used(f)') = faults'[f].total - faults'[f].remaining
    BY DEF UsesCounted, Used
  <2>1. Used(f)' = Used(f)
    BY DEF Used
  <2>2. CASE f \in DOMAIN faults
    BY <1>0, <2>1, <2>2 DEF UsesCounted
  <2>3. CASE f \notin DOMAIN faults
    <3>1. Used(f) = {}
      BY <1>0, <1>1, <2>3 DEF Used, ApiTypeOK
    <3>2. faults'[f].total \in Nat
      BY DEF FaultsSane
    <3> QED
      BY <2>1, <2>3, <3>1, <3>2, FS_EmptySet
  <2> QED
    BY <2>2, <2>3
<1>5. IdleUnused' /\ RowsAnswered'
  BY <1>0 DEF IdleUnused, RowsAnswered
<1>6. RowsAccepted'
  BY <1>0 DEF RowsAccepted, RowAccepted, Merged
<1> QED
  BY <1>2, <1>3, <1>4, <1>5, <1>6 DEF ApiInv

LEMMA CreateFaultStep ==
  ASSUME ApiInv, NEW operation, NEW reference, NEW response \in FaultResponses,
         NEW times \in 1 .. MaxTimes, CreateFault(operation, reference, response, times)
  PROVE  ApiInv'
<1> DEFINE row == [operation |-> operation, reference |-> reference, response |-> response,
                   total |-> times, remaining |-> times, consumed |-> FALSE,
                   expires |-> apiNow + FaultLife, deleted |-> FALSE]
<1>0. ApiShapes /\ FaultsSane /\ apiNow + FaultLife \in Nat
  BY ApiBounds DEF ApiInv, ApiTypeOK
<1>1. faults' = Append(faults, row) /\ UNCHANGED <<apiNow, rows, calls>>
  BY DEF CreateFault
<1>2. /\ FaultShape(row) /\ row.response \in FaultResponses
      /\ row.total \in Nat /\ row.remaining \in 0 .. row.total
      /\ row.remaining # 0 /\ row.total = row.remaining
  BY <1>0, ApiBounds DEF FaultShape
<1> HIDE DEF row
<1>3. /\ ASequence(faults') /\ Len(faults) \in Nat /\ Len(faults') = Len(faults) + 1
      /\ DOMAIN faults = 1 .. Len(faults) /\ DOMAIN faults' = 1 .. Len(faults) + 1
      /\ faults'[Len(faults) + 1] = row
      /\ \A f \in DOMAIN faults : faults'[f] = faults[f]
  BY <1>0, <1>1, Appended DEF ApiShapes
<1>4. \A f \in DOMAIN faults' : faults'[f] = row \/ (f \in DOMAIN faults /\ faults'[f] = faults[f])
  BY <1>3
<1>5. \A f \in DOMAIN faults' : FaultShape(faults'[f])
  BY <1>0, <1>2, <1>4 DEF ApiShapes
<1>6. FaultsSane'
  <2> SUFFICES ASSUME NEW f \in DOMAIN faults'
               PROVE  /\ faults'[f].response \in FaultResponses
                      /\ faults'[f].total \in Nat
                      /\ faults'[f].remaining \in 0 .. faults'[f].total
                      /\ faults'[f].remaining = 0 => faults'[f].consumed
    BY DEF FaultsSane
  <2>1. CASE faults'[f] = row
    BY <1>2, <2>1
  <2>2. CASE f \in DOMAIN faults /\ faults'[f] = faults[f]
    BY <1>0, <2>2 DEF FaultsSane
  <2> QED
    BY <1>4, <2>1, <2>2
<1>7. \A f \in DOMAIN faults' \ DOMAIN faults : faults'[f].total = faults'[f].remaining
  BY <1>2, <1>4
<1> QED
  BY <1>1, <1>3, <1>5, <1>6, <1>7, FaultsStep

LEMMA CancelFaultStep ==
  ASSUME ApiInv, NEW f \in DOMAIN faults, CancelFault(f)
  PROVE  ApiInv'
<1> DEFINE old == faults[f]
           row == [old EXCEPT !.deleted = TRUE]
<1>0. ApiShapes /\ FaultsSane
  BY DEF ApiInv
<1>1. faults' = [faults EXCEPT ![f] = row] /\ UNCHANGED <<apiNow, rows, calls>>
  BY DEF CancelFault
<1>2. row \in [operation : {old.operation}, reference : {old.reference},
               response : {old.response}, total : {old.total},
               remaining : {old.remaining}, consumed : {old.consumed},
               expires : {old.expires}, deleted : {TRUE}]
  <2>1. old \in [operation : {old.operation}, reference : {old.reference},
                 response : {old.response}, total : {old.total},
                 remaining : {old.remaining}, consumed : {old.consumed},
                 expires : {old.expires}, deleted : {old.deleted}]
    BY <1>0 DEF ApiShapes, FaultShape
  <2> HIDE DEF old
  <2> QED
    BY <2>1
<1>11. old.expires \in Nat /\ row.expires = old.expires
  BY <1>0, <1>2 DEF ApiShapes, FaultShape
<1> HIDE DEF row, old
<1>3. /\ FaultShape(row) /\ row.response = old.response /\ row.total = old.total
      /\ row.remaining = old.remaining /\ row.consumed = old.consumed
  BY <1>2, <1>11 DEF FaultShape
<1>4. /\ ASequence(faults') /\ DOMAIN faults' = DOMAIN faults
      /\ Len(faults') = Len(faults) /\ Len(faults) \in Nat
      /\ faults'[f] = row /\ \A g \in DOMAIN faults \ {f} : faults'[g] = faults[g]
  <2> DEFINE S == {faults[g] : g \in DOMAIN faults} \cup {row}
  <2>1. faults \in Seq(S) /\ row \in S
    BY <1>0 DEF ApiShapes, ASequence
  <2> HIDE DEF S
  <2>2. /\ faults' \in Seq(S) /\ DOMAIN faults' = DOMAIN faults
        /\ Len(faults') = Len(faults) /\ Len(faults) \in Nat
        /\ faults'[f] = row /\ \A g \in DOMAIN faults \ {f} : faults'[g] = faults[g]
    BY <1>1, <2>1
  <2> QED
    BY <2>2, SequenceOfOwn
<1>5. \A g \in DOMAIN faults : /\ FaultShape(faults'[g])
                               /\ faults'[g].response = faults[g].response
                               /\ faults'[g].total = faults[g].total
                               /\ faults'[g].remaining = faults[g].remaining
                               /\ faults'[g].consumed = faults[g].consumed
  BY <1>0, <1>3, <1>4 DEF ApiShapes, old
<1>6. FaultsSane'
  BY <1>0, <1>4, <1>5 DEF FaultsSane
<1> QED
  BY <1>1, <1>4, <1>5, <1>6, FaultsStep

LEMMA SubmitIntentionStep ==
  ASSUME ApiInv, NEW n \in DOMAIN rows, SubmitIntention(n)
  PROVE  /\ ApiInv'
         /\ DOMAIN rows' = DOMAIN rows
         /\ \A i \in DOMAIN rows : rows'[i].input = rows[i].input
                                   /\ rows'[i].expires = rows[i].expires
<1> DEFINE old == rows[n]
           row == [old EXCEPT !.status = "processing"]
<1>0. /\ ApiShapes /\ ApiTypeOK /\ FaultsSane /\ UsesCounted /\ IdleUnused
      /\ RowsAnswered /\ RowsAccepted
  BY DEF ApiInv
<1>1. rows' = [rows EXCEPT ![n] = row] /\ UNCHANGED <<apiNow, faults, calls>>
  BY DEF SubmitIntention
<1>2. row \in [input : {old.input}, status : {"processing"}, created : {old.created},
               expires : {old.expires}, by : {old.by}]
  <2>1. old \in [input : {old.input}, status : {old.status}, created : {old.created},
                 expires : {old.expires}, by : {old.by}]
    BY <1>0 DEF ApiShapes, RowShape
  <2> HIDE DEF old
  <2> QED
    BY <2>1
<1> HIDE DEF row, old
<1>3. RowShape(row) /\ row.input = old.input /\ row.expires = old.expires /\ row.by = old.by
  BY <1>2 DEF RowShape
<1>4. /\ ASequence(rows') /\ DOMAIN rows' = DOMAIN rows
      /\ rows'[n] = row /\ \A i \in DOMAIN rows \ {n} : rows'[i] = rows[i]
  <2> DEFINE S == {rows[i] : i \in DOMAIN rows} \cup {row}
  <2>1. rows \in Seq(S) /\ row \in S
    BY <1>0 DEF ApiShapes, ASequence
  <2> HIDE DEF S
  <2>2. /\ rows' \in Seq(S) /\ DOMAIN rows' = DOMAIN rows
        /\ rows'[n] = row /\ \A i \in DOMAIN rows \ {n} : rows'[i] = rows[i]
    BY <1>1, <2>1
  <2> QED
    BY <2>2, SequenceOfOwn
<1>5. \A i \in DOMAIN rows : /\ RowShape(rows'[i])
                             /\ rows'[i].input = rows[i].input
                             /\ rows'[i].expires = rows[i].expires
                             /\ rows'[i].by = rows[i].by
  BY <1>0, <1>3, <1>4 DEF ApiShapes, old
<1>6. ApiShapes'
  BY <1>0, <1>1, <1>4, <1>5 DEF ApiShapes, CallShape, FaultShape, ASequence
<1>7. ApiTypeOK' /\ FaultsSane' /\ IdleUnused'
  BY <1>0, <1>1 DEF ApiTypeOK, FaultsSane, IdleUnused
<1>8. UsesCounted'
  BY <1>0, <1>1 DEF UsesCounted, Used
<1>9. RowsAnswered'
  BY <1>0, <1>1, <1>4, <1>5 DEF RowsAnswered
<1>10. RowsAccepted'
  <2>1. \A i \in DOMAIN rows : Merged(rows'[i], NoPatch) = Merged(rows[i], NoPatch)
    BY <1>5 DEF Merged
  <2> QED
    BY <1>0, <1>4, <2>1 DEF RowsAccepted, RowAccepted, Merged
<1> QED
  BY <1>4, <1>5, <1>6, <1>7, <1>8, <1>9, <1>10 DEF ApiInv

(* Time passing and a crash: rows and faults stay, and so does what every call *)
(* has used; a request that was answered is not touched.                       *)
LEMMA QuietStep ==
  ASSUME ApiInv, UNCHANGED <<rows, faults>>, apiNow' \in 0 .. ApiHorizon,
         DOMAIN calls' = Calls,
         \A c \in Calls : \/ calls'[c] = calls[c]
                          \/ /\ CallShape(calls'[c]) /\ calls[c].pc = "sleeping"
                             /\ calls'[c].pc = "lost" /\ calls'[c].answer = calls[c].answer
                             /\ calls'[c].fault = calls[c].fault
  PROVE  ApiInv'
<1>0. /\ ApiShapes /\ ApiTypeOK /\ FaultsSane /\ UsesCounted /\ IdleUnused
      /\ RowsAnswered /\ RowsAccepted
  BY DEF ApiInv
<1>1. ApiShapes'
  BY <1>0 DEF ApiShapes, CallShape, RowShape, FaultShape, ASequence
<1>2. ApiTypeOK' /\ IdleUnused'
  BY <1>0 DEF ApiTypeOK, IdleUnused
<1>3. FaultsSane'
  BY <1>0 DEF FaultsSane
<1>4. UsesCounted'
  <2>1. \A f : Used(f)' = Used(f)
    BY DEF Used
  <2> QED
    BY <1>0, <2>1 DEF UsesCounted
<1>5. RowsAnswered'
  BY <1>0 DEF RowsAnswered
<1>6. RowsAccepted'
  BY <1>0 DEF RowsAccepted, RowAccepted, Merged
<1> QED
  BY <1>1, <1>2, <1>3, <1>4, <1>5, <1>6 DEF ApiInv

LEMMA ApiCrashStep ==
  ASSUME ApiInv, ApiCrash
  PROVE  ApiInv'
<1>0. ApiShapes /\ ApiTypeOK
  BY DEF ApiInv
<1>1. /\ UNCHANGED <<rows, faults>> /\ apiNow' \in {apiNow, 0}
      /\ calls' = [c \in Calls |-> IF calls[c].pc = "sleeping"
                                   THEN [calls[c] EXCEPT !.pc = "lost"] ELSE calls[c]]
  BY DEF ApiCrash
<1>2. ASSUME NEW c \in Calls, calls[c].pc = "sleeping"
      PROVE  /\ CallShape(calls'[c]) /\ calls'[c].pc = "lost"
             /\ calls'[c].answer = calls[c].answer /\ calls'[c].fault = calls[c].fault
  <2> DEFINE old == calls[c]
             new == [old EXCEPT !.pc = "lost"]
  <2>1. old \in [pc : {old.pc}, kind : {old.kind}, body : {old.body}, target : {old.target},
                 seen : {old.seen}, authorized : {old.authorized}, fault : {old.fault},
                 answer : {old.answer}]
    BY <1>0 DEF ApiShapes, CallShape
  <2>0. old.authorized \in BOOLEAN
    BY <1>0 DEF ApiShapes, CallShape
  <2>2. calls'[c] = new
    BY <1>1, <1>2
  <2> HIDE DEF old
  <2>3. new \in [pc : {"lost"}, kind : {old.kind}, body : {old.body}, target : {old.target},
                 seen : {old.seen}, authorized : {old.authorized}, fault : {old.fault},
                 answer : {old.answer}]
    BY <2>1
  <2> HIDE DEF new
  <2>4. CallShape(new) /\ new.pc = "lost" /\ new.answer = old.answer /\ new.fault = old.fault
    BY <2>0, <2>3 DEF CallShape
  <2> QED
    BY <2>2, <2>4 DEF old
<1>3. apiNow' \in 0 .. ApiHorizon /\ DOMAIN calls' = Calls
  BY <1>0, <1>1, ApiBounds DEF ApiTypeOK
<1>4. \A c \in Calls : calls[c].pc # "sleeping" => calls'[c] = calls[c]
  BY <1>1
<1> QED
  BY <1>1, <1>2, <1>3, <1>4, QuietStep

LEMMA ApiNextInv == ApiInv /\ [ApiNext]_apiVars => ApiInv'
<1> SUFFICES ASSUME ApiInv, [ApiNext]_apiVars PROVE ApiInv'
  OBVIOUS
<1>0. DOMAIN calls = Calls /\ apiNow \in 0 .. ApiHorizon
  BY DEF ApiInv, ApiShapes, ApiTypeOK
<1>1. ASSUME NEW c \in Calls, ReceiveAny(c)
      PROVE  ApiInv'
  BY <1>1, ReceiveStep DEF ReceiveAny
<1>2. ASSUME NEW c \in Calls, Wake(c)
      PROVE  ApiInv'
  BY <1>2, WakeStep
<1>3. ASSUME NEW operation, NEW reference, NEW response \in FaultResponses,
             NEW times \in 1 .. MaxTimes, CreateFault(operation, reference, response, times)
      PROVE  ApiInv'
  BY <1>3, CreateFaultStep
<1>4. ASSUME NEW f \in DOMAIN faults, CancelFault(f)
      PROVE  ApiInv'
  BY <1>4, CancelFaultStep
<1>5. ASSUME NEW i \in DOMAIN rows, SubmitIntention(i)
      PROVE  ApiInv'
  BY <1>5, SubmitIntentionStep
<1>6. CASE ApiTick
  <2>1. apiNow' \in 0 .. ApiHorizon /\ UNCHANGED <<rows, faults, calls>>
    BY <1>0, <1>6, ApiBounds DEF ApiTick
  <2> QED
    BY <1>0, <2>1, QuietStep
<1>7. CASE ApiCrash
  BY <1>7, ApiCrashStep
<1>8. CASE UNCHANGED apiVars
  BY <1>0, <1>8, QuietStep DEF apiVars
<1> QED
  BY <1>1, <1>2, <1>3, <1>4, <1>5, <1>6, <1>7, <1>8 DEF ApiNext

-----------------------------------------------------------------------------
(* The theorems.                                                               *)

(* The inductive invariant holds in every state.                               *)
THEOREM ApiInvariance == ApiSpec => []ApiInv
  BY ApiInitInv, ApiNextInv, PTL DEF ApiSpec

LEMMA InvSound == ApiInv => /\ ApiTypeOK /\ OnlySuccessStores /\ FaultAccounting
                            /\ DefaultsAllowed => StoredAccepted
<1> SUFFICES ASSUME ApiInv
             PROVE  /\ ApiTypeOK /\ OnlySuccessStores /\ FaultAccounting
                    /\ DefaultsAllowed => StoredAccepted
  OBVIOUS
<1>1. ApiTypeOK /\ FaultsSane /\ UsesCounted /\ RowsAnswered /\ RowsAccepted
  BY DEF ApiInv
<1>2. OnlySuccessStores
  BY <1>1 DEF RowsAnswered, OnlySuccessStores
<1>3. FaultAccounting
  BY <1>1 DEF FaultsSane, UsesCounted, Used, FaultAccounting
<1>4. DefaultsAllowed => StoredAccepted
  BY <1>1 DEF RowsAccepted, RowAccepted, StoredAccepted
<1> QED
  BY <1>1, <1>2, <1>3, <1>4

(* Whatever the configuration: each use of an API fault is one request's,      *)
(* through cancellations, expiries and crashes, and only an authorized request *)
(* that was answered with success wrote a row (api-fault.ts, intention-        *)
(* routes.ts).                                                                 *)
THEOREM OnlySuccessLeavesTraces ==
  ApiSpec => [](ApiTypeOK /\ OnlySuccessStores /\ FaultAccounting)
  BY ApiInvariance, InvSound, PTL

(* With default URLs that the allowlists let through, whatever sequence of     *)
(* patches made a stored intention, it is one the validator accepts (intention-*)
(* service.ts re-validates the merged request).                                *)
THEOREM TablesSound == ASSUME DefaultsAllowed PROVE ApiSpec => []ApiTablesSound
<1>1. ApiInv => ApiTablesSound
  BY InvSound DEF ApiTablesSound
<1> QED
  BY <1>1, ApiInvariance, PTL

LEMMA CallStepKeepsClosed ==
  ASSUME ApiShapes, NEW c, NEW call, CallStep(c, call)
  PROVE  \A i \in DOMAIN rows : Closed(i) => rows'[i].input = rows[i].input
                                             /\ rows'[i].expires = rows[i].expires
<1>0. ASequence(rows)
  BY DEF ApiShapes
<1> SUFFICES ASSUME NEW i \in DOMAIN rows, Closed(i)
             PROVE  rows'[i] = rows[i]
  OBVIOUS
<1>1. PICK pc, answer : RowsChange(c, call, pc, answer)
  BY DEF CallStep
<1>2. ASSUME NEW row, rows' = Append(rows, row)
      PROVE  rows'[i] = rows[i]
  BY <1>0, <1>2, Appended
<1>3. ASSUME NEW row, NEW n \in DOMAIN rows, rows[n].status = "intended",
             ~(rows[n].expires <= apiNow), rows' = [rows EXCEPT ![n] = row]
      PROVE  rows'[i] = rows[i]
  <2>1. i # n
    BY <1>3 DEF Closed
  <2> QED
    BY <1>0, <1>3, <2>1, Replaced
<1> QED
  BY <1>1, <1>2, <1>3 DEF RowsChange

(* A submitted or expired intention keeps its terms, even against an update    *)
(* that was received before and slept in between (intention-service.ts reads   *)
(* the row after the fault's delay, not before).                               *)
THEOREM ClosedTermsKept == ApiSpec => ClosedKeepTerms
<1> DEFINE Same(i) == rows'[i].input = rows[i].input /\ rows'[i].expires = rows[i].expires
           Keeps == \A i \in DOMAIN rows : Closed(i) => Same(i)
<1>1. ApiInv /\ [ApiNext]_apiVars => [Keeps]_apiVars
  <2> SUFFICES ASSUME ApiInv, ApiNext PROVE Keeps
    OBVIOUS
  <2>0. ApiShapes /\ FaultsSane /\ ApiTypeOK
    BY DEF ApiInv
  <2>1. ASSUME NEW c \in Calls, NEW call, CallStep(c, call)
        PROVE  Keeps
    BY <2>0, <2>1, CallStepKeepsClosed
  <2>2. ASSUME NEW c \in Calls, ReceiveAny(c)
        PROVE  Keeps
    BY <2>1, <2>2, ReceiveCallStep DEF ReceiveAny
  <2>3. ASSUME NEW c \in Calls, Wake(c)
        PROVE  Keeps
    BY <2>1, <2>3, WakeCallStep
  <2>4. ASSUME NEW i \in DOMAIN rows, SubmitIntention(i)
        PROVE  Keeps
    BY <2>4, SubmitIntentionStep
  <2>5. CASE UNCHANGED rows
    BY <2>5
  <2> QED
    BY <2>2, <2>3, <2>4, <2>5
       DEF ApiNext, CreateFault, CancelFault, ApiTick, ApiCrash
<1> QED
  BY <1>1, ApiInvariance, PTL DEF ApiSpec, ClosedKeepTerms
=============================================================================

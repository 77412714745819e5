------------------------------ MODULE Scheduler ------------------------------
(* The durable scenario timeline: scheduled actions are claimed under a lease, *)
(* executed in order, and turned into callback events, deliveries and attempts *)
(* with retries.  core/scheduler.ts, core/scheduler-runner.ts,                 *)
(* core/webhook-delivery.ts, core/clock.ts and the delivery and clock routes   *)
(* of apps/server.                                                             *)
(*                                                                             *)
(* Tables are variables; every SQLite commit is a step.  Between two awaits    *)
(* JavaScript runs to completion, so a process yields to the others of its     *)
(* node only when idle or while a request is on the wire; a crash may fall     *)
(* between any two commits and loses `procs`, nothing else.                    *)
EXTENDS AuthoredTimelines, FiniteSetsExt, Functions

CONSTANTS
  Payments,       \* transactions a checkout may submit
  Timelines,      \* compiled scenario timelines, sequences of steps
  Workers,        \* scheduler loops: one, or one per accidental replica
  Requests,       \* handlers of payment operations, running beside the loop
  BatchSize,      \* rows one tick claims (25)
  LeaseTime,      \* lease_expires_at - now at the claim (30 s)
  RetryInterval,  \* retryPolicy.intervalsMs
  MaxAttempts,    \* retryPolicy.maxAttempts
  ClockMode,      \* "real" or "manual"
  Horizon,        \* bound: later instants are not told apart
  MaxCrashes,     \* bound on crashes
  MaxReplays      \* bound on replayed deliveries

Procs == Workers \cup Requests

ASSUME ProcAssumption == Workers \cap Requests = {} /\ Workers # {}
ASSUME BoundAssumption ==
  /\ {BatchSize, LeaseTime, RetryInterval, MaxAttempts} \subseteq Nat \ {0}
  /\ {Horizon, MaxCrashes, MaxReplays} \subseteq Nat
  /\ ClockMode \in {"real", "manual"}

ActionTypes == AuthoredTypes \cup {"retry"}
ASSUME TimelineAssumption == \A timeline \in Timelines : Timeline(timeline)

VARIABLES
  now,        \* the instance clock
  txns,       \* state and notification URL of each transaction
  snapshots,  \* table transaction_snapshots: rows written by timeline steps
  jobs,       \* table scheduled_actions, in insertion order
  events,     \* table callback_events
  deliveries, \* table webhook_deliveries
  attempts,   \* table webhook_attempts
  procs,      \* memory of each process; lost in a crash
  crashes     \* number of crashes so far

tables == <<txns, snapshots, jobs, events, deliveries, attempts>>
vars == <<now, tables, procs, crashes>>

IdleProc == [pc |-> "idle", batch |-> << >>, event |-> 0, delivery |-> 0,
             number |-> 0, decision |-> "none"]

Init ==
  /\ now = 0
  /\ txns = [p \in Payments |-> [state |-> "none", url |-> FALSE]]
  /\ snapshots = {}
  /\ jobs = << >>
  /\ events = << >>
  /\ deliveries = << >>
  /\ attempts = << >>
  /\ procs = [p \in Procs |-> IdleProc]
  /\ crashes = 0

-----------------------------------------------------------------------------
(* Who may take a step. *)

Yields(p) == procs[p].pc \in {"idle", "await"}
Quiet == \A p \in Procs : Yields(p)

(* Two workers are two nodes; everything else shares one event loop.           *)
CanRun(p) == \A q \in Procs \ {p} : Yields(q) \/ {p, q} \subseteq Workers

Min2(a, b) == IF a < b THEN a ELSE b
At(delay) == Min2(now + delay, Horizon)

-----------------------------------------------------------------------------
(* Checkout submission: the transaction and its compiled timeline, one commit. *)

JobOfStep(p, timeline, n) ==
  [payment |-> p, step |-> n, type |-> timeline[n].type, to |-> timeline[n].to,
   source |-> timeline[n].source, delivery |-> 0, due |-> At(timeline[n].offset),
   status |-> "scheduled", lease |-> 0, runs |-> 0]

Submit(p, timeline, url) ==
  /\ Quiet
  /\ txns[p].state = "none"
  /\ txns' = [txns EXCEPT ![p] = [state |-> "processing", url |-> url]]
  /\ jobs' = jobs \o [n \in DOMAIN timeline |-> JobOfStep(p, timeline, n)]
  /\ UNCHANGED <<now, snapshots, events, deliveries, attempts, procs, crashes>>

-----------------------------------------------------------------------------
(* Claiming. *)

(* Mutant of DueJobs: rows that nobody has come first, expired ones after. *)
DueJobsFreshFirst ==
  LET fresh == {j \in DOMAIN jobs : jobs[j].status = "scheduled" /\ jobs[j].due <= now}
  IN  IF fresh # {} THEN fresh
      ELSE {j \in DOMAIN jobs : jobs[j].status = "leased" /\ jobs[j].lease = 0}

DueJobs ==
  {j \in DOMAIN jobs : \/ jobs[j].status = "scheduled" /\ jobs[j].due <= now
                       \/ jobs[j].status = "leased" /\ jobs[j].lease = 0}

(* Mutant of Before: the subtraction of the step indexes is swapped. *)
BeforeSwapped(j, k) ==
  \/ jobs[j].due < jobs[k].due
  \/ jobs[j].due = jobs[k].due /\ jobs[j].step > jobs[k].step

Before(j, k) ==
  \/ jobs[j].due < jobs[k].due
  \/ jobs[j].due = jobs[k].due /\ jobs[j].step < jobs[k].step

(* The first BatchSize due rows by due_at and step_index.  The ids they are    *)
(* ordered by last are random: rows that tie come in any order.                *)
NextBatches ==
  LET size == Min2(BatchSize, Cardinality(DueJobs)) IN
  {batch \in [1 .. size -> DueJobs] :
     /\ \A m, n \in 1 .. size :
          m < n => batch[m] # batch[n] /\ ~Before(batch[n], batch[m])
     /\ \A j \in DueJobs \ Range(batch), n \in 1 .. size : ~Before(j, batch[n])}

(* Mutant of Claim: the rows are finished before they are executed. *)
ClaimFinishes(w) ==
  /\ CanRun(w)
  /\ procs[w].pc = "idle"
  /\ DueJobs # {}
  /\ \E batch \in NextBatches :
       /\ jobs' = [j \in DOMAIN jobs |->
            IF j \in Range(batch)
            THEN [jobs[j] EXCEPT !.status = "delivered"]
            ELSE jobs[j]]
       /\ procs' = [procs EXCEPT ![w] = [IdleProc EXCEPT !.pc = "execute", !.batch = batch]]
  /\ UNCHANGED <<now, txns, snapshots, events, deliveries, attempts, crashes>>

(* runSchedulerTick: one UPDATE leases the batch.  A tick that finds nothing   *)
(* due, or another one running, does nothing.                                  *)
Claim(w) ==
  /\ CanRun(w)
  /\ procs[w].pc = "idle"
  /\ DueJobs # {}
  /\ \E batch \in NextBatches :
       /\ jobs' = [j \in DOMAIN jobs |->
            IF j \in Range(batch)
            THEN [jobs[j] EXCEPT !.status = "leased", !.lease = LeaseTime]
            ELSE jobs[j]]
       /\ procs' = [procs EXCEPT ![w] = [IdleProc EXCEPT !.pc = "execute", !.batch = batch]]
  /\ UNCHANGED <<now, txns, snapshots, events, deliveries, attempts, crashes>>

-----------------------------------------------------------------------------
(* executeAction, by type.  The row was read at the claim and is not re-read. *)

Current(w) == Head(procs[w].batch)
Job(w) == jobs[Current(w)]
Executing(w, types) ==
  /\ CanRun(w)
  /\ procs[w].pc = "execute"
  /\ Job(w).type \in types
Goto(w, pc) == procs' = [procs EXCEPT ![w].pc = pc]
CountRun(w) == jobs' = [jobs EXCEPT ![Current(w)].runs = @ + 1]

SnapshotRow(w, state) ==
  [payment |-> Job(w).payment, step |-> Job(w).step, state |-> state]

(* What transitionTransaction and createNonCanonicalSnapshot do not throw on;  *)
(* both roll back when they throw.                                             *)
Applicable(w) ==
  /\ HasProjection(Job(w).to)
  /\ Job(w).type = "transition" => IsLegalTransition(txns[Job(w).payment].state, Job(w).to)

Transition(w) ==
  /\ Executing(w, {"transition"})
  /\ Applicable(w)
  /\ txns' = [txns EXCEPT ![Job(w).payment].state = Job(w).to]
  /\ snapshots' = snapshots \cup {SnapshotRow(w, Job(w).to)}
  /\ CountRun(w)
  /\ Goto(w, "mark")
  /\ UNCHANGED <<now, events, deliveries, attempts, crashes>>

(* What a node remembers after its process died and started again: nothing.    *)
(* clock_state keeps the time it was initialised with, and loadOrInitClock     *)
(* gives a restarted manual clock that time again.  (A lease is kept as the    *)
(* time that is left of it; one that ran out stays so.)                        *)
ClockAfterRestart == IF ClockMode = "manual" THEN 0 ELSE now
Restart(w) ==
  /\ procs' = [p \in Procs |-> IF p \in Requests \cup {w} THEN IdleProc ELSE procs[p]]
  /\ now' = ClockAfterRestart
  /\ jobs' = [j \in DOMAIN jobs |->
       [jobs[j] EXCEPT !.lease = IF @ = 0 THEN 0 ELSE @ + (now - now')]]

(* The exception leaves the tick; the rest of the batch stays leased.          *)
(* A route that ticked answers 500; the polling loop does not await its tick,  *)
(* and the unhandled rejection ends the process.                               *)
ThrowIllegal(w) ==
  /\ Executing(w, {"transition", "snapshot"})
  /\ ~Applicable(w)
  /\ \/ procs' = [procs EXCEPT ![w] = IdleProc] /\ UNCHANGED <<now, jobs>>
     \/ Restart(w)
  /\ UNCHANGED <<txns, snapshots, events, deliveries, attempts, crashes>>

Snapshot(w) ==
  /\ Executing(w, {"snapshot"})
  /\ Applicable(w)
  /\ snapshots' = snapshots \cup {SnapshotRow(w, Job(w).to)}
  /\ CountRun(w)
  /\ Goto(w, "mark")
  /\ UNCHANGED <<now, txns, events, deliveries, attempts, crashes>>

CallbackTypes == {"webhook", "repeat", "corrupt"}

(* findCallbackEventForScenarioAction: the event of the first delivery made by *)
(* the source action, if there is one.                                         *)
SourceDeliveries(w) ==
  {d \in DOMAIN deliveries :
     /\ deliveries[d].job # 0
     /\ jobs[deliveries[d].job].payment = Job(w).payment
     /\ jobs[deliveries[d].job].step = Job(w).source
     /\ jobs[deliveries[d].job].type # "retry"}
HasSource(w) == SourceDeliveries(w) # {}
SourceEvent(w) == deliveries[Min(SourceDeliveries(w))].event

(* webhook.omit, the types the executor has no case for, and callbacks without *)
(* a URL or without a source: only the status changes.  Browser actions write  *)
(* an event of module BrowserEvents.                                           *)
NothingToSend(w) ==
  /\ Executing(w, {"omit", "browser"} \cup CallbackTypes)
  /\ Job(w).type \in CallbackTypes =>
       \/ ~txns[Job(w).payment].url
       \/ Job(w).type = "repeat" /\ ~HasSource(w)
  /\ Goto(w, "mark")
  /\ UNCHANGED <<now, tables, crashes>>

SnapshotsOf(w) ==
  {s \in snapshots : s.payment = Job(w).payment /\ s.step = Job(w).source}

(* The body of a callback: the named snapshot if its row exists, else the      *)
(* transaction as it is now.                                                   *)
BodyStates(w) ==
  IF Job(w).type = "webhook" /\ SnapshotsOf(w) # {}
  THEN {s.state : s \in SnapshotsOf(w)}
  ELSE {txns[Job(w).payment].state}

EventOf(p, state, signature) == [payment |-> p, state |-> state, signature |-> signature]

MaterializeEvent(w) ==
  /\ Executing(w, {"webhook", "corrupt"})
  /\ txns[Job(w).payment].url
  /\ \E state \in BodyStates(w) :
       LET event ==
             IF Job(w).type = "webhook" THEN EventOf(Job(w).payment, state, "valid")
             ELSE IF HasSource(w) THEN [events[SourceEvent(w)] EXCEPT !.signature = "corrupt"]
             ELSE EventOf(Job(w).payment, state, "corrupt")
       IN  events' = Append(events, event)
  /\ procs' = [procs EXCEPT ![w].pc = "deliver", ![w].event = Len(events')]
  /\ UNCHANGED <<now, txns, snapshots, jobs, deliveries, attempts, crashes>>

RepeatEvent(w) ==
  /\ Executing(w, {"repeat"})
  /\ txns[Job(w).payment].url
  /\ HasSource(w)
  /\ procs' = [procs EXCEPT ![w].pc = "deliver", ![w].event = SourceEvent(w)]
  /\ UNCHANGED <<now, tables, crashes>>

AttemptsOf(d) == {n \in DOMAIN attempts : attempts[n].delivery = d}
NextNumber(d) == Cardinality(AttemptsOf(d)) + 1

NewDelivery(event, job, original) ==
  [event |-> event, job |-> job, original |-> original, status |-> "scheduled"]

(* createDelivery, then attemptDelivery up to its network request.             *)
CreateDelivery(p) ==
  /\ CanRun(p)
  /\ procs[p].pc = "deliver"
  /\ LET job == IF p \in Workers THEN Current(p) ELSE 0 IN
     /\ deliveries' = Append(deliveries, NewDelivery(procs[p].event, job, 0))
     /\ jobs' = IF job = 0 THEN jobs ELSE [jobs EXCEPT ![job].runs = @ + 1]
  /\ procs' = [procs EXCEPT ![p].pc = "await", ![p].delivery = Len(deliveries'),
                            ![p].number = 1]
  /\ UNCHANGED <<now, txns, snapshots, events, attempts, crashes>>

(* webhook.retry: attemptDelivery again, whatever the delivery's status.       *)
Retry(w) ==
  /\ Executing(w, {"retry"})
  /\ procs' = [procs EXCEPT ![w].pc = "await", ![w].delivery = Job(w).delivery,
                            ![w].number = NextNumber(Job(w).delivery)]
  /\ CountRun(w)
  /\ UNCHANGED <<now, txns, snapshots, events, deliveries, attempts, crashes>>

-----------------------------------------------------------------------------
(* attemptDelivery after the response: three commits. *)

Outcomes == {"accepted", "refused", "transient"}

(* decideRetry: 2xx, a final error or policy rejection, a retryable error.     *)
Decide(outcome, number) ==
  CASE outcome = "accepted"  -> "delivered"
    [] outcome = "refused"   -> "failed"
    [] outcome = "transient" -> IF number >= MaxAttempts THEN "exhausted" ELSE "retry_scheduled"

Respond(p, outcome) ==
  LET decision == Decide(outcome, procs[p].number) IN
  /\ CanRun(p)
  /\ procs[p].pc = "await"
  /\ attempts' = Append(attempts, [delivery |-> procs[p].delivery,
                                   number |-> procs[p].number, decision |-> decision])
  /\ procs' = [procs EXCEPT ![p].pc = "record", ![p].decision = decision]
  /\ UNCHANGED <<now, txns, snapshots, jobs, events, deliveries, crashes>>

(* Mutant of Finished: a request handler goes on as if it held a job. *)
FinishedMarking(p) == [procs[p] EXCEPT !.pc = "mark"]

(* After an attempt a worker marks its job; a request handler answers.         *)
Finished(p) == IF p \in Workers THEN [procs[p] EXCEPT !.pc = "mark"] ELSE IdleProc

RecordStatus(p) ==
  /\ CanRun(p)
  /\ procs[p].pc = "record"
  /\ deliveries' = [deliveries EXCEPT ![procs[p].delivery].status = procs[p].decision]
  /\ procs' = [procs EXCEPT ![p] = IF procs[p].decision = "retry_scheduled"
                                   THEN [procs[p] EXCEPT !.pc = "reschedule"]
                                   ELSE Finished(p)]
  /\ UNCHANGED <<now, txns, snapshots, jobs, events, attempts, crashes>>

RetryJob(d, delay) ==
  [payment |-> events[deliveries[d].event].payment, step |-> 0, type |-> "retry",
   to |-> "none", source |-> 0, delivery |-> d, due |-> At(delay),
   status |-> "scheduled", lease |-> 0, runs |-> 0]

(* Mutant of Reschedule: the retry row is not inserted. *)
RescheduleNothing(p) ==
  /\ CanRun(p)
  /\ procs[p].pc = "reschedule"
  /\ procs' = [procs EXCEPT ![p] = Finished(p)]
  /\ UNCHANGED <<now, tables, crashes>>

Reschedule(p) ==
  /\ CanRun(p)
  /\ procs[p].pc = "reschedule"
  /\ jobs' = Append(jobs, RetryJob(procs[p].delivery, RetryInterval))
  /\ procs' = [procs EXCEPT ![p] = Finished(p)]
  /\ UNCHANGED <<now, txns, snapshots, events, deliveries, attempts, crashes>>

AfterCurrent(w) ==
  IF Len(procs[w].batch) = 1 THEN IdleProc
  ELSE [IdleProc EXCEPT !.pc = "execute", !.batch = Tail(procs[w].batch)]

(* Mutant of Mark: the row keeps its lease instead of being finished. *)
MarkForgets(w) ==
  /\ CanRun(w)
  /\ procs[w].pc = "mark"
  /\ procs' = [procs EXCEPT ![w] = AfterCurrent(w)]
  /\ UNCHANGED <<now, tables, crashes>>

(* markActionStatus, and on to the next row of the batch.                      *)
Mark(w) ==
  /\ CanRun(w)
  /\ procs[w].pc = "mark"
  /\ jobs' = [jobs EXCEPT ![Current(w)].status = "delivered", ![Current(w)].lease = 0]
  /\ procs' = [procs EXCEPT ![w] = AfterCurrent(w)]
  /\ UNCHANGED <<now, txns, snapshots, events, deliveries, attempts, crashes>>

-----------------------------------------------------------------------------
(* Requests that run beside the loop. *)

(* A void; module PaymentOperations has its two commits apart.  The callback   *)
(* of its child is delivered by the request handler itself, not through a      *)
(* scheduled action.                                                           *)
VoidPayment(r, p) ==
  /\ CanRun(r)
  /\ procs[r].pc = "idle"
  /\ txns[p].state \in {"authorized", "succeeded"}
  /\ txns' = [txns EXCEPT ![p].state = "voided"]
  /\ IF txns[p].url
     THEN /\ events' = Append(events, EventOf(p, "void_child", "valid"))
          /\ procs' = [procs EXCEPT ![r].pc = "deliver", ![r].event = Len(events')]
     ELSE UNCHANGED <<events, procs>>
  /\ UNCHANGED <<now, snapshots, jobs, deliveries, attempts, crashes>>

Replays == {d \in DOMAIN deliveries : deliveries[d].original # 0}

(* The replay route inserts a delivery; only a delayed one gets a job.         *)
Replay(d, delay) ==
  /\ Quiet
  /\ Cardinality(Replays) < MaxReplays
  /\ deliveries' = Append(deliveries, NewDelivery(deliveries[d].event, 0, d))
  /\ jobs' = IF delay = 0 THEN jobs
             ELSE Append(jobs, [RetryJob(d, delay) EXCEPT !.delivery = Len(deliveries')])
  /\ UNCHANGED <<now, txns, snapshots, events, attempts, procs, crashes>>

(* The cancel route refuses every status but "scheduled" with 409.             *)
Cancel(d) ==
  /\ Quiet
  /\ deliveries[d].status = "scheduled"
  /\ deliveries' = [deliveries EXCEPT ![d].status = "cancelled"]
  /\ UNCHANGED <<now, txns, snapshots, jobs, events, attempts, procs, crashes>>

-----------------------------------------------------------------------------
(* Time and crashes. *)

(* Real time passes, or the control plane advances the manual clock.           *)
Tick ==
  /\ Quiet
  /\ now < Horizon \/ \E j \in DOMAIN jobs : jobs[j].lease > 0
  /\ now' = Min2(now + 1, Horizon)
  /\ jobs' = [j \in DOMAIN jobs |->
       [jobs[j] EXCEPT !.lease = IF @ = 0 THEN 0 ELSE @ - 1]]
  /\ UNCHANGED <<txns, snapshots, events, deliveries, attempts, procs, crashes>>

(* A worker's node dies and comes back with empty memory.                      *)
Crash(w) ==
  /\ crashes < MaxCrashes
  /\ crashes' = crashes + 1
  /\ Restart(w)
  /\ UNCHANGED <<txns, snapshots, events, deliveries, attempts>>

-----------------------------------------------------------------------------
WorkerStep(w) ==
  \/ Claim(w) \/ Transition(w) \/ ThrowIllegal(w) \/ Snapshot(w)
  \/ NothingToSend(w) \/ MaterializeEvent(w) \/ RepeatEvent(w) \/ Retry(w) \/ Mark(w)

DeliveryStep(p) ==
  \/ CreateDelivery(p) \/ RecordStatus(p) \/ Reschedule(p)
  \/ \E outcome \in Outcomes : Respond(p, outcome)

Next ==
  \/ \E p \in Payments, timeline \in Timelines, url \in BOOLEAN : Submit(p, timeline, url)
  \/ \E w \in Workers : WorkerStep(w) \/ Crash(w)
  \/ \E p \in Procs : DeliveryStep(p)
  \/ \E r \in Requests, p \in Payments : VoidPayment(r, p)
  \/ \E d \in DOMAIN deliveries, delay \in {0, RetryInterval} : Replay(d, delay)
  \/ \E d \in DOMAIN deliveries : Cancel(d)
  \/ Tick

Spec == Init /\ [][Next]_vars

(* The loop polls every second, the operating system runs it, a request ends   *)
(* by its total timeout, and time passes.                                      *)
Fairness ==
  /\ \A w \in Workers : WF_vars(WorkerStep(w))
  /\ \A p \in Procs : WF_vars(DeliveryStep(p))
  /\ WF_vars(Tick)

FairSpec == Spec /\ Fairness

-----------------------------------------------------------------------------
(* Properties. *)

PCs == {"idle", "execute", "deliver", "await", "record", "reschedule", "mark"}
Decisions == {"delivered", "failed", "exhausted", "retry_scheduled"}

(* The tables' columns that the model keeps.                                   *)
ScheduledActionRow ==
  [payment : Payments, step : Nat, type : ActionTypes, to : InternalStates \cup {"none"},
   source : Nat, delivery : Nat, due : 0 .. Horizon, lease : 0 .. LeaseTime + Horizon,
   status : {"scheduled", "leased", "delivered"}, runs : Nat]
CallbackEventRow ==
  [payment : Payments, state : InternalStates \cup {"void_child"}, signature : {"valid", "corrupt"}]
DeliveryRow ==
  [event : DOMAIN events, job : {0} \cup DOMAIN jobs, original : {0} \cup DOMAIN deliveries,
   status : {"scheduled", "cancelled"} \cup Decisions]
AttemptRow == [delivery : DOMAIN deliveries, number : Nat, decision : Decisions]

(* Rows refer to rows that exist, and a running process holds what its program *)
(* point needs.                                                                *)
TypeOK ==
  /\ now \in 0 .. Horizon
  /\ \A j \in DOMAIN jobs :
       /\ jobs[j] \in ScheduledActionRow
       /\ jobs[j].type = "retry" => jobs[j].delivery \in DOMAIN deliveries
  /\ \A n \in DOMAIN events : events[n] \in CallbackEventRow
  /\ \A d \in DOMAIN deliveries : deliveries[d] \in DeliveryRow
  /\ \A n \in DOMAIN attempts : attempts[n] \in AttemptRow
  /\ \A p \in Procs :
       /\ procs[p].pc \in PCs
       /\ procs[p].pc = "deliver" => procs[p].event \in DOMAIN events
       /\ procs[p].pc \in {"await", "record", "reschedule"} =>
            procs[p].delivery \in DOMAIN deliveries
       /\ p \in Workers => (procs[p].pc = "idle" <=> procs[p].batch = << >>)
       /\ p \in Requests => procs[p].pc \notin {"execute", "mark"}

TimelineJobs == {j \in DOMAIN jobs : jobs[j].type # "retry"}
Done(j) == jobs[j].status = "delivered"

(* Without a crash every action takes effect at most once: neither polling,    *)
(* nor a wake-up during a slow request, nor a lease that expires under the     *)
(* running tick executes it again.  A crash costs one repetition at most.      *)
EffectsBounded == \A j \in DOMAIN jobs : jobs[j].runs <= 1 + crashes

Precedes(j, k) ==
  /\ jobs[j].payment = jobs[k].payment
  /\ \/ jobs[j].due < jobs[k].due
     \/ jobs[j].due = jobs[k].due /\ jobs[j].step < jobs[k].step

(* A payment's timeline is played in its order of due time and step: an action *)
(* has begun only when every earlier one is finished.                          *)
TimelineOrder ==
  \A j, k \in TimelineJobs :
    Precedes(j, k) /\ (jobs[k].runs > 0 \/ Done(k)) => Done(j)

(* transaction-service.ts, on IllegalTransitionError: authored transitions     *)
(* stay legal when they are executed, operations and retries in between        *)
(* notwithstanding.                                                            *)
TransitionsLegal ==
  \A w \in Workers :
    procs[w].pc = "execute" /\ Job(w).type = "transition"
      => IsLegalTransition(txns[Job(w).payment].state, Job(w).to)

(* What the two properties ask of the timelines themselves.  Every built-in    *)
(* one is lawful; the compiler does not check it of others.                    *)
LawfulTimelines == \A timeline \in Timelines : Lawful(timeline, Requests # {})

(* A delivery is tried at most maxAttempts times, and its attempts are         *)
(* numbered 1, 2, 3 without gap or repetition.                                 *)
AttemptsBounded ==
  \A d \in DOMAIN deliveries :
    /\ Cardinality(AttemptsOf(d)) <= MaxAttempts
    /\ {attempts[n].number : n \in AttemptsOf(d)} = 1 .. Cardinality(AttemptsOf(d))

Touching(d) == {p \in Procs : procs[p].delivery = d /\ procs[p].pc # "idle"}
LastDecision(d) == attempts[Max(AttemptsOf(d))].decision

(* At rest a delivery's status is the decision of its last attempt.            *)
StatusIsLastDecision ==
  \A d \in DOMAIN deliveries :
    Touching(d) = {} /\ AttemptsOf(d) # {} => deliveries[d].status = LastDecision(d)

PendingRetries(d) ==
  {j \in DOMAIN jobs : jobs[j].type = "retry" /\ jobs[j].delivery = d /\ ~Done(j)}

(* A delivery that says a retry is scheduled has exactly one row that will     *)
(* perform it: none would lose the callback, two would double it.              *)
RetryBacked ==
  \A d \in DOMAIN deliveries :
    Touching(d) = {} =>
      /\ deliveries[d].status = "retry_scheduled" => Cardinality(PendingRetries(d)) = 1
      /\ Cardinality(PendingRetries(d)) <= 1

(* webhook-delivery.ts: the attempt, the status and the retry are commits of   *)
(* their own; at rest they agree, however a replay or a cancel fell between    *)
(* them, and the attempts are as many as are allowed.                          *)
DeliveriesSettled == AttemptsBounded /\ StatusIsLastDecision /\ RetryBacked

(* A callback action is finished only after an attempt of its delivery was     *)
(* recorded, whenever the process died: a crash repeats callbacks and never    *)
(* drops one.                                                                  *)
DeliveredMeansAttempted ==
  \A j \in TimelineJobs :
    Done(j) /\ jobs[j].type = "webhook" /\ txns[jobs[j].payment].url
      => \E d \in DOMAIN deliveries : deliveries[d].job = j /\ AttemptsOf(d) # {}

(* scheduler.ts: what a crash costs. It repeats an action once and drops no    *)
(* callback.                                                                   *)
CrashRepeatsOnce == EffectsBounded /\ DeliveredMeansAttempted

Holds(w, j) == j \in Range(procs[w].batch)

ComesBefore(w, j, k) ==
  \E m, n \in DOMAIN procs[w].batch : m < n /\ procs[w].batch[m] = j /\ procs[w].batch[n] = k

(* scheduler.ts: what a crash costs in order.  The rows of a batch that was    *)
(* lost stay leased, and later actions of the payment may overtake them, but   *)
(* only for as long as that lease runs: whoever takes a later action after it  *)
(* takes the abandoned ones with it and plays them first, also when a manual   *)
(* clock has started over and the abandoned ones are no longer due.            *)
OvertakenWhileLeased ==
  [][\A w \in Workers : \A j, k \in TimelineJobs :
       Precedes(j, k) /\ ~Holds(w, k) /\ Holds(w, k)' =>
         Done(j) \/ jobs[j].lease > 0 \/ ComesBefore(w, j, k)']_vars

(* Every action that was scheduled is eventually finished. *)
JobsComplete(n) ==
  \A j \in 1 .. n : (j \in DOMAIN jobs) ~> (j \in DOMAIN jobs /\ Done(j))

-----------------------------------------------------------------------------
(* What the build specification says and the code does not do. *)

(* Section 15.1: "Scheduled callbacks survive graceful and ungraceful          *)
(* restarts."                                                                  *)
CallbacksSurvive(n) ==
  \A j \in 1 .. n :
    (j \in DOMAIN jobs /\ jobs[j].type = "webhook" /\ txns[jobs[j].payment].url)
      ~> (\E d \in DOMAIN deliveries : deliveries[d].job = j)

(* Section 15.5: "ManualClock: persisted logical time", "Logical time never    *)
(* moves backward".                                                            *)
ClockForward == [][now' >= now]_vars

(* Section 16.1, POST /deliveries/:id/replay: "Replay now or at a supplied     *)
(* time."  A replay is attempted, unless it is cancelled.                      *)
ReplaysAttempted(n) ==
  \A d \in 1 .. n :
    (d \in Replays) ~>
      /\ d \in DOMAIN deliveries
      /\ AttemptsOf(d) # {} \/ deliveries[d].status = "cancelled"
=============================================================================

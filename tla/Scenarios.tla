------------------------------ MODULE Scenarios ------------------------------
(* The built-in scenario timelines and the compiler that turns a timeline into *)
(* due actions: packages/scenario-engine, with the duration strings of         *)
(* packages/contracts.  Display texts, tags and messages are left out.         *)
EXTENDS PaymentStates, Sequences, FiniteSets, SequencesExt

-----------------------------------------------------------------------------
(* Durations: an amount and a unit; `seeded` is resolved by the run's draw,    *)
(* and `garbled` stands for any string the pattern does not match.             *)

UnitToMs == [ms |-> 1, s |-> 1000, m |-> 60000, h |-> 3600000]
Duration(amount, unit) == [amount |-> amount, unit |-> unit]
Immediately == Duration(0, "ms")
Seeded == Duration(0, "seeded")
Garbled == Duration(5, "garbled")

Parses(d) == d.unit \in DOMAIN UnitToMs
ParseDuration(d) == d.amount * UnitToMs[d.unit]

-----------------------------------------------------------------------------
(* Timeline actions.  `arg` is a state or a browser status, `source` the id of *)
(* another action of the timeline.                                             *)

ActionTypes ==
  {"transaction.transition", "transaction.snapshot", "browser.redirect",
   "browser.post_message", "browser.show_result", "three_ds.open",
   "three_ds.complete", "webhook.transaction", "webhook.token", "webhook.repeat",
   "webhook.omit", "webhook.corrupt_hmac", "webhook.mutate_payload", "clock.note"}
BrowserStatuses == {"success", "failed", "pending", "cancelled", "expired"}

TimelineStep(id, after, action, arg, source) ==
  [id |-> id, after |-> after, action |-> action, arg |-> arg, source |-> source]

Transition(id, after, to) == TimelineStep(id, after, "transaction.transition", to, "none")
Snapshot(id, after, state) == TimelineStep(id, after, "transaction.snapshot", state, "none")
Redirect(id, after, status) == TimelineStep(id, after, "browser.redirect", status, "none")
ShowResult(id, after, status) == TimelineStep(id, after, "browser.show_result", status, "none")
ThreeDSOpen(id) == TimelineStep(id, Immediately, "three_ds.open", "none", "none")
Webhook(id, after, snapshot) == TimelineStep(id, after, "webhook.transaction", "none", snapshot)
Repeat(id, after, source) == TimelineStep(id, after, "webhook.repeat", "none", source)
CorruptHmac(id, after, source) == TimelineStep(id, after, "webhook.corrupt_hmac", "none", source)
Omit(id, after) == TimelineStep(id, after, "webhook.omit", "none", "none")

(* What scenarioDefinitionSchema lets through.  The metadata it does not look  *)
(* into: a range whose ends are no integers is refused like an inverted one.   *)
TimelineSteps ==
  [id : STRING, after : [amount : Nat, unit : STRING], action : ActionTypes,
   arg : STRING, source : STRING]
Definition(def) ==
  /\ def.timeline \in Seq(TimelineSteps)
  /\ def.range \in Int \X Int
  /\ \A n \in DOMAIN def.timeline :
       def.timeline[n].action \in {"transaction.transition", "transaction.snapshot"} =>
         def.timeline[n].arg \in InternalStates

(* A definition: `range` is metadata.seededRangeMs, `extension` is             *)
(* metadata.childOperation or metadata.threeDsOutcome.                         *)
Scenario(id, timeline) ==
  [id |-> id, timeline |-> timeline, range |-> <<1000, 120000>>, extension |-> "none"]

-----------------------------------------------------------------------------
(* The built-in scenarios, in the order of the source. *)

Soon == Duration(100, "ms")
In5s == Duration(5, "s")
In2m == Duration(2, "m")

SuccessTimeline ==
  <<Transition("transition", Immediately, "succeeded"),
    Webhook("webhook", Immediately, "current"),
    Redirect("redirect", Soon, "success")>>

SuccessImmediate == Scenario("success-immediate", SuccessTimeline)

DeclineImmediate ==
  Scenario("decline-immediate",
    <<Transition("transition", Immediately, "failed"),
      Webhook("webhook", Immediately, "current"),
      Redirect("redirect", Soon, "failed")>>)

SuccessDelayed2m ==
  Scenario("success-delayed-2m",
    <<Transition("pending-transition", Immediately, "pending"),
      Redirect("pending-redirect", Immediately, "pending"),
      Transition("success-transition", In2m, "succeeded"),
      Webhook("success-webhook", In2m, "current")>>)

DeclineDelayed2m ==
  Scenario("decline-delayed-2m",
    <<Transition("pending-transition", Immediately, "pending"),
      Redirect("pending-redirect", Immediately, "pending"),
      Transition("failed-transition", In2m, "failed"),
      Webhook("failed-webhook", In2m, "current")>>)

PendingForever ==
  Scenario("pending-forever",
    <<Transition("transition", Immediately, "pending"),
      ShowResult("result", Immediately, "pending")>>)

SuccessNoWebhook ==
  Scenario("success-no-webhook",
    <<Transition("transition", Immediately, "succeeded"),
      Omit("omit", Immediately),
      Redirect("redirect", Soon, "success")>>)

SuccessDuplicate3 ==
  Scenario("success-duplicate-3",
    SuccessTimeline \o <<Repeat("duplicate-1", In5s, "webhook"),
                         Repeat("duplicate-2", Duration(30, "s"), "webhook")>>)

SuccessInvalidHmac ==
  Scenario("success-invalid-hmac",
    <<Transition("transition", Immediately, "succeeded"),
      CorruptHmac("webhook", Immediately, "transition"),
      Redirect("redirect", Soon, "success")>>)

RedirectBeforeWebhook ==
  Scenario("redirect-before-webhook",
    <<Transition("transition", Immediately, "succeeded"),
      Redirect("redirect", Immediately, "success"),
      Webhook("webhook", In5s, "current")>>)

WebhookBeforeRedirect ==
  Scenario("webhook-before-redirect",
    <<Transition("transition", Immediately, "succeeded"),
      Webhook("webhook", Immediately, "current"),
      Redirect("redirect", In5s, "success")>>)

ThreeDSSuccess ==
  [Scenario("three-ds-success", <<ThreeDSOpen("open-challenge")>>)
     EXCEPT !.extension = "three_ds"]

ThreeDSFailure ==
  [Scenario("three-ds-failure", <<ThreeDSOpen("open-challenge")>>)
     EXCEPT !.extension = "three_ds"]

SuccessPartialRefund ==
  [Scenario("success-partial-refund", SuccessTimeline) EXCEPT !.extension = "child"]

SuccessThenVoid ==
  [Scenario("success-then-void", SuccessTimeline) EXCEPT !.extension = "child"]

(* Mutant of OutOfOrderRegression: the stale failure is a transition. *)
OutOfOrderTransition ==
  Scenario("out-of-order-regression",
    SuccessTimeline \o <<Transition("stale-snapshot", In5s, "failed"),
                         Webhook("stale-webhook", In5s, "stale-snapshot")>>)

OutOfOrderRegression ==
  Scenario("out-of-order-regression",
    SuccessTimeline \o <<Snapshot("stale-snapshot", In5s, "failed"),
                         Webhook("stale-webhook", In5s, "stale-snapshot")>>)

RandomDelaySuccess ==
  Scenario("random-delay-success",
    <<Transition("pending-transition", Immediately, "pending"),
      ShowResult("pending-result", Immediately, "pending"),
      Transition("success-transition", Seeded, "succeeded"),
      Webhook("success-webhook", Seeded, "current")>>)

BuiltInScenarios ==
  {SuccessImmediate, DeclineImmediate, SuccessDelayed2m, DeclineDelayed2m,
   PendingForever, SuccessNoWebhook, SuccessDuplicate3, SuccessInvalidHmac,
   RedirectBeforeWebhook, WebhookBeforeRedirect, ThreeDSSuccess, ThreeDSFailure,
   SuccessPartialRefund, SuccessThenVoid, OutOfOrderRegression, RandomDelaySuccess}

IdsOfBuiltIns == {def.id : def \in BuiltInScenarios}

-----------------------------------------------------------------------------
(* Structural validation and compilation. *)

IdsOf(timeline) == {timeline[n].id : n \in DOMAIN timeline}

(* The steps whose `source` must be the id of a step of the timeline, wherever *)
(* in it that step stands.                                                     *)
Refers(step) ==
  \/ step.action \in {"webhook.repeat", "webhook.corrupt_hmac", "webhook.mutate_payload"}
  \/ step.action = "webhook.transaction" /\ step.source # "current"

ValidStructure(def) ==
  /\ Cardinality(IdsOf(def.timeline)) = Len(def.timeline)
  /\ \A n \in DOMAIN def.timeline :
       Refers(def.timeline[n]) => def.timeline[n].source \in IdsOf(def.timeline)

(* The generator: the run's successive draws, each a point of a [0, 1) that is *)
(* cut into Grain parts.  The seed, and so the sequence, is a function of the  *)
(* intention and the scenario revision.                                        *)
CONSTANT Grain
ASSUME GrainAssumption == Grain \in Nat \ {0}
Draws == [1 .. 2 -> 0 .. Grain - 1]

ValidRange(range) == range[1] <= range[2]

NextIntInRange(draw, range) ==
  range[1] + (draw * (range[2] - range[1] + 1)) \div Grain

IsSeeded(step) == step.after = Seeded

(* Mutant of OffsetMs: every seeded step draws again. *)
OffsetMsDrawnAnew(def, draws, n) ==
  LET step == def.timeline[n]
      earlier == {k \in 1 .. n - 1 : IsSeeded(def.timeline[k])}
  IN  IF IsSeeded(step)
      THEN NextIntInRange(draws[IF earlier = {} THEN 1 ELSE 2], def.range)
      ELSE ParseDuration(step.after)

(* All seeded steps of a run share its first draw.                             *)
OffsetMs(def, draws, n) ==
  IF IsSeeded(def.timeline[n])
  THEN NextIntInRange(draws[1], def.range)
  ELSE ParseDuration(def.timeline[n].after)

Compiles(def) ==
  /\ ValidStructure(def)
  /\ \A n \in DOMAIN def.timeline :
       IF IsSeeded(def.timeline[n]) THEN ValidRange(def.range)
                                    ELSE Parses(def.timeline[n].after)

(* compileScenario: the actions of a run with their due times, counted from    *)
(* the submission.                                                             *)
CompileScenario(def, draws) ==
  [n \in DOMAIN def.timeline |->
     [step |-> def.timeline[n], due |-> OffsetMs(def, draws, n)]]

(* activateScenarioForIntention stores them as rows, and executeAction has one *)
(* case for each of these kinds; to the rest it does nothing.                  *)
KindOf(action) ==
  CASE action = "transaction.transition" -> "transition"
    [] action = "transaction.snapshot" -> "snapshot"
    [] action \in {"browser.redirect", "browser.show_result", "three_ds.open"} -> "browser"
    [] action = "webhook.transaction" -> "webhook"
    [] action = "webhook.repeat" -> "repeat"
    [] action = "webhook.corrupt_hmac" -> "corrupt"
    [] OTHER -> "omit"
ScheduledRows(def, draws) ==
  [n \in DOMAIN def.timeline |->
     LET step == def.timeline[n]
         kind == KindOf(step.action)
     IN  [type |-> kind,
          to |-> IF kind \in {"transition", "snapshot"} THEN step.arg ELSE "none",
          source |-> IF Refers(step)
                     THEN CHOOSE k \in DOMAIN def.timeline : def.timeline[k].id = step.source
                     ELSE 0,
          offset |-> OffsetMs(def, draws, n)]]
=============================================================================

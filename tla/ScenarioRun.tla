----------------------------- MODULE ScenarioRun -----------------------------
(* One scenario from its definition to its last action: compiled at the        *)
(* checkout submission, then played by the executor of core/scheduler.ts with  *)
(* nothing going wrong.  What can go wrong there is module Scheduler; this     *)
(* module is about what the authored timelines and the compiler make it do.    *)
EXTENDS Scenarios

CONSTANT ScenarioInputs  \* the definitions to run
ASSUME InputsAssumption == \A def \in ScenarioInputs : Definition(def)

VARIABLES
  scenario,   \* the definition
  draws,      \* what the run's generator will draw
  plan,       \* the compiled actions
  phase,      \* "submitted", "rejected", "playing", "halted"
  played,     \* indexes of the actions played, in order
  state,      \* the transaction's state
  snaps,      \* non-canonical and canonical snapshot rows: source action, state
  log         \* callbacks sent and pages shown, in order

runVars == <<scenario, draws, plan, phase, played, state, snaps, log>>

RunInit ==
  /\ scenario \in ScenarioInputs
  /\ draws \in Draws
  /\ plan = << >>
  /\ phase = "submitted"
  /\ played = << >>
  /\ state = "processing"
  /\ snaps = {}
  /\ log = << >>

(* The submission compiles; an error rolls the submission back.                *)
Compile ==
  /\ phase = "submitted"
  /\ IF Compiles(scenario)
     THEN /\ plan' = CompileScenario(scenario, draws)
          /\ phase' = "playing"
     ELSE /\ phase' = "rejected"
          /\ UNCHANGED plan
  /\ UNCHANGED <<scenario, draws, played, state, snaps, log>>

-----------------------------------------------------------------------------
(* The executor. *)

PlaysBefore(n, k) ==
  \/ plan[n].due < plan[k].due
  \/ plan[n].due = plan[k].due /\ n < k

Unplayed == DOMAIN plan \ Range(played)
IsNext(n) == n \in Unplayed /\ \A k \in Unplayed \ {n} : PlaysBefore(n, k)

Step(n) == plan[n].step
Plays(n, actions) ==
  /\ phase = "playing"
  /\ IsNext(n)
  /\ Step(n).action \in actions
  /\ played' = Append(played, n)

Callbacks == {i \in DOMAIN log : log[i].kind = "callback"}
CallbackEntry(n, body, signature, event) ==
  [kind |-> "callback", action |-> Step(n).id, shows |-> body, signature |-> signature,
   event |-> event, state |-> state]
PageEntry(n) ==
  [kind |-> "page", action |-> Step(n).id, shows |-> Step(n).arg, signature |-> "none",
   event |-> 0, state |-> state]

Applies(n) ==
  /\ HasProjection(Step(n).arg)
  /\ Step(n).action = "transaction.transition" => IsLegalTransition(state, Step(n).arg)

PlayTransition(n) ==
  /\ Plays(n, {"transaction.transition"})
  /\ Applies(n)
  /\ state' = Step(n).arg
  /\ snaps' = snaps \cup {[source |-> Step(n).id, state |-> state']}
  /\ UNCHANGED <<scenario, draws, plan, phase, log>>

PlaySnapshot(n) ==
  /\ Plays(n, {"transaction.snapshot"})
  /\ Applies(n)
  /\ snaps' = snaps \cup {[source |-> Step(n).id, state |-> Step(n).arg]}
  /\ UNCHANGED <<scenario, draws, plan, phase, state, log>>

(* An illegal transition, or a state that projects to no payload, throws.      *)
PlayThrows(n) ==
  /\ Plays(n, {"transaction.transition", "transaction.snapshot"})
  /\ ~Applies(n)
  /\ phase' = "halted"
  /\ UNCHANGED <<scenario, draws, plan, state, snaps, log>>

BodyOf(n) ==
  IF \E s \in snaps : s.source = Step(n).source
  THEN (CHOOSE s \in snaps : s.source = Step(n).source).state
  ELSE state

PlayWebhook(n) ==
  /\ Plays(n, {"webhook.transaction"})
  /\ log' = Append(log, CallbackEntry(n, BodyOf(n), "valid", Len(log) + 1))
  /\ UNCHANGED <<scenario, draws, plan, phase, state, snaps>>

(* The event of the callback the source action sent, if it sent one.           *)
SourcesOf(n) == {i \in Callbacks : log[i].action = Step(n).source}
SourceOf(n) == log[Min(SourcesOf(n))]

(* Mutant of PlayRepeat: the repeated callback is built from the transaction   *)
(* as it is now. *)
PlayRepeatFresh(n) ==
  /\ Plays(n, {"webhook.repeat"})
  /\ log' = IF SourcesOf(n) = {} THEN log
            ELSE Append(log, CallbackEntry(n, state, SourceOf(n).signature, SourceOf(n).event))
  /\ UNCHANGED <<scenario, draws, plan, phase, state, snaps>>

PlayRepeat(n) ==
  /\ Plays(n, {"webhook.repeat"})
  /\ log' = IF SourcesOf(n) = {} THEN log
            ELSE Append(log, CallbackEntry(n, SourceOf(n).shows, SourceOf(n).signature,
                                           SourceOf(n).event))
  /\ UNCHANGED <<scenario, draws, plan, phase, state, snaps>>

PlayCorruptHmac(n) ==
  /\ Plays(n, {"webhook.corrupt_hmac"})
  /\ log' = Append(log, CallbackEntry(n, IF SourcesOf(n) = {} THEN state ELSE SourceOf(n).shows,
                                      "corrupt", Len(log) + 1))
  /\ UNCHANGED <<scenario, draws, plan, phase, state, snaps>>

PlayPage(n) ==
  /\ Plays(n, {"browser.redirect", "browser.show_result", "three_ds.open"})
  /\ log' = Append(log, PageEntry(n))
  /\ UNCHANGED <<scenario, draws, plan, phase, state, snaps>>

(* webhook.omit, and the actions of the vocabulary the executor has no case    *)
(* for: nothing but the row's status changes.                                  *)
PlayNothing(n) ==
  /\ Plays(n, {"webhook.omit", "webhook.token", "webhook.mutate_payload",
               "browser.post_message", "three_ds.complete", "clock.note"})
  /\ UNCHANGED <<scenario, draws, plan, phase, state, snaps, log>>

Play(n) ==
  \/ PlayTransition(n) \/ PlaySnapshot(n) \/ PlayThrows(n) \/ PlayWebhook(n)
  \/ PlayRepeat(n) \/ PlayCorruptHmac(n) \/ PlayPage(n) \/ PlayNothing(n)

RunNext == Compile \/ \E n \in DOMAIN plan : Play(n)
RunSpec == RunInit /\ [][RunNext]_runVars

-----------------------------------------------------------------------------
(* Properties. *)

RunTypeOK ==
  /\ phase \in {"submitted", "rejected", "playing", "halted"}
  /\ state \in InternalStates
  /\ Range(played) \subseteq DOMAIN plan /\ IsInjective(played)
  /\ \A i \in Callbacks : log[i].event \in 1 .. i

(* compiler.ts: all `seeded` actions of a run share one draw, so a transition  *)
(* and the callback that reports it fall due at the same instant.              *)
SeededTogether ==
  \A n, k \in DOMAIN plan :
    IsSeeded(Step(n)) /\ IsSeeded(Step(k)) => plan[n].due = plan[k].due

(* random.ts: a draw is in the inclusive range at both of its ends.            *)
DelayInRange ==
  \A n \in DOMAIN plan :
    IsSeeded(Step(n)) => plan[n].due \in scenario.range[1] .. scenario.range[2]

(* builtins.ts: actions authored at the same offset execute in the listed      *)
(* order, and an action never overtakes one with a shorter delay.              *)
AuthoredOrder ==
  \A i, j \in DOMAIN played :
    i < j =>
      LET a == Step(played[i]).after
          b == Step(played[j]).after
      IN  /\ a = b => played[i] < played[j]
          /\ Parses(a) /\ Parses(b) => ParseDuration(a) <= ParseDuration(b)

(* scheduler.ts, webhook.repeat: what is repeated is the source's event, byte  *)
(* for byte, whatever the transaction went through since.                      *)
RepeatsExact ==
  \A i, j \in Callbacks :
    log[i].event = log[j].event =>
      log[i].shows = log[j].shows /\ log[i].signature = log[j].signature

(* projection.ts: pending -> expired is legal and `expired` has no payload, so *)
(* a transaction that got there could be shown to nobody.  Whatever is         *)
(* authored, each callback has a body, and the run stops where the next one    *)
(* still could have.                                                           *)
AlwaysShowable ==
  HasProjection(state) /\ \A i \in Callbacks : HasProjection(log[i].shows)

IsBuiltIn == scenario \in BuiltInScenarios
Complete == phase = "playing" /\ Unplayed = {}

(* Every built-in scenario compiles, plays to its end without an illegal       *)
(* transition, and leaves the transaction out of processing; the 3-D Secure    *)
(* ones aside, whose challenge nothing follows.                                *)
BuiltInsPlay ==
  IsBuiltIn =>
    /\ phase \notin {"rejected", "halted"}
    /\ Complete /\ scenario.extension # "three_ds" => state # "processing"

(* A built-in page never tells the customer an outcome the transaction does    *)
(* not have at that moment.                                                    *)
StatusOfState(s) == CASE s = "succeeded" -> "success" [] s = "failed" -> "failed"
                      [] s = "pending" -> "pending" [] OTHER -> "none"
PagesTruthful ==
  IsBuiltIn => \A i \in DOMAIN log : log[i].kind = "page" => log[i].shows = StatusOfState(log[i].state)

(* In a built-in timeline every reference is to an action that was played      *)
(* before, so no repeat is silently dropped and no stale snapshot is replaced  *)
(* by the current state.                                                       *)
ReferencesPrecede ==
  IsBuiltIn => \A i \in DOMAIN played :
    Refers(Step(played[i])) => \E j \in 1 .. i - 1 : Step(played[j]).id = Step(played[i]).source

(* The two ordering scenarios do what their names say: on one the browser is   *)
(* told first, on the other the backend.                                       *)
FirstTold(kind) == log # << >> => log[1].kind = kind
NamesKeepOrder ==
  /\ scenario = RedirectBeforeWebhook => FirstTold("page")
  /\ scenario = WebhookBeforeRedirect => FirstTold("callback")

(* compiler.ts, random.ts, scheduler.ts: the rows of a run fall due in the     *)
(* authored range, together where they are seeded, and are played, each once,  *)
(* in the authored order.                                                      *)
TimelineAsAuthored == RunTypeOK /\ SeededTogether /\ DelayInRange /\ AuthoredOrder

(* scheduler.ts: every callback has a body, and a repeated one the body and    *)
(* the signature of the first, whatever happened in between.                   *)
CallbacksTruthful == RepeatsExact /\ AlwaysShowable

(* builtins.ts: every shipped scenario runs to its end, legally, refers to     *)
(* what has happened, tells the customer the truth, in the order it promises.  *)
BuiltInsSound == BuiltInsPlay /\ PagesTruthful /\ ReferencesPrecede /\ NamesKeepOrder
=============================================================================

------------------------- MODULE CheckoutActivation -------------------------
(* Intentions, one-shot expectations and the submission that turns an          *)
(* intention into a transaction with a scenario run.                           *)
(* core/checkout-service.ts, core/scenario-selection.ts, core/intention-       *)
(* service.ts, core/expectations-service.ts and -repository.ts of apps/server. *)
(*                                                                             *)
(* A submission makes up to two commits in one event-loop segment: it consumes *)
(* an expectation, then activates the scenario.  No other request runs between *)
(* them (every action needs Idle), but a crash can fall there, and so can the  *)
(* early return for a scenario that does not exist.                            *)
EXTENDS Integers, Sequences, FiniteSets

CONSTANTS
  Intentions, Expectations,  \* identities of rows
  Terms,                     \* amount, URLs and integration of an intention
  Refs, NoRef,               \* special_reference values, or none
  Keys, NoKey,               \* checkout idempotency keys, or none
  Lifetimes, ExpiresIn,      \* intention expiration, expectation expiresIn
  Times,                     \* the `times` of an expectation
  MaxTime                    \* bound of the instance clock

ASSUME SentinelAssumption ==
  /\ NoRef \notin Refs /\ NoKey \notin Keys
  /\ Expectations \cap {"card", "control_plane_complete"} = {}
ASSUME LifetimeAssumption ==
  /\ Lifetimes \subseteq Nat \ {0} /\ ExpiresIn \subseteq Nat \ {0}
  /\ Times \subseteq 1 .. 100
  /\ MaxTime \in Nat

VARIABLES
  intentions,   \* table intentions
  expectations, \* table scenario_expectations, kind "checkout"
  activations,  \* tables transactions and scenario_runs, in insertion order
  submission,   \* the submission between its two commits
  mode,         \* clock_state.mode, chosen at the first start
  now           \* the instance clock

vars == <<intentions, expectations, activations, submission, mode, now>>

-----------------------------------------------------------------------------
(* Scenario ids and the cards that select them.  "unknown" stands for an id no *)
(* definition has: an expectation and SIM:<id> accept any string.              *)
KnownScenarios == {"by_card", "by_expectation"}
ScenarioIds == KnownScenarios \cup {"unknown"}

Cards == {"registry", "generic_alias", "generic_unknown", "generic_no_alias", "unrecognized"}
IsRecognizedCard(card) == card # "unrecognized"
ScenariosOfCard(card) ==
  CASE card \in {"registry", "generic_alias"} -> {"by_card"}
    [] card = "generic_unknown"               -> {"unknown"}
    [] OTHER                                  -> {}

NoSubmission == [intention |-> "none"]
Idle == submission = NoSubmission

NoIntention ==
  [status |-> "none", terms |-> "none", ref |-> NoRef, key |-> NoKey,
   createdAt |-> 0, expiresAt |-> 0]
NoExpectation ==
  [status |-> "none", ref |-> NoRef, scenario |-> "unknown", total |-> 0,
   remaining |-> 0, consumed |-> FALSE, createdAt |-> 0, expiresAt |-> 0]

Init ==
  /\ intentions = [i \in Intentions |-> NoIntention]
  /\ expectations = [e \in Expectations |-> NoExpectation]
  /\ activations = << >>
  /\ submission = NoSubmission
  /\ mode \in {"real", "manual"}
  /\ now = 0

-----------------------------------------------------------------------------
(* Intentions. *)

Expired(i) == intentions[i].expiresAt <= now

CreateIntention(i, terms, ref, expiration) ==
  /\ Idle
  /\ intentions[i].status = "none"
  /\ intentions' = [intentions EXCEPT ![i] =
       [status |-> "intended", terms |-> terms, ref |-> ref, key |-> NoKey,
        createdAt |-> now, expiresAt |-> now + expiration]]
  /\ UNCHANGED <<expectations, activations, submission, mode, now>>

(* Mutant of Updatable: the already_submitted test is missing. *)
UpdatableAlways(i) == intentions[i].status # "none" /\ ~Expired(i)

Updatable(i) == intentions[i].status = "intended" /\ ~Expired(i)

(* updateIntention: an expiration in the patch counts from the creation.       *)
UpdateIntention(i, terms, ref, expiresAt) ==
  /\ Idle
  /\ Updatable(i)
  /\ expiresAt \in {intentions[i].expiresAt} \cup
       {intentions[i].createdAt + expiration : expiration \in Lifetimes}
  /\ intentions' = [intentions EXCEPT
       ![i].terms = terms, ![i].ref = ref, ![i].expiresAt = expiresAt]
  /\ UNCHANGED <<expectations, activations, submission, mode, now>>

-----------------------------------------------------------------------------
(* Expectations. *)

Active(e) ==
  /\ expectations[e].status = "stored"
  /\ ~expectations[e].consumed
  /\ expectations[e].expiresAt > now

(* findActiveCheckoutExpectation *)
Matching(ref) == {e \in Expectations : Active(e) /\ expectations[e].ref = ref}

(* Mutant of Ambiguous: an expectation that was used once no longer counts. *)
AmbiguousUnused(ref) ==
  \E e \in Matching(ref) : expectations[e].remaining = expectations[e].total

(* assertNotAmbiguous *)
Ambiguous(ref) == Matching(ref) # {}

CreateExpectation(e, ref, scenario, times, expiresIn) ==
  /\ Idle
  /\ expectations[e].status = "none"
  /\ ~Ambiguous(ref)
  /\ expectations' = [expectations EXCEPT ![e] =
       [status |-> "stored", ref |-> ref, scenario |-> scenario, total |-> times,
        remaining |-> times, consumed |-> FALSE,
        createdAt |-> now, expiresAt |-> now + expiresIn]]
  /\ UNCHANGED <<intentions, activations, submission, mode, now>>

CancelExpectation(e) ==
  /\ Idle
  /\ expectations[e].status = "stored"
  /\ expectations' = [expectations EXCEPT ![e] = [NoExpectation EXCEPT !.status = "deleted"]]
  /\ UNCHANGED <<intentions, activations, submission, mode, now>>

(* Mutant of Consumed: the row is consumed one use too late. *)
ConsumedLate(row) ==
  [row EXCEPT !.remaining = @ - 1, !.consumed = row.remaining - 1 < 0]

Consumed(row) ==
  [row EXCEPT !.remaining = @ - 1, !.consumed = row.remaining - 1 <= 0]

-----------------------------------------------------------------------------
(* Submissions. *)

(* What a second request for a submitted intention is answered.  submitCheckout*)
(* and completeIntentionHeadless look at the expiry first.                     *)
Answer(i, key) ==
  IF Expired(i) THEN "expired"
  ELSE IF intentions[i].status = "intended" THEN "proceeds"
  ELSE IF key # NoKey /\ intentions[i].key = key THEN "replay"
  ELSE "conflict"

Selected(i, scenario, source, key) ==
  submission' = [intention |-> i, scenario |-> scenario, source |-> source, key |-> key]

(* selectCheckoutScenario, priority 1: an expectation for the intention's      *)
(* reference wins over the card, but needs a recognized card.                  *)
SubmitWithExpectation(i, card, key) ==
  /\ Idle
  /\ intentions[i].status # "none"
  /\ Answer(i, key) = "proceeds"
  /\ intentions[i].ref # NoRef
  /\ IsRecognizedCard(card)
  /\ \E e \in Matching(intentions[i].ref) :
       /\ \A f \in Matching(intentions[i].ref) :
            expectations[e].createdAt <= expectations[f].createdAt
       /\ expectations' = [expectations EXCEPT ![e] = Consumed(@)]
       /\ Selected(i, expectations[e].scenario, e, key)
  /\ UNCHANGED <<intentions, activations, mode, now>>

(* Priorities 2 and 3: the generic card's command, or the card registry.       *)
SubmitWithCard(i, card, key) ==
  /\ Idle
  /\ intentions[i].status # "none"
  /\ Answer(i, key) = "proceeds"
  /\ intentions[i].ref = NoRef \/ Matching(intentions[i].ref) = {}
  /\ \E scenario \in ScenariosOfCard(card) : Selected(i, scenario, "card", key)
  /\ UNCHANGED <<intentions, expectations, activations, mode, now>>

(* The control plane's headless completion names a scenario, or uses the       *)
(* default.                                                                    *)
CompleteHeadless(i, scenario, key) ==
  /\ Idle
  /\ intentions[i].status # "none"
  /\ Answer(i, key) = "proceeds"
  /\ scenario \in KnownScenarios
  /\ Selected(i, scenario, "control_plane_complete", key)
  /\ UNCHANGED <<intentions, expectations, activations, mode, now>>

ActivationOf(s) ==
  [intention |-> s.intention, terms |-> intentions[s.intention].terms,
   scenario |-> s.scenario, source |-> s.source, at |-> now]

(* Mutant of Activate: the intention is not marked as processing. *)
ActivateUnmarked ==
  /\ ~Idle
  /\ submission.scenario \in KnownScenarios
  /\ activations' = Append(activations, ActivationOf(submission))
  /\ submission' = NoSubmission
  /\ UNCHANGED <<intentions, expectations, mode, now>>

(* activateScenarioForIntention: one SQLite transaction.                       *)
Activate ==
  /\ ~Idle
  /\ submission.scenario \in KnownScenarios
  /\ intentions[submission.intention].status = "intended"
  /\ intentions' = [intentions EXCEPT
       ![submission.intention].status = "processing",
       ![submission.intention].key = submission.key]
  /\ activations' = Append(activations, ActivationOf(submission))
  /\ submission' = NoSubmission
  /\ UNCHANGED <<expectations, mode, now>>

(* submitCheckout returns unrecognized_card: there is no such definition.      *)
RejectUnknownScenario ==
  /\ ~Idle
  /\ submission.scenario \notin KnownScenarios
  /\ submission' = NoSubmission
  /\ UNCHANGED <<intentions, expectations, activations, mode, now>>

(* loadOrInitClock of the next start: clock_state holds the time a manual clock*)
(* was first started at, and advancing it has only changed memory.             *)
TimeAtRestart == IF mode = "manual" THEN 0 ELSE now

(* The process dies, between two commits or at rest, and is started again.     *)
Crash ==
  /\ submission' = NoSubmission
  /\ now' = TimeAtRestart
  /\ UNCHANGED <<intentions, expectations, activations, mode>>

Tick ==
  /\ Idle
  /\ now < MaxTime
  /\ now' = now + 1
  /\ UNCHANGED <<intentions, expectations, activations, submission, mode>>

Next ==
  \/ \E i \in Intentions, terms \in Terms, ref \in Refs \cup {NoRef} :
       \/ \E expiration \in Lifetimes : CreateIntention(i, terms, ref, expiration)
       \/ \E expiresAt \in 0 .. MaxTime + MaxTime : UpdateIntention(i, terms, ref, expiresAt)
  \/ \E e \in Expectations, ref \in Refs, scenario \in ScenarioIds \ {"by_card"},
        times \in Times, expiresIn \in ExpiresIn :
       CreateExpectation(e, ref, scenario, times, expiresIn)
  \/ \E e \in Expectations : CancelExpectation(e)
  \/ \E i \in Intentions, card \in Cards, key \in Keys \cup {NoKey} :
       SubmitWithExpectation(i, card, key) \/ SubmitWithCard(i, card, key)
  \/ \E i \in Intentions, scenario \in ScenarioIds, key \in Keys :
       CompleteHeadless(i, scenario, key)
  \/ Activate
  \/ RejectUnknownScenario
  \/ Crash
  \/ Tick

Spec == Init /\ [][Next]_vars

-----------------------------------------------------------------------------
(* Properties. *)

IntentionRows ==
  [status : {"none", "intended", "processing"}, terms : Terms \cup {"none"},
   ref : Refs \cup {NoRef}, key : Keys \cup {NoKey}, createdAt : Nat, expiresAt : Nat]
ExpectationRows ==
  [status : {"none", "stored", "deleted"}, ref : Refs \cup {NoRef},
   scenario : ScenarioIds, total : Nat, remaining : Nat, consumed : BOOLEAN,
   createdAt : Nat, expiresAt : Nat]
Sources == Expectations \cup {"card", "control_plane_complete"}

(* Every table holds well-formed rows; an expectation's uses never go negative.*)
TypeOK ==
  /\ intentions \in [Intentions -> IntentionRows]
  /\ expectations \in [Expectations -> ExpectationRows]
  /\ activations \in Seq([intention : Intentions, terms : Terms,
       scenario : KnownScenarios, source : Sources, at : Nat])
  /\ Idle \/ submission \in [intention : Intentions, scenario : ScenarioIds,
       source : Sources, key : Keys \cup {NoKey}]
  /\ mode \in {"real", "manual"} /\ now \in Nat

ActivationsOf(i) == {n \in DOMAIN activations : activations[n].intention = i}
UsesOf(e) == {n \in DOMAIN activations : activations[n].source = e}

(* Two tabs, a retried submit, a headless completion and a crash between the   *)
(* commits never give an intention two transactions, nor a processing status   *)
(* without one.                                                                *)
OneActivation ==
  \A i \in Intentions :
    Cardinality(ActivationsOf(i)) = IF intentions[i].status = "processing" THEN 1 ELSE 0

(* What was charged stays what the intention says: the run's terms are those   *)
(* of the row, which no later update changes, and it ran before the expiry.    *)
TermsFrozen ==
  \A n \in DOMAIN activations :
    LET row == intentions[activations[n].intention] IN
    /\ activations[n].terms = row.terms
    /\ activations[n].at < row.expiresAt

(* An expectation is used at most `times` times, each use is paid for by one   *)
(* decrement, and each bound run plays the expectation's scenario.  (A use may *)
(* be paid for and lost: to a crash, or to a scenario that does not exist.)    *)
ExpectationAccounting ==
  \A e \in Expectations : expectations[e].status = "stored" =>
    /\ Cardinality(UsesOf(e)) <= expectations[e].total - expectations[e].remaining
    /\ expectations[e].remaining >= 0
    /\ \A n \in UsesOf(e) : activations[n].scenario = expectations[e].scenario

(* Which expectation a submission uses is never decided by a tie in created_at.*)
(* Under a real clock a reference has one active expectation at most; a manual *)
(* clock that starts again makes expired ones active beside a newer one, and   *)
(* then they were created at different times.                                  *)
SelectionDetermined ==
  \A ref \in Refs :
    /\ mode = "real" => Cardinality(Matching(ref)) <= 1
    /\ \A e, f \in Matching(ref) :
         expectations[e].createdAt = expectations[f].createdAt => e = f

(* A submission finds one expectation to use, whatever became of the clock, and*)
(* an expectation is used as often as it says.                                 *)
ExpectationsSound == ExpectationAccounting /\ SelectionDetermined

(* The tables implement the one-shot checkout: how often an intention was      *)
(* charged, and with what, is read off the transactions.                       *)
CheckoutOf(i) ==
  IF ActivationsOf(i) # {}
  THEN [phase |-> IF Cardinality(ActivationsOf(i)) = 1 THEN "charged" ELSE "charged_twice",
        terms |-> activations[CHOOSE n \in ActivationsOf(i) : TRUE].terms]
  ELSE IF intentions[i].status = "none" THEN [phase |-> "none"]
  ELSE [phase |-> "open", terms |-> intentions[i].terms]

OneShot == INSTANCE OneShotCheckout
             WITH checkouts <- [i \in Intentions |-> CheckoutOf(i)]
ImplementsOneShot == OneShot!Spec
=============================================================================

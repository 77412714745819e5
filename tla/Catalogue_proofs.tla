--------------------------- MODULE Catalogue_proofs ---------------------------
(* Proofs about the parts MCCatalogue puts side by side, each for every value  *)
(* of its own constants: ScenarioRun and its shipped scenarios, OutboundRequest, *)
(* TestCards and Configuration.                                                *)
EXTENDS ScenarioRun, AuthoredTimelines, OutboundRequest, TestCards, Configuration, RequestRules_proofs

-----------------------------------------------------------------------------
(* One scenario, for every definition the schema lets through, every draw and  *)
(* every grain of the generator.  Compiled says what the rows of a run are;    *)
(* InOrder that what was played is before what was not, and was played in that *)
(* order; Originals that a callback repeats an earlier one with its event, or  *)
(* is the first with it.                                                       *)

Shown == STRING \cup InternalStates
LogEntry ==
  [kind : {"callback", "page"}, action : STRING, shows : Shown,
   signature : {"none", "valid", "corrupt"}, event : Nat, state : InternalStates]

RunShapes ==
  /\ scenario \in ScenarioInputs
  /\ draws \in Draws
  /\ phase \in {"submitted", "rejected", "playing", "halted"}
  /\ state \in InternalStates
  /\ played \in Seq(DOMAIN plan)
  /\ snaps \subseteq [source : STRING, state : InternalStates]
  /\ log \in Seq(LogEntry)

Compiled ==
  /\ phase = "submitted" => plan = << >>
  /\ plan # << >> => Compiles(scenario) /\ plan = CompileScenario(scenario, draws)

(* What was played, once each, and before everything that was not.             *)
InOrder ==
  /\ \A i, j \in DOMAIN played : i < j => PlaysBefore(played[i], played[j])
  /\ \A i \in DOMAIN played : \A k \in Unplayed : PlaysBefore(played[i], k)

(* The callback that was the first with its event.                             *)
RepeatOf(i, e) ==
  /\ e \in 1 .. i /\ e \in Callbacks
  /\ log[e].event = e /\ log[i].event = e
  /\ log[i].shows = log[e].shows /\ log[i].signature = log[e].signature
Original(i) == \E e \in Nat : RepeatOf(i, e)
Originals == \A i \in Callbacks : Original(i)

Showable ==
  /\ HasProjection(state)
  /\ \A s \in snaps : HasProjection(s.state)
  /\ \A i \in Callbacks :
       HasProjection(log[i].shows) /\ log[i].signature \in {"valid", "corrupt"}

RunInv == RunShapes /\ Compiled /\ InOrder /\ Originals /\ Showable

-----------------------------------------------------------------------------
(* The compiled plan.                                                          *)

(* random.ts: the inclusive range is never left.                               *)
LEMMA DrawnInRange ==
  ASSUME NEW low \in Int, NEW high \in Int, low <= high, NEW draw \in 0 .. Grain - 1
  PROVE  NextIntInRange(draw, <<low, high>>) \in low .. high
<1> DEFINE width == high - low + 1
           q == (draw * width) \div Grain
<1>1. Grain \in Nat /\ Grain > 0
  BY GrainAssumption
<1>2. width \in Nat /\ width >= 1
  OBVIOUS
<1>3. draw \in Nat /\ draw <= Grain - 1
  BY <1>1
<1> HIDE DEF width
<1>4. draw * width \in Nat
  BY <1>2, <1>3
<1>5. draw * width <= (Grain - 1) * width
  BY <1>1, <1>2, <1>3
<1>6. (Grain - 1) * width < Grain * width
  BY <1>1, <1>2
<1>7. draw * width < Grain * width
  BY <1>1, <1>2, <1>4, <1>5, <1>6
<1>8. q \in Int /\ q >= 0 /\ Grain * q <= draw * width
  BY <1>1, <1>4
<1>9. q < width
  BY <1>1, <1>2, <1>4, <1>7, <1>8
<1>10. q \in 0 .. width - 1
  BY <1>2, <1>8, <1>9
<1>11. NextIntInRange(draw, <<low, high>>) = low + q
  BY DEF NextIntInRange, width
<1> QED
  BY <1>10, <1>11 DEF width

(* What a row of the plan is: a step of the definition and when it falls due.  *)
Compiles1(n) ==
  /\ n \in Nat
  /\ Step(n) \in TimelineSteps
  /\ Step(n).action \in {"transaction.transition", "transaction.snapshot"} =>
       Step(n).arg \in InternalStates
  /\ plan[n].due \in Int
  /\ IsSeeded(Step(n)) =>
       /\ plan[n].due = NextIntInRange(draws[1], scenario.range)
       /\ plan[n].due \in scenario.range[1] .. scenario.range[2]
  /\ ~IsSeeded(Step(n)) =>
       /\ Parses(Step(n).after)
       /\ plan[n].due = ParseDuration(Step(n).after)

LEMMA DurationTyped ==
  ASSUME NEW after \in [amount : Nat, unit : STRING], Parses(after)
  PROVE  ParseDuration(after) \in Nat /\ after # Seeded
<1>1. after.unit \in {"ms", "s", "m", "h"}
  BY DEF Parses, UnitToMs
<1>2. UnitToMs[after.unit] \in Nat
  BY <1>1 DEF UnitToMs
<1> QED
  BY <1>1, <1>2 DEF ParseDuration, Seeded, Duration

LEMMA PlanRows ==
  ASSUME RunShapes, Compiled
  PROVE  \A n \in DOMAIN plan : Compiles1(n)
<1> SUFFICES ASSUME NEW n \in DOMAIN plan
             PROVE  Compiles1(n)
  OBVIOUS
<1>1. plan # << >>
  OBVIOUS
<1>2. Compiles(scenario) /\ plan = CompileScenario(scenario, draws)
  BY <1>1 DEF Compiled
<1>3. Definition(scenario)
  BY InputsAssumption DEF RunShapes
<1>4. scenario.timeline \in Seq(TimelineSteps) /\ n \in DOMAIN scenario.timeline
  BY <1>2, <1>3 DEF Definition, CompileScenario
<1>5. plan[n].step = scenario.timeline[n] /\ plan[n].due = OffsetMs(scenario, draws, n)
  BY <1>2, <1>4 DEF CompileScenario
<1>6. Step(n) = scenario.timeline[n] /\ Step(n) \in TimelineSteps /\ n \in Nat
  BY <1>4, <1>5 DEF Step
<1>7. Step(n).action \in {"transaction.transition", "transaction.snapshot"} =>
        Step(n).arg \in InternalStates
  BY <1>3, <1>4, <1>6 DEF Definition
<1>8. CASE IsSeeded(Step(n))
  <2>1. ValidRange(scenario.range)
    BY <1>2, <1>4, <1>6, <1>8 DEF Compiles
  <2>2. PICK low \in Int, high \in Int : scenario.range = <<low, high>>
    BY <1>3 DEF Definition
  <2>3. low <= high
    BY <2>1, <2>2 DEF ValidRange
  <2>4. draws[1] \in 0 .. Grain - 1
    BY DEF RunShapes, Draws
  <2>5. NextIntInRange(draws[1], scenario.range) \in low .. high
    BY <2>2, <2>3, <2>4, DrawnInRange
  <2>6. plan[n].due = NextIntInRange(draws[1], scenario.range)
    BY <1>5, <1>6, <1>8 DEF OffsetMs
  <2> QED
    BY <1>6, <1>7, <1>8, <2>2, <2>5, <2>6 DEF Compiles1
<1>9. CASE ~IsSeeded(Step(n))
  <2>1. Parses(Step(n).after)
    BY <1>2, <1>4, <1>6, <1>9 DEF Compiles
  <2>2. plan[n].due = ParseDuration(Step(n).after)
    BY <1>5, <1>6, <1>9 DEF OffsetMs
  <2>3. Step(n).after \in [amount : Nat, unit : STRING]
    BY <1>6 DEF TimelineSteps
  <2>4. plan[n].due \in Int
    BY <2>1, <2>2, <2>3, DurationTyped
  <2> QED
    BY <1>6, <1>7, <1>9, <2>1, <2>2, <2>4 DEF Compiles1
<1> QED
  BY <1>8, <1>9

-----------------------------------------------------------------------------
(* One action is played: the next of those that are left.                      *)

LEMMA PlayedNext ==
  ASSUME RunShapes, Compiled, InOrder, NEW n \in DOMAIN plan, NEW actions, Plays(n, actions),
         UNCHANGED <<scenario, draws, plan>>
  PROVE  played' \in Seq(DOMAIN plan') /\ InOrder'
<1>1. played \in Seq(DOMAIN plan) /\ played' = Append(played, n) /\ IsNext(n)
  BY DEF RunShapes, Plays
<1>2. /\ Len(played) \in Nat /\ DOMAIN played = 1 .. Len(played)
      /\ DOMAIN played' = 1 .. Len(played) + 1
      /\ played'[Len(played) + 1] = n
      /\ \A i \in DOMAIN played : played'[i] = played[i]
      /\ played' \in Seq(DOMAIN plan)
  BY <1>1
<1>3. \A k : k \in Unplayed' => k \in Unplayed \ {n}
  BY <1>2 DEF Unplayed, Range
<1>4. \A m, k : PlaysBefore(m, k)' <=> PlaysBefore(m, k)
  BY DEF PlaysBefore
<1>5. \A i \in DOMAIN played : PlaysBefore(played[i], n)
  BY <1>1 DEF InOrder, IsNext
<1>6. ASSUME NEW i \in DOMAIN played', NEW j \in DOMAIN played', i < j
      PROVE  PlaysBefore(played'[i], played'[j])
  <2>1. i \in DOMAIN played
    BY <1>2, <1>6
  <2>2. CASE j \in DOMAIN played
    BY <1>2, <1>6, <2>1, <2>2 DEF InOrder
  <2>3. CASE j = Len(played) + 1
    BY <1>2, <1>5, <2>1, <2>3
  <2> QED
    BY <1>2, <2>2, <2>3
<1>7. ASSUME NEW i \in DOMAIN played', NEW k \in Unplayed'
      PROVE  PlaysBefore(played'[i], k)
  <2>1. k \in Unplayed \ {n}
    BY <1>3
  <2>2. CASE i \in DOMAIN played
    BY <1>2, <2>1, <2>2 DEF InOrder
  <2>3. CASE i = Len(played) + 1
    BY <1>1, <1>2, <2>1, <2>3 DEF IsNext
  <2> QED
    BY <1>2, <2>2, <2>3
<1>8. InOrder'
  BY <1>4, <1>6, <1>7 DEF InOrder
<1> QED
  BY <1>2, <1>8

-----------------------------------------------------------------------------
(* The log.                                                                    *)

LEMMA SourceFound ==
  ASSUME RunShapes, NEW n, SourcesOf(n) # {}
  PROVE  \E i \in Callbacks : SourceOf(n) = log[i]
<1>1. SourcesOf(n) \subseteq Callbacks /\ Callbacks \subseteq Nat
  BY DEF SourcesOf, Callbacks, RunShapes
<1>2. Min(SourcesOf(n)) \in SourcesOf(n)
  BY <1>1, LeastExists
<1> QED
  BY <1>1, <1>2 DEF SourceOf

(* An entry is a page, the first callback of its event, or one that repeats    *)
(* another byte for byte.                                                      *)
Truthful(entry) ==
  entry.kind = "callback" =>
    /\ HasProjection(entry.shows) /\ entry.signature \in {"valid", "corrupt"}
    /\ \/ entry.event = Len(log) + 1
       \/ \E i \in Callbacks :
            /\ entry.event = log[i].event
            /\ entry.shows = log[i].shows /\ entry.signature = log[i].signature

LEMMA LogKept ==
  ASSUME UNCHANGED log, Originals
  PROVE  Originals' /\ Callbacks' = Callbacks
<1>1. log' = log /\ Callbacks' = Callbacks
  BY DEF Callbacks
<1>2. SUFFICES ASSUME NEW i \in Callbacks
               PROVE  Original(i)'
  BY <1>1 DEF Originals
<1>3. PICK e \in Nat : RepeatOf(i, e)
  BY DEF Originals, Original
<1>4. RepeatOf(i, e)'
  BY <1>1, <1>3 DEF RepeatOf
<1> QED
  BY <1>4 DEF Original

LEMMA LogGrows ==
  ASSUME RunShapes, Originals, Showable, UNCHANGED <<state, snaps>>,
         NEW entry \in LogEntry, log' = Append(log, entry), Truthful(entry)
  PROVE  log' \in Seq(LogEntry) /\ Originals' /\ Showable'
<1>0. PICK k : k = Len(log) + 1
  OBVIOUS
<1>1. /\ Len(log) \in Nat /\ DOMAIN log = 1 .. Len(log)
      /\ log' \in Seq(LogEntry) /\ DOMAIN log' = 1 .. k
      /\ log'[k] = entry /\ \A i \in DOMAIN log : log'[i] = log[i]
  BY <1>0 DEF RunShapes
<1>2. /\ Callbacks \subseteq DOMAIN log /\ k \notin DOMAIN log /\ k \in Nat
      /\ DOMAIN log \subseteq DOMAIN log' /\ k \in DOMAIN log'
  BY <1>0, <1>1 DEF Callbacks
<1>3. \A i \in DOMAIN log : i \in Callbacks' <=> i \in Callbacks
  BY <1>1, <1>2 DEF Callbacks
<1>4. k \in Callbacks' <=> entry.kind = "callback"
  BY <1>1, <1>2 DEF Callbacks
<1>5. ASSUME NEW i \in Callbacks
      PROVE  Original(i)'
  <2>1. PICK e \in Nat : RepeatOf(i, e)
    BY DEF Originals, Original
  <2>2. log'[i] = log[i] /\ log'[e] = log[e] /\ e \in Callbacks'
    BY <1>1, <1>2, <1>3, <2>1 DEF RepeatOf
  <2>3. RepeatOf(i, e)'
    BY <2>1, <2>2 DEF RepeatOf
  <2> QED
    BY <2>3 DEF Original
<1>6. ASSUME entry.kind = "callback"
      PROVE  Original(k)'
  <2>1. CASE entry.event = Len(log) + 1
    <3>1. entry.event = k /\ k \in 1 .. k
      BY <1>0, <1>2, <2>1
    <3>2. RepeatOf(k, k)'
      BY <1>1, <1>4, <1>6, <3>1 DEF RepeatOf
    <3> QED
      BY <1>2, <3>2 DEF Original
  <2>2. CASE \E i \in Callbacks :
               /\ entry.event = log[i].event
               /\ entry.shows = log[i].shows /\ entry.signature = log[i].signature
    <3>1. PICK i \in Callbacks :
            /\ entry.event = log[i].event
            /\ entry.shows = log[i].shows /\ entry.signature = log[i].signature
      BY <2>2
    <3>2. PICK e \in Nat : RepeatOf(i, e)
      BY DEF Originals, Original
    <3>3. log'[e] = log[e] /\ e \in Callbacks' /\ e \in 1 .. k
      BY <1>1, <1>2, <1>3, <3>2 DEF RepeatOf
    <3>4. RepeatOf(k, e)'
      BY <1>1, <3>1, <3>2, <3>3 DEF RepeatOf
    <3> QED
      BY <3>4 DEF Original
  <2> QED
    BY <1>6, <2>1, <2>2 DEF Truthful
<1>7. \A i \in Callbacks' : i \in Callbacks \/ (i = k /\ entry.kind = "callback")
  BY <1>1, <1>3, <1>4, <1>0 DEF Callbacks
<1>8. Originals'
  BY <1>5, <1>6, <1>7 DEF Originals
<1>9. Showable'
  BY <1>1, <1>2, <1>7 DEF Showable, Truthful
<1> QED
  BY <1>1, <1>8, <1>9

-----------------------------------------------------------------------------
(* One lemma per action of the executor.                                       *)

DataShapes ==
  /\ state \in InternalStates
  /\ snaps \subseteq [source : STRING, state : InternalStates]
  /\ log \in Seq(LogEntry)

LEMMA PlayKeeps ==
  ASSUME RunInv, NEW n \in DOMAIN plan, NEW actions, Plays(n, actions),
         UNCHANGED <<scenario, draws, plan>>, phase' \in {"playing", "halted"},
         (DataShapes /\ Originals /\ Showable)'
  PROVE  RunInv'
<1>1. played' \in Seq(DOMAIN plan') /\ InOrder'
  BY PlayedNext DEF RunInv
<1>2. RunShapes'
  BY <1>1 DEF RunInv, RunShapes, DataShapes
<1>3. Compiled'
  BY DEF RunInv, Compiled
<1> QED
  BY <1>1, <1>2, <1>3 DEF RunInv

LEMMA TransitionPlayed ==
  ASSUME RunInv, NEW n \in DOMAIN plan, PlayTransition(n)
  PROVE  RunInv'
<1>1. /\ Plays(n, {"transaction.transition"}) /\ Applies(n)
      /\ state' = Step(n).arg
      /\ snaps' = snaps \cup {[source |-> Step(n).id, state |-> Step(n).arg]}
      /\ UNCHANGED <<scenario, draws, plan, phase, log>>
  BY DEF PlayTransition
<1>2. Step(n).arg \in InternalStates /\ Step(n).id \in STRING /\ HasProjection(Step(n).arg)
  BY <1>1, PlanRows DEF RunInv, Compiles1, Plays, Applies, TimelineSteps
<1>3. Originals' /\ Callbacks' = Callbacks
  BY <1>1, LogKept DEF RunInv
<1>4. DataShapes'
  BY <1>1, <1>2 DEF DataShapes, RunInv, RunShapes
<1>5. Showable'
  BY <1>1, <1>2, <1>3 DEF Showable, RunInv
<1>6. phase' \in {"playing", "halted"}
  BY <1>1 DEF Plays
<1> QED
  BY <1>1, <1>3, <1>4, <1>5, <1>6, PlayKeeps

LEMMA SnapshotPlayed ==
  ASSUME RunInv, NEW n \in DOMAIN plan, PlaySnapshot(n)
  PROVE  RunInv'
<1>1. /\ Plays(n, {"transaction.snapshot"}) /\ Applies(n)
      /\ snaps' = snaps \cup {[source |-> Step(n).id, state |-> Step(n).arg]}
      /\ UNCHANGED <<scenario, draws, plan, phase, state, log>>
  BY DEF PlaySnapshot
<1>2. Step(n).arg \in InternalStates /\ Step(n).id \in STRING /\ HasProjection(Step(n).arg)
  BY <1>1, PlanRows DEF RunInv, Compiles1, Plays, Applies, TimelineSteps
<1>3. Originals' /\ Callbacks' = Callbacks
  BY <1>1, LogKept DEF RunInv
<1>4. DataShapes'
  BY <1>1, <1>2 DEF DataShapes, RunInv, RunShapes
<1>5. Showable'
  BY <1>1, <1>2, <1>3 DEF Showable, RunInv
<1>6. phase' \in {"playing", "halted"}
  BY <1>1 DEF Plays
<1> QED
  BY <1>1, <1>3, <1>4, <1>5, <1>6, PlayKeeps

(* An action that throws, and one that has no case, change neither.            *)
LEMMA QuietPlayed ==
  ASSUME RunInv, NEW n \in DOMAIN plan, PlayThrows(n) \/ PlayNothing(n)
  PROVE  RunInv'
<1>1. PICK actions : Plays(n, actions)
  BY DEF PlayThrows, PlayNothing
<1>2. UNCHANGED <<scenario, draws, plan, state, snaps, log>> /\ phase' \in {"playing", "halted"}
  BY DEF PlayThrows, PlayNothing, Plays
<1>3. Originals' /\ Callbacks' = Callbacks
  BY <1>2, LogKept DEF RunInv
<1>4. DataShapes'
  BY <1>2 DEF DataShapes, RunInv, RunShapes
<1>5. Showable'
  BY <1>2, <1>3 DEF Showable, RunInv
<1> QED
  BY <1>1, <1>2, <1>3, <1>4, <1>5, PlayKeeps

(* The other actions write one entry. *)
LEMMA EntryPlayed ==
  ASSUME RunInv, NEW n \in DOMAIN plan, NEW actions, Plays(n, actions),
         UNCHANGED <<scenario, draws, plan, phase, state, snaps>>,
         NEW entry \in LogEntry, log' = Append(log, entry), Truthful(entry)
  PROVE  RunInv'
<1>1. log' \in Seq(LogEntry) /\ Originals' /\ Showable'
  BY LogGrows DEF RunInv
<1>2. DataShapes'
  BY <1>1 DEF DataShapes, RunInv, RunShapes
<1>3. phase' \in {"playing", "halted"}
  BY DEF Plays
<1> QED
  BY <1>1, <1>2, <1>3, PlayKeeps

(* What a body shows has a payload, whether it is a snapshot's or the row's.   *)
LEMMA BodyShowable ==
  ASSUME RunInv, NEW n \in DOMAIN plan
  PROVE  BodyOf(n) \in InternalStates /\ HasProjection(BodyOf(n))
<1>1. CASE \E s \in snaps : s.source = Step(n).source
  <2>1. PICK s \in snaps : BodyOf(n) = s.state
    BY <1>1 DEF BodyOf
  <2> QED
    BY <2>1 DEF RunInv, RunShapes, Showable
<1>2. CASE ~\E s \in snaps : s.source = Step(n).source
  BY <1>2 DEF BodyOf, RunInv, RunShapes, Showable
<1> QED
  BY <1>1, <1>2

LEMMA EntryTyped ==
  ASSUME RunInv, NEW n \in DOMAIN plan, NEW shown \in Shown,
         NEW signature \in {"valid", "corrupt"}, NEW event \in Nat
  PROVE  CallbackEntry(n, shown, signature, event) \in LogEntry
<1>1. Step(n).id \in STRING /\ state \in InternalStates
  BY PlanRows DEF RunInv, RunShapes, Compiles1, TimelineSteps
<1> QED
  BY <1>1 DEF CallbackEntry, LogEntry

LEMMA WebhookPlayed ==
  ASSUME RunInv, NEW n \in DOMAIN plan, PlayWebhook(n)
  PROVE  RunInv'
<1> DEFINE entry == CallbackEntry(n, BodyOf(n), "valid", Len(log) + 1)
<1>1. BodyOf(n) \in Shown /\ HasProjection(BodyOf(n))
  BY BodyShowable DEF Shown
<1>2. Len(log) + 1 \in Nat
  BY DEF RunInv, RunShapes
<1>3. entry \in LogEntry
  BY <1>1, <1>2, EntryTyped
<1>4. Truthful(entry)
  BY <1>1 DEF Truthful, CallbackEntry
<1>5. /\ Plays(n, {"webhook.transaction"}) /\ log' = Append(log, entry)
      /\ UNCHANGED <<scenario, draws, plan, phase, state, snaps>>
  BY DEF PlayWebhook
<1> HIDE DEF entry
<1> QED
  BY <1>3, <1>4, <1>5, EntryPlayed

LEMMA SourceTyped ==
  ASSUME RunInv, NEW n \in DOMAIN plan, SourcesOf(n) # {}
  PROVE  /\ SourceOf(n) \in LogEntry
         /\ SourceOf(n).signature \in {"valid", "corrupt"} /\ HasProjection(SourceOf(n).shows)
         /\ \E i \in Callbacks : SourceOf(n) = log[i]
<1>1. PICK i \in Callbacks : SourceOf(n) = log[i]
  BY SourceFound DEF RunInv
<1>2. log[i] \in LogEntry /\ HasProjection(log[i].shows)
  BY DEF RunInv, RunShapes, Showable, Callbacks
<1>3. log[i].signature \in {"valid", "corrupt"}
  BY DEF RunInv, Showable
<1> QED
  BY <1>1, <1>2, <1>3

LEMMA RepeatPlayed ==
  ASSUME RunInv, NEW n \in DOMAIN plan, PlayRepeat(n)
  PROVE  RunInv'
<1>1. /\ Plays(n, {"webhook.repeat"})
      /\ UNCHANGED <<scenario, draws, plan, phase, state, snaps>>
  BY DEF PlayRepeat
<1>2. CASE SourcesOf(n) = {}
  <2>1. log' = log
    BY <1>2 DEF PlayRepeat
  <2>2. Originals' /\ Callbacks' = Callbacks
    BY <2>1, LogKept DEF RunInv
  <2>3. DataShapes'
    BY <1>1, <2>1 DEF DataShapes, RunInv, RunShapes
  <2>4. Showable'
    BY <1>1, <2>1, <2>2 DEF Showable, RunInv
  <2>5. phase' \in {"playing", "halted"}
    BY <1>1 DEF Plays
  <2> QED
    BY <1>1, <2>2, <2>3, <2>4, <2>5, PlayKeeps
<1>3. CASE SourcesOf(n) # {}
  <2> DEFINE entry == CallbackEntry(n, SourceOf(n).shows, SourceOf(n).signature, SourceOf(n).event)
  <2>1. log' = Append(log, entry)
    BY <1>3 DEF PlayRepeat
  <2>2. /\ SourceOf(n) \in LogEntry
        /\ SourceOf(n).signature \in {"valid", "corrupt"} /\ HasProjection(SourceOf(n).shows)
        /\ \E i \in Callbacks : SourceOf(n) = log[i]
    BY <1>3, SourceTyped
  <2>3. SourceOf(n).shows \in Shown /\ SourceOf(n).event \in Nat
    BY <2>2 DEF LogEntry
  <2>4. entry \in LogEntry
    BY <2>2, <2>3, EntryTyped
  <2>5. Truthful(entry)
    BY <2>2 DEF Truthful, CallbackEntry
  <2> HIDE DEF entry
  <2> QED
    BY <1>1, <2>1, <2>4, <2>5, EntryPlayed
<1> QED
  BY <1>2, <1>3

LEMMA CorruptHmacPlayed ==
  ASSUME RunInv, NEW n \in DOMAIN plan, PlayCorruptHmac(n)
  PROVE  RunInv'
<1> DEFINE shown == IF SourcesOf(n) = {} THEN state ELSE SourceOf(n).shows
           entry == CallbackEntry(n, shown, "corrupt", Len(log) + 1)
<1>1. /\ Plays(n, {"webhook.corrupt_hmac"}) /\ log' = Append(log, entry)
      /\ UNCHANGED <<scenario, draws, plan, phase, state, snaps>>
  BY DEF PlayCorruptHmac
<1>2. shown \in Shown /\ HasProjection(shown)
  <2>1. CASE SourcesOf(n) = {}
    BY <2>1 DEF Shown, RunInv, RunShapes, Showable
  <2>2. CASE SourcesOf(n) # {}
    BY <2>2, SourceTyped DEF LogEntry
  <2> QED
    BY <2>1, <2>2
<1>3. Len(log) + 1 \in Nat
  BY DEF RunInv, RunShapes
<1> HIDE DEF shown
<1>4. entry \in LogEntry
  BY <1>2, <1>3, EntryTyped
<1>5. Truthful(entry)
  BY <1>2 DEF Truthful, CallbackEntry
<1> HIDE DEF entry
<1> QED
  BY <1>1, <1>4, <1>5, EntryPlayed

LEMMA PagePlayed ==
  ASSUME RunInv, NEW n \in DOMAIN plan, PlayPage(n)
  PROVE  RunInv'
<1> DEFINE actions == {"browser.redirect", "browser.show_result", "three_ds.open"}
           entry == PageEntry(n)
<1>1. /\ Plays(n, actions) /\ log' = Append(log, entry)
      /\ UNCHANGED <<scenario, draws, plan, phase, state, snaps>>
  BY DEF PlayPage
<1>2. Step(n).id \in STRING /\ Step(n).arg \in STRING /\ state \in InternalStates
  BY PlanRows DEF RunInv, RunShapes, Compiles1, TimelineSteps
<1>3. entry \in LogEntry
  BY <1>2 DEF PageEntry, LogEntry, Shown
<1>4. Truthful(entry)
  BY DEF Truthful, PageEntry
<1> HIDE DEF entry, actions
<1> QED
  BY <1>1, <1>3, <1>4, EntryPlayed

LEMMA CompilePreserves ==
  ASSUME RunInv, Compile
  PROVE  RunInv'
<1>1. /\ plan = << >> /\ phase' \in {"playing", "rejected"}
      /\ plan' = plan \/ (Compiles(scenario) /\ plan' = CompileScenario(scenario, draws))
      /\ UNCHANGED <<scenario, draws, played, state, snaps, log>>
  BY DEF Compile, RunInv, Compiled
<1>2. played = << >>
  BY <1>1 DEF RunInv, RunShapes
<1>3. RunShapes'
  BY <1>1, <1>2 DEF RunInv, RunShapes
<1>4. Compiled'
  BY <1>1 DEF Compiled
<1>5. InOrder'
  BY <1>1, <1>2 DEF InOrder
<1>6. Originals' /\ Callbacks' = Callbacks
  BY <1>1, LogKept DEF RunInv
<1>7. Showable'
  BY <1>1, <1>6 DEF Showable, RunInv
<1> QED
  BY <1>3, <1>4, <1>5, <1>6, <1>7 DEF RunInv

LEMMA RunInitInv == RunInit => RunInv
<1> SUFFICES ASSUME RunInit
             PROVE  RunInv
  OBVIOUS
<1>1. RunShapes /\ Compiled
  BY DEF RunInit, RunShapes, Compiled, InternalStates
<1>2. InOrder
  BY DEF RunInit, InOrder
<1>3. Callbacks = {}
  BY DEF RunInit, Callbacks
<1>4. Originals /\ Showable
  BY <1>3 DEF RunInit, Originals, Showable, HasProjection, NoProjectionStates
<1> QED
  BY <1>1, <1>2, <1>4 DEF RunInv

LEMMA RunNextInv == RunInv /\ [RunNext]_runVars => RunInv'
<1> SUFFICES ASSUME RunInv, [RunNext]_runVars
             PROVE  RunInv'
  OBVIOUS
<1>1. CASE Compile
  BY <1>1, CompilePreserves
<1>2. ASSUME NEW n \in DOMAIN plan, Play(n)
      PROVE  RunInv'
  <2>1. CASE PlayTransition(n)
    BY <2>1, TransitionPlayed
  <2>2. CASE PlaySnapshot(n)
    BY <2>2, SnapshotPlayed
  <2>3. CASE PlayThrows(n) \/ PlayNothing(n)
    BY <2>3, QuietPlayed
  <2>4. CASE PlayWebhook(n)
    BY <2>4, WebhookPlayed
  <2>5. CASE PlayRepeat(n)
    BY <2>5, RepeatPlayed
  <2>6. CASE PlayCorruptHmac(n)
    BY <2>6, CorruptHmacPlayed
  <2>7. CASE PlayPage(n)
    BY <2>7, PagePlayed
  <2> QED
    BY <1>2, <2>1, <2>2, <2>3, <2>4, <2>5, <2>6, <2>7 DEF Play
<1>3. CASE UNCHANGED runVars
  <2>1. Originals' /\ Callbacks' = Callbacks
    BY <1>3, LogKept DEF RunInv, runVars
  <2>2. RunShapes'
    BY <1>3 DEF RunInv, RunShapes, runVars
  <2>3. Compiled'
    BY <1>3 DEF RunInv, Compiled, runVars
  <2>4. InOrder'
    BY <1>3 DEF RunInv, InOrder, Unplayed, PlaysBefore, runVars
  <2>5. Showable'
    BY <1>3, <2>1 DEF RunInv, Showable, runVars
  <2> QED
    BY <2>1, <2>2, <2>3, <2>4, <2>5 DEF RunInv
<1> QED
  BY <1>1, <1>2, <1>3 DEF RunNext

(* The inductive invariant of a run of one scenario.                           *)
THEOREM RunInvariance == RunSpec => []RunInv
  BY RunInitInv, RunNextInv, PTL DEF RunSpec

-----------------------------------------------------------------------------
(* The properties. *)

LEMMA PlayedOnce ==
  ASSUME RunInv
  PROVE  RunTypeOK
<1>1. \A n \in DOMAIN plan : n \in Nat /\ plan[n].due \in Int
  BY PlanRows DEF RunInv, Compiles1
<1>2. played \in Seq(DOMAIN plan) /\ DOMAIN played = 1 .. Len(played) /\ Len(played) \in Nat
  BY DEF RunInv, RunShapes
<1>3. \A i \in DOMAIN played : played[i] \in DOMAIN plan
  BY <1>2
<1>4. \A n \in DOMAIN plan : ~PlaysBefore(n, n)
  BY <1>1 DEF PlaysBefore
<1>5. ASSUME NEW i \in DOMAIN played, NEW j \in DOMAIN played, played[i] = played[j]
      PROVE  i = j
  <2>1. ~(i < j) /\ ~(j < i)
    BY <1>3, <1>4, <1>5 DEF RunInv, InOrder
  <2> QED
    BY <1>2, <2>1
<1>6. Range(played) \subseteq DOMAIN plan /\ IsInjective(played)
  BY <1>3, <1>5 DEF Range, IsInjective
<1>7. \A i \in Callbacks : log[i].event \in 1 .. i
  BY DEF RunInv, Originals, Original, RepeatOf
<1> QED
  BY <1>6, <1>7 DEF RunTypeOK, RunInv, RunShapes

LEMMA OrderAuthored ==
  ASSUME RunInv
  PROVE  AuthoredOrder
<1> SUFFICES ASSUME NEW i \in DOMAIN played, NEW j \in DOMAIN played, i < j
             PROVE  LET a == Step(played[i]).after
                        b == Step(played[j]).after
                    IN  /\ a = b => played[i] < played[j]
                        /\ Parses(a) /\ Parses(b) => ParseDuration(a) <= ParseDuration(b)
  BY DEF AuthoredOrder
<1>1. PICK m \in DOMAIN plan, n \in DOMAIN plan : m = played[i] /\ n = played[j]
  BY DEF RunInv, RunShapes
<1>2. PlaysBefore(m, n)
  BY <1>1 DEF RunInv, InOrder
<1>3. Compiles1(m) /\ Compiles1(n)
  BY PlanRows DEF RunInv
<1>4. ASSUME Step(m).after = Step(n).after
      PROVE  m < n
  <2>1. plan[m].due = plan[n].due /\ plan[m].due \in Int
    BY <1>3, <1>4 DEF Compiles1, IsSeeded
  <2> QED
    BY <1>2, <2>1 DEF PlaysBefore
<1>5. ASSUME Parses(Step(m).after), Parses(Step(n).after)
      PROVE  ParseDuration(Step(m).after) <= ParseDuration(Step(n).after)
  <2>1. Step(m).after \in [amount : Nat, unit : STRING] /\ Step(n).after \in [amount : Nat, unit : STRING]
    BY <1>3 DEF Compiles1, TimelineSteps
  <2>2. ~IsSeeded(Step(m)) /\ ~IsSeeded(Step(n))
    BY <1>5, <2>1, DurationTyped DEF IsSeeded
  <2>3. /\ plan[m].due = ParseDuration(Step(m).after) /\ plan[m].due \in Int
        /\ plan[n].due = ParseDuration(Step(n).after) /\ plan[n].due \in Int
    BY <1>3, <2>2 DEF Compiles1
  <2> QED
    BY <1>2, <2>3 DEF PlaysBefore
<1> QED
  BY <1>1, <1>4, <1>5

(* compiler.ts, random.ts, scheduler.ts: whatever is authored, the rows of a   *)
(* run fall due in the authored range, the seeded ones together, and are       *)
(* played each once, in the authored order.                                    *)
THEOREM PlayedAsAuthored == RunSpec => []TimelineAsAuthored
<1>1. ASSUME RunInv
      PROVE  TimelineAsAuthored
  <2>1. \A n \in DOMAIN plan : Compiles1(n)
    BY <1>1, PlanRows DEF RunInv
  <2>2. SeededTogether /\ DelayInRange
    BY <2>1 DEF SeededTogether, DelayInRange, Compiles1
  <2> QED
    BY <1>1, <2>2, PlayedOnce, OrderAuthored DEF TimelineAsAuthored
<1> QED
  BY <1>1, RunInvariance, PTL

(* scheduler.ts: every callback of a run has a body, and a repeated one the    *)
(* body and the signature of the first with its event.                         *)
THEOREM CallbacksStayTruthful == RunSpec => []CallbacksTruthful
<1>1. ASSUME RunInv
      PROVE  CallbacksTruthful
  <2>1. AlwaysShowable
    BY <1>1 DEF RunInv, Showable, AlwaysShowable
  <2>2. RepeatsExact
    BY <1>1 DEF RunInv, Originals, Original, RepeatOf, RepeatsExact
  <2> QED
    BY <2>1, <2>2 DEF CallbacksTruthful
<1> QED
  BY <1>1, RunInvariance, PTL

-----------------------------------------------------------------------------
(* The shipped scenarios.  Sound is what is checked of a definition as it is   *)
(* written, BuiltRun what then holds of every run of it: an authored order is  *)
(* never changed, so the state is the one the timeline gives at that step.     *)

PageActions == {"browser.redirect", "browser.show_result", "three_ds.open"}

(* Whatever is drawn, no step falls due before one that is authored earlier.   *)
InTurn(def) ==
  \A i, j \in DOMAIN def.timeline :
    i < j =>
      LET a == def.timeline[i]
          b == def.timeline[j]
      IN  IF IsSeeded(b) THEN IsSeeded(a) \/ ParseDuration(a.after) <= def.range[1]
          ELSE ~IsSeeded(a) /\ ParseDuration(a.after) <= ParseDuration(b.after)

(* The states a transaction goes through: c[n] is the one before the n-th step. *)
IsCourse(def, c) ==
  /\ c[1] = "processing"
  /\ \A n \in DOMAIN def.timeline :
       LET step == def.timeline[n] IN
       /\ step.action = "transaction.transition" =>
            HasProjection(step.arg) /\ IsLegalTransition(c[n], step.arg) /\ c[n + 1] = step.arg
       /\ step.action = "transaction.snapshot" => HasProjection(step.arg)
       /\ step.action # "transaction.transition" => c[n + 1] = c[n]
Settles(def, c) == def.extension # "three_ds" => c[Len(def.timeline) + 1] # "processing"
PagesTell(def, c) ==
  \A n \in DOMAIN def.timeline :
    def.timeline[n].action \in PageActions => def.timeline[n].arg = StatusOfState(c[n])
PlaysWell(def, c) == IsCourse(def, c) /\ Settles(def, c) /\ PagesTell(def, c)
(* The states of a timeline that plays well; there is one.                     *)
Course(def) == CHOOSE c : PlaysWell(def, c)

RefersBack(def) ==
  \A n \in DOMAIN def.timeline :
    Refers(def.timeline[n]) =>
      \E k \in 1 .. n - 1 : def.timeline[k].id = def.timeline[n].source
Tells(def, actions) ==
  /\ Len(def.timeline) >= 2
  /\ def.timeline[1].action = "transaction.transition" /\ def.timeline[2].action \in actions

(* What a timeline of k steps is made of.                                      *)
MadeOf(def, k) ==
  /\ DOMAIN def.timeline = 1 .. k
  /\ \A n \in 1 .. k :
       LET step == def.timeline[n] IN
       /\ IF IsSeeded(step) THEN def.range \in Nat \X Nat ELSE ParseDuration(step.after) \in Nat
       /\ step.action = "transaction.transition" => step.arg \in {"pending", "succeeded", "failed"}
       /\ step.action = "transaction.snapshot" => step.arg \in InternalStates

Sound(def) ==
  /\ \E k \in Nat : MadeOf(def, k)
  /\ Compiles(def) /\ InTurn(def) /\ PlaysWell(def, Course(def)) /\ RefersBack(def)
  /\ def = RedirectBeforeWebhook => Tells(def, PageActions)
  /\ def = WebhookBeforeRedirect => Tells(def, {"webhook.transaction"})

Told(kind) == FirstTold(kind) /\ (log = << >> <=> Len(played) <= 1)
(* The steps were played from the first on, none left out; the state is the    *)
(* course's, and every page showed it.                                         *)
BuiltRun ==
  /\ phase \in {"submitted", "playing"}
  /\ phase = "submitted" => played = << >>
  /\ phase = "playing" => plan = CompileScenario(scenario, draws)
  /\ \A i \in DOMAIN played : played[i] = i
  /\ state = Course(scenario)[Len(played) + 1]
  /\ \A i \in DOMAIN log : log[i].kind = "page" => log[i].shows = StatusOfState(log[i].state)
  /\ scenario = RedirectBeforeWebhook => Told("page")
  /\ scenario = WebhookBeforeRedirect => Told("callback")

(* The compiled rows are ordered as the steps they were compiled from.         *)
LEMMA RowsInTurn ==
  ASSUME RunInv, BuiltRun, phase = "playing", Sound(scenario)
  PROVE  /\ DOMAIN plan = 1 .. Len(scenario.timeline) /\ Len(scenario.timeline) \in Nat
         /\ \A n \in DOMAIN plan : Step(n) = scenario.timeline[n]
         /\ \A i, j \in DOMAIN plan : i < j => PlaysBefore(i, j) /\ ~PlaysBefore(j, i)
<1>1. Definition(scenario)
  BY InputsAssumption DEF RunInv, RunShapes
<1>2. scenario.timeline \in Seq(TimelineSteps) /\ plan = CompileScenario(scenario, draws)
  BY <1>1 DEF Definition, BuiltRun
<1>3. DOMAIN plan = 1 .. Len(scenario.timeline) /\ Len(scenario.timeline) \in Nat
      /\ DOMAIN scenario.timeline = DOMAIN plan
  BY <1>2 DEF CompileScenario
<1>4. \A n \in DOMAIN plan : Step(n) = scenario.timeline[n]
  BY <1>2, <1>3 DEF CompileScenario, Step
<1>5. ASSUME NEW i \in DOMAIN plan, NEW j \in DOMAIN plan, i < j
      PROVE  plan[i].due \in Int /\ plan[j].due \in Int /\ plan[i].due <= plan[j].due
  <2>1. Compiles1(i) /\ Compiles1(j)
    BY PlanRows DEF RunInv
  <2>2. InTurn(scenario)
    BY DEF Sound
  <2>3. IF IsSeeded(Step(j)) THEN IsSeeded(Step(i)) \/ ParseDuration(Step(i).after) <= scenario.range[1]
        ELSE ~IsSeeded(Step(i)) /\ ParseDuration(Step(i).after) <= ParseDuration(Step(j).after)
    BY <1>3, <1>4, <1>5, <2>2 DEF InTurn
  <2>4. scenario.range[1] \in Int /\ scenario.range[2] \in Int
    BY <1>1 DEF Definition
  <2>5. plan[i].due \in Int /\ plan[j].due \in Int
    BY <2>1 DEF Compiles1
  <2>6. CASE IsSeeded(Step(j)) /\ IsSeeded(Step(i))
    <3>1. plan[i].due = plan[j].due
      BY <2>1, <2>6 DEF Compiles1
    <3> QED BY <2>5, <3>1
  <2>7. CASE IsSeeded(Step(j)) /\ ~IsSeeded(Step(i))
    <3>1. plan[i].due <= scenario.range[1]
      BY <2>1, <2>3, <2>7 DEF Compiles1
    <3>2. plan[j].due \in scenario.range[1] .. scenario.range[2]
      BY <2>1, <2>7 DEF Compiles1
    <3> QED BY <2>4, <2>5, <3>1, <3>2
  <2>8. CASE ~IsSeeded(Step(j))
    <3>1. plan[i].due <= plan[j].due
      BY <2>1, <2>3, <2>8 DEF Compiles1
    <3> QED BY <2>5, <3>1
  <2> QED BY <2>6, <2>7, <2>8
<1>6. \A i, j \in DOMAIN plan : i < j => PlaysBefore(i, j) /\ ~PlaysBefore(j, i)
  BY <1>3, <1>5 DEF PlaysBefore
<1> QED BY <1>3, <1>4, <1>6

(* The step played is the one after the last that was.                         *)
LEMMA PlaysTheNext ==
  ASSUME RunInv, BuiltRun, Sound(scenario), NEW n \in DOMAIN plan, NEW actions, Plays(n, actions)
  PROVE  /\ n = Len(played) + 1 /\ Len(played') = n /\ Len(played) \in Nat
         /\ \A i \in DOMAIN played' : played'[i] = i
         /\ n \in DOMAIN scenario.timeline /\ Step(n) = scenario.timeline[n]
         /\ Step(n).action \in actions /\ phase = "playing"
<1>1. /\ played \in Seq(DOMAIN plan) /\ played' = Append(played, n) /\ IsNext(n)
      /\ phase = "playing" /\ Step(n).action \in actions
  BY DEF RunInv, RunShapes, Plays
<1>2. /\ DOMAIN plan = 1 .. Len(scenario.timeline) /\ Len(scenario.timeline) \in Nat
      /\ \A k \in DOMAIN plan : Step(k) = scenario.timeline[k]
      /\ \A i, j \in DOMAIN plan : i < j => PlaysBefore(i, j) /\ ~PlaysBefore(j, i)
  BY <1>1, RowsInTurn
<1>3. scenario.timeline \in Seq(TimelineSteps)
  BY InputsAssumption DEF RunInv, RunShapes, Definition
<1>4. DOMAIN played = 1 .. Len(played) /\ Len(played) \in Nat /\ \A i \in DOMAIN played : played[i] = i
  BY <1>1 DEF BuiltRun
<1>5. Range(played) = 1 .. Len(played)
  BY <1>4 DEF Range
<1>6. n \in Nat /\ n > Len(played)
  BY <1>1, <1>2, <1>4, <1>5 DEF IsNext, Unplayed
<1>7. n = Len(played) + 1
  <2> SUFFICES ASSUME n # Len(played) + 1 PROVE FALSE
    OBVIOUS
  <2> DEFINE m == Len(played) + 1
  <2>1. m \in DOMAIN plan /\ m < n /\ m \notin 1 .. Len(played)
    BY <1>2, <1>4, <1>6
  <2>2. m \in Unplayed \ {n}
    BY <1>5, <2>1 DEF Unplayed
  <2>3. PlaysBefore(n, m)
    BY <1>1, <2>2 DEF IsNext
  <2> QED BY <1>2, <2>1, <2>3
<1>8. Len(played') = n /\ \A i \in DOMAIN played' : played'[i] = i
  BY <1>1, <1>4, <1>7
<1> QED BY <1>1, <1>2, <1>3, <1>4, <1>7, <1>8

(* A step that sends nothing. *)
LEMMA QuietStep ==
  ASSUME RunInv, BuiltRun, Sound(scenario), NEW n \in DOMAIN plan, NEW actions, Plays(n, actions),
         UNCHANGED <<scenario, draws, plan, phase, log>>,
         Step(n).action \notin PageActions \cup {"webhook.transaction"},
         state' = Course(scenario)[n + 1]
  PROVE  BuiltRun'
<1>1. /\ n = Len(played) + 1 /\ Len(played') = n /\ Len(played) \in Nat
      /\ \A i \in DOMAIN played' : played'[i] = i
      /\ n \in DOMAIN scenario.timeline /\ Step(n) = scenario.timeline[n]
      /\ phase = "playing"
  BY PlaysTheNext
<1>2. ASSUME NEW kind, NEW actions2, actions2 \subseteq PageActions \cup {"webhook.transaction"},
             Tells(scenario, actions2), Told(kind)
      PROVE  Told(kind)'
  <2>1. n # 2
    BY <1>1, <1>2 DEF Tells
  <2>2. log' = << >> <=> Len(played') <= 1
    BY <1>1, <1>2, <2>1 DEF Told
  <2> QED BY <1>2, <2>2 DEF Told, FirstTold
<1>3. scenario = RedirectBeforeWebhook => Told("page")'
  BY <1>2 DEF BuiltRun, Sound
<1>4. scenario = WebhookBeforeRedirect => Told("callback")'
  BY <1>2 DEF BuiltRun, Sound
<1> QED BY <1>1, <1>3, <1>4 DEF BuiltRun

(* A step that sends or shows something. *)
LEMMA EntryStep ==
  ASSUME RunInv, BuiltRun, Sound(scenario), NEW n \in DOMAIN plan, NEW actions, Plays(n, actions),
         UNCHANGED <<scenario, draws, plan, phase, state>>,
         Step(n).action # "transaction.transition",
         NEW entry \in LogEntry, log' = Append(log, entry),
         entry.kind = "page" => entry.shows = StatusOfState(entry.state),
         Step(n).action \in PageActions => entry.kind = "page",
         Step(n).action = "webhook.transaction" => entry.kind = "callback"
  PROVE  BuiltRun'
<1>1. /\ n = Len(played) + 1 /\ Len(played') = n /\ Len(played) \in Nat
      /\ \A i \in DOMAIN played' : played'[i] = i
      /\ n \in DOMAIN scenario.timeline /\ Step(n) = scenario.timeline[n]
      /\ phase = "playing"
  BY PlaysTheNext
<1>2. /\ log \in Seq(LogEntry) /\ Len(log) \in Nat /\ DOMAIN log' = 1 .. Len(log) + 1
      /\ log'[Len(log) + 1] = entry /\ \A i \in DOMAIN log : log'[i] = log[i]
      /\ DOMAIN log = 1 .. Len(log) /\ log' # << >>
  BY DEF RunInv, RunShapes
<1>3. ASSUME NEW kind, NEW actions2, Tells(scenario, actions2), Told(kind),
             Step(n).action \in actions2 => entry.kind = kind
      PROVE  Told(kind)'
  <2>1. n # 1
    BY <1>1, <1>3 DEF Tells
  <2>2. log' = << >> <=> Len(played') <= 1
    BY <1>1, <1>2, <2>1
  <2>3. log'[1].kind = kind
    <3>1. CASE log = << >>
      <4>1. n = 2
        BY <1>1, <1>3, <2>1, <3>1 DEF Told
      <4>2. entry.kind = kind
        BY <1>1, <1>3, <4>1 DEF Tells
      <4> QED BY <1>2, <3>1, <4>2
    <3>2. CASE log # << >>
      <4>1. 1 \in DOMAIN log
        BY <1>2, <3>2
      <4> QED BY <1>2, <1>3, <3>2, <4>1 DEF Told, FirstTold
    <3> QED BY <3>1, <3>2
  <2> QED BY <2>2, <2>3 DEF Told, FirstTold
<1>4. scenario = RedirectBeforeWebhook => Told("page")'
  BY <1>3 DEF BuiltRun, Sound
<1>5. scenario = WebhookBeforeRedirect => Told("callback")'
  BY <1>3 DEF BuiltRun, Sound
<1>6. state' = Course(scenario)[n + 1]
  <2>1. IsCourse(scenario, Course(scenario))
    BY DEF Sound, PlaysWell
  <2>2. Course(scenario)[n + 1] = Course(scenario)[n]
    BY <1>1, <2>1 DEF IsCourse
  <2> QED BY <1>1, <2>2 DEF BuiltRun
<1>7. \A i \in DOMAIN log' : log'[i].kind = "page" => log'[i].shows = StatusOfState(log'[i].state)
  BY <1>2 DEF BuiltRun
<1> QED BY <1>1, <1>4, <1>5, <1>6, <1>7 DEF BuiltRun

(* One action of a shipped scenario.                                           *)
LEMMA BuiltPlays ==
  ASSUME RunInv, BuiltRun, Sound(scenario), NEW n \in DOMAIN plan, Play(n)
  PROVE  BuiltRun'
<1> DEFINE c == Course(scenario)
<1>1. IsCourse(scenario, c) /\ PagesTell(scenario, c)
  BY DEF Sound, PlaysWell
<1>2. ASSUME NEW actions, Plays(n, actions)
      PROVE  /\ state = c[n] /\ Step(n) = scenario.timeline[n] /\ n \in DOMAIN scenario.timeline
             /\ Step(n).action \in actions
             /\ Step(n).action = "transaction.transition" =>
                  Applies(n) /\ c[n + 1] = Step(n).arg
             /\ Step(n).action = "transaction.snapshot" => Applies(n)
             /\ Step(n).action # "transaction.transition" => c[n + 1] = state
  <2>1. /\ n = Len(played) + 1 /\ n \in DOMAIN scenario.timeline /\ Step(n) = scenario.timeline[n]
        /\ Step(n).action \in actions
    BY <1>2, PlaysTheNext
  <2>2. state = c[n]
    BY <2>1 DEF BuiltRun
  <2> HIDE DEF c
  <2> QED BY <1>1, <2>1, <2>2 DEF IsCourse, Applies
<1> HIDE DEF c
<1>3. CASE PlayTransition(n)
  <2>1. /\ Plays(n, {"transaction.transition"}) /\ state' = Step(n).arg
        /\ UNCHANGED <<scenario, draws, plan, phase, log>>
    BY <1>3 DEF PlayTransition
  <2>2. state' = c[n + 1] /\ Step(n).action \notin PageActions \cup {"webhook.transaction"}
    BY <1>2, <2>1 DEF PageActions
  <2> QED BY <2>1, <2>2, QuietStep DEF c
<1>4. CASE PlaySnapshot(n)
  <2>1. /\ Plays(n, {"transaction.snapshot"})
        /\ UNCHANGED <<scenario, draws, plan, phase, log, state>>
    BY <1>4 DEF PlaySnapshot
  <2>2. state' = c[n + 1] /\ Step(n).action \notin PageActions \cup {"webhook.transaction"}
    BY <1>2, <2>1 DEF PageActions
  <2> QED BY <2>1, <2>2, QuietStep DEF c
<1>5. CASE PlayThrows(n)
  <2>1. Plays(n, {"transaction.transition", "transaction.snapshot"}) /\ ~Applies(n)
    BY <1>5 DEF PlayThrows
  <2> QED BY <1>2, <2>1
<1>6. CASE PlayWebhook(n)
  <2> DEFINE entry == CallbackEntry(n, BodyOf(n), "valid", Len(log) + 1)
  <2>1. /\ Plays(n, {"webhook.transaction"}) /\ log' = Append(log, entry)
        /\ UNCHANGED <<scenario, draws, plan, phase, state>>
    BY <1>6 DEF PlayWebhook
  <2>2. BodyOf(n) \in Shown /\ Len(log) + 1 \in Nat
    BY BodyShowable DEF Shown, RunInv, RunShapes
  <2>3. entry \in LogEntry /\ entry.kind = "callback"
    BY <2>2, EntryTyped DEF CallbackEntry
  <2>4. Step(n).action = "webhook.transaction"
    BY <1>2, <2>1
  <2> HIDE DEF entry
  <2> QED BY <2>1, <2>3, <2>4, EntryStep DEF PageActions
<1>7. CASE PlayRepeat(n)
  <2>1. Plays(n, {"webhook.repeat"}) /\ UNCHANGED <<scenario, draws, plan, phase, state>>
    BY <1>7 DEF PlayRepeat
  <2>2. Step(n).action = "webhook.repeat"
    BY <1>2, <2>1
  <2>3. CASE SourcesOf(n) = {}
    <3>1. log' = log /\ state' = c[n + 1]
      BY <1>2, <1>7, <2>1, <2>2, <2>3 DEF PlayRepeat
    <3> QED BY <2>1, <2>2, <3>1, QuietStep DEF c, PageActions
  <2>4. CASE SourcesOf(n) # {}
    <3> DEFINE entry == CallbackEntry(n, SourceOf(n).shows, SourceOf(n).signature, SourceOf(n).event)
    <3>1. log' = Append(log, entry)
      BY <1>7, <2>4 DEF PlayRepeat
    <3>2. /\ SourceOf(n) \in LogEntry /\ SourceOf(n).signature \in {"valid", "corrupt"}
      BY <2>4, SourceTyped
    <3>3. SourceOf(n).shows \in Shown /\ SourceOf(n).event \in Nat
      BY <3>2 DEF LogEntry
    <3>4. entry \in LogEntry /\ entry.kind = "callback"
      BY <3>2, <3>3, EntryTyped DEF CallbackEntry
    <3> HIDE DEF entry
    <3> QED BY <2>1, <2>2, <3>1, <3>4, EntryStep DEF PageActions
  <2> QED BY <2>3, <2>4
<1>8. CASE PlayCorruptHmac(n)
  <2> DEFINE shown == IF SourcesOf(n) = {} THEN state ELSE SourceOf(n).shows
             entry == CallbackEntry(n, shown, "corrupt", Len(log) + 1)
  <2>1. /\ Plays(n, {"webhook.corrupt_hmac"}) /\ log' = Append(log, entry)
        /\ UNCHANGED <<scenario, draws, plan, phase, state>>
    BY <1>8 DEF PlayCorruptHmac
  <2>2. Step(n).action = "webhook.corrupt_hmac"
    BY <1>2, <2>1
  <2>3. shown \in Shown
    <3>1. CASE SourcesOf(n) = {}
      BY <3>1 DEF Shown, RunInv, RunShapes
    <3>2. CASE SourcesOf(n) # {}
      BY <3>2, SourceTyped DEF LogEntry
    <3> QED BY <3>1, <3>2
  <2>4. Len(log) + 1 \in Nat
    BY DEF RunInv, RunShapes
  <2> HIDE DEF shown
  <2>5. entry \in LogEntry /\ entry.kind = "callback"
    BY <2>3, <2>4, EntryTyped DEF CallbackEntry
  <2> HIDE DEF entry
  <2> QED BY <2>1, <2>2, <2>5, EntryStep DEF PageActions
<1>9. CASE PlayPage(n)
  <2> DEFINE entry == PageEntry(n)
  <2>1. /\ Plays(n, PageActions) /\ log' = Append(log, entry)
        /\ UNCHANGED <<scenario, draws, plan, phase, state>>
    BY <1>9 DEF PlayPage, PageActions
  <2>2. Step(n).id \in STRING /\ Step(n).arg \in STRING /\ state \in InternalStates
    BY PlanRows DEF RunInv, RunShapes, Compiles1, TimelineSteps
  <2>3. entry \in LogEntry /\ entry.kind = "page"
    BY <2>2 DEF PageEntry, LogEntry, Shown
  <2>4. Step(n).action \in PageActions
    BY <1>2, <2>1
  <2>5. entry.shows = StatusOfState(entry.state)
    <3>1. scenario.timeline[n].arg = StatusOfState(c[n])
      BY <1>1, <1>2, <2>1, <2>4 DEF PagesTell
    <3>2. entry.shows = Step(n).arg /\ entry.state = state
      BY DEF PageEntry
    <3> QED BY <1>2, <2>1, <3>1, <3>2
  <2> HIDE DEF entry
  <2> QED BY <2>1, <2>3, <2>4, <2>5, EntryStep DEF PageActions
<1>10. CASE PlayNothing(n)
  <2> DEFINE none == {"webhook.omit", "webhook.token", "webhook.mutate_payload",
                      "browser.post_message", "three_ds.complete", "clock.note"}
  <2>1. Plays(n, none) /\ UNCHANGED <<scenario, draws, plan, phase, state, log>>
    BY <1>10 DEF PlayNothing
  <2>2. Step(n).action \in none
    BY <1>2, <2>1
  <2>3. state' = c[n + 1] /\ Step(n).action \notin PageActions \cup {"webhook.transaction"}
    BY <1>2, <2>1, <2>2 DEF PageActions
  <2> QED BY <2>1, <2>3, QuietStep DEF c
<1> QED
  BY <1>3, <1>4, <1>5, <1>6, <1>7, <1>8, <1>9, <1>10 DEF Play

BuiltInInv == RunInv /\ (IsBuiltIn => Sound(scenario) /\ BuiltRun)

(* The inductive invariant, once every shipped definition is Sound.            *)
LEMMA BuiltInvariance ==
  ASSUME \A def \in BuiltInScenarios : Sound(def)
  PROVE  RunSpec => []BuiltInInv
<1>1. RunInit => BuiltInInv
  <2> SUFFICES ASSUME RunInit, IsBuiltIn PROVE Sound(scenario) /\ BuiltRun
    BY RunInitInv DEF BuiltInInv
  <2>1. Sound(scenario)
    BY DEF IsBuiltIn
  <2>2. IsCourse(scenario, Course(scenario))
    BY <2>1 DEF Sound, PlaysWell
  <2>3. Len(played) = 0 /\ log = << >> /\ played = << >>
    BY DEF RunInit
  <2>4. Told("page") /\ Told("callback")
    BY <2>3 DEF Told, FirstTold
  <2> QED BY <2>1, <2>2, <2>3, <2>4 DEF BuiltRun, RunInit, IsCourse
<1>2. BuiltInInv /\ [RunNext]_runVars => BuiltInInv'
  <2> SUFFICES ASSUME BuiltInInv, [RunNext]_runVars, IsBuiltIn' PROVE (Sound(scenario) /\ BuiltRun)'
    BY RunNextInv DEF BuiltInInv
  <2>1. scenario' = scenario
    BY DEF RunNext, Compile, Play, PlayTransition, PlaySnapshot, PlayThrows, PlayWebhook, PlayRepeat,
           PlayCorruptHmac, PlayPage, PlayNothing, runVars
  <2>2. IsBuiltIn /\ Sound(scenario) /\ BuiltRun /\ RunInv
    BY <2>1 DEF BuiltInInv, IsBuiltIn
  <2>3. Sound(scenario)'
    BY <2>1, <2>2
  <2>4. CASE Compile
    <3>1. /\ phase' = "playing" /\ plan' = CompileScenario(scenario, draws)
          /\ UNCHANGED <<scenario, draws, played, state, snaps, log>>
      BY <2>2, <2>4 DEF Compile, Sound
    <3> QED BY <2>2, <3>1 DEF BuiltRun, Told, FirstTold
  <2>5. ASSUME NEW n \in DOMAIN plan, Play(n) PROVE BuiltRun'
    BY <2>2, <2>5, BuiltPlays
  <2>6. CASE UNCHANGED runVars
    BY <2>2, <2>6 DEF BuiltRun, Told, FirstTold, runVars
  <2> QED BY <2>3, <2>4, <2>5, <2>6 DEF RunNext
<1> QED BY <1>1, <1>2, PTL DEF RunSpec

LEMMA SoundRun ==
  ASSUME BuiltInInv
  PROVE  BuiltInsSound
<1>1. CASE ~IsBuiltIn
  <2>1. scenario # RedirectBeforeWebhook /\ scenario # WebhookBeforeRedirect
    BY <1>1 DEF IsBuiltIn, BuiltInScenarios
  <2> QED BY <1>1, <2>1 DEF BuiltInsSound, BuiltInsPlay, PagesTruthful, ReferencesPrecede, NamesKeepOrder
<1>2. CASE IsBuiltIn
  <2>1. RunInv /\ Sound(scenario) /\ BuiltRun
    BY <1>2 DEF BuiltInInv
  <2>2. BuiltInsPlay
    <3> SUFFICES ASSUME Complete, scenario.extension # "three_ds" PROVE state # "processing"
      BY <2>1 DEF BuiltInsPlay, BuiltRun
    <3>1. phase = "playing" /\ Unplayed = {}
      BY DEF Complete
    <3>2. DOMAIN plan = 1 .. Len(scenario.timeline) /\ Len(scenario.timeline) \in Nat
      BY <2>1, <3>1, RowsInTurn
    <3>3. played \in Seq(DOMAIN plan) /\ \A i \in DOMAIN played : played[i] = i
      BY <2>1 DEF RunInv, RunShapes, BuiltRun
    <3>4. Range(played) = 1 .. Len(played) /\ Len(played) \in Nat
      BY <3>3 DEF Range
    <3>5. \A n \in 1 .. Len(scenario.timeline) : n \in 1 .. Len(played)
      BY <3>1, <3>2, <3>4 DEF Unplayed
    <3>6. \A n \in 1 .. Len(played) : n \in 1 .. Len(scenario.timeline)
      BY <3>2, <3>3
    <3>7. Len(played) = Len(scenario.timeline)
      BY <3>2, <3>4, <3>5, <3>6
    <3> QED BY <2>1, <3>7 DEF BuiltRun, Sound, PlaysWell, Settles
  <2>3. PagesTruthful
    BY <2>1 DEF PagesTruthful, BuiltRun
  <2>4. ReferencesPrecede
    <3> SUFFICES ASSUME NEW i \in DOMAIN played, Refers(Step(played[i]))
                 PROVE  \E j \in 1 .. i - 1 : Step(played[j]).id = Step(played[i]).source
      BY DEF ReferencesPrecede
    <3>1. phase = "playing"
      BY <2>1 DEF BuiltRun
    <3>2. /\ DOMAIN plan = 1 .. Len(scenario.timeline) /\ Len(scenario.timeline) \in Nat
          /\ \A n \in DOMAIN plan : Step(n) = scenario.timeline[n]
      BY <2>1, <3>1, RowsInTurn
    <3>3. played \in Seq(DOMAIN plan) /\ \A k \in DOMAIN played : played[k] = k
      BY <2>1 DEF RunInv, RunShapes, BuiltRun
    <3>4. DOMAIN played = 1 .. Len(played) /\ Len(played) \in Nat /\ i \in Nat
      BY <3>3
    <3>5. \A k \in 1 .. i : k \in DOMAIN played /\ k \in DOMAIN plan /\ Step(played[k]) = scenario.timeline[k]
      BY <3>2, <3>3, <3>4
    <3>6. scenario.timeline \in Seq(TimelineSteps)
      BY <2>1, InputsAssumption DEF RunInv, RunShapes, Definition
    <3>7. i \in DOMAIN scenario.timeline /\ i \in 1 .. i
      BY <3>2, <3>4, <3>5, <3>6
    <3>8. PICK k \in 1 .. i - 1 : scenario.timeline[k].id = scenario.timeline[i].source
      BY <2>1, <3>5, <3>7 DEF Sound, RefersBack
    <3> QED BY <3>4, <3>5, <3>7, <3>8
  <2>5. NamesKeepOrder
    BY <2>1 DEF NamesKeepOrder, BuiltRun, Told
  <2> QED BY <2>2, <2>3, <2>4, <2>5 DEF BuiltInsSound
<1> QED BY <1>1, <1>2

(* Ids that are all different are as many as the steps.                        *)
LEMMA DistinctIds ==
  ASSUME NEW tl, NEW k \in Nat, DOMAIN tl = 1 .. k, Len(tl) = k,
         \A i, j \in DOMAIN tl : tl[i].id = tl[j].id => i = j
  PROVE  Cardinality(IdsOf(tl)) = Len(tl)
<1> DEFINE f == [n \in 1 .. k |-> tl[n].id]
<1>1. IsFiniteSet(1 .. k) /\ Cardinality(1 .. k) = k
  BY FS_Interval
<1>2. f \in Bijection(1 .. k, IdsOf(tl))
  <2>1. f \in [1 .. k -> IdsOf(tl)]
    BY DEF IdsOf
  <2>2. \A i, j \in 1 .. k : f[i] = f[j] => i = j
    OBVIOUS
  <2>3. \A id \in IdsOf(tl) : \E n \in 1 .. k : f[n] = id
    BY DEF IdsOf
  <2> QED BY <2>1, <2>2, <2>3 DEF Bijection, Injection, Surjection, IsInjective
<1> HIDE DEF f
<1> QED BY <1>1, <1>2, FS_Bijection DEF ExistsBijection

(* What the definitions are made of: their waits, moves and pages.             *)
LEMMA Waits ==
  /\ Parses(Immediately) /\ ParseDuration(Immediately) = 0 /\ Immediately # Seeded
  /\ Parses(Soon) /\ ParseDuration(Soon) = 100 /\ Soon # Seeded
  /\ Parses(In5s) /\ ParseDuration(In5s) = 5000 /\ In5s # Seeded
  /\ Parses(In2m) /\ ParseDuration(In2m) = 120000 /\ In2m # Seeded
  /\ Parses(Duration(30, "s")) /\ ParseDuration(Duration(30, "s")) = 30000 /\ Duration(30, "s") # Seeded
  BY DEF Parses, ParseDuration, Immediately, Soon, In5s, In2m, Duration, Seeded, UnitToMs

LEMMA LegalMoves ==
  /\ IsLegalTransition("processing", "succeeded") /\ IsLegalTransition("processing", "failed")
  /\ IsLegalTransition("processing", "pending")
  /\ IsLegalTransition("pending", "succeeded") /\ IsLegalTransition("pending", "failed")
  /\ \A s \in {"processing", "pending", "succeeded", "failed"} : HasProjection(s)
  BY DEF IsLegalTransition, NormalTransitions, InternalStates, HasProjection, NoProjectionStates

LEMMA ShownAs ==
  /\ StatusOfState("succeeded") = "success" /\ StatusOfState("failed") = "failed"
  /\ StatusOfState("pending") = "pending" /\ StatusOfState("processing") = "none"
  BY DEF StatusOfState

(* What is checked of a timeline of k steps, whose states are c.               *)
WellMade(def, k, c) ==
  /\ DOMAIN def.timeline = 1 .. k /\ Len(def.timeline) = k
  /\ \A i, j \in 1 .. k : def.timeline[i].id = def.timeline[j].id => i = j
  /\ \A n \in 1 .. k : IF IsSeeded(def.timeline[n]) THEN ValidRange(def.range)
                       ELSE Parses(def.timeline[n].after)
  /\ MadeOf(def, k) /\ InTurn(def) /\ RefersBack(def) /\ PlaysWell(def, c)

LEMMA SoundWhen ==
  ASSUME NEW def, NEW k \in Nat, NEW c, WellMade(def, k, c),
         def = RedirectBeforeWebhook => Tells(def, PageActions),
         def = WebhookBeforeRedirect => Tells(def, {"webhook.transaction"})
  PROVE  Sound(def)
<1> USE DEF WellMade
<1>1. Cardinality(IdsOf(def.timeline)) = Len(def.timeline)
  BY DistinctIds
<1>2. \A n \in DOMAIN def.timeline :
        Refers(def.timeline[n]) => def.timeline[n].source \in IdsOf(def.timeline)
  <2> SUFFICES ASSUME NEW n \in DOMAIN def.timeline, Refers(def.timeline[n])
               PROVE  def.timeline[n].source \in IdsOf(def.timeline)
    OBVIOUS
  <2>1. PICK m \in 1 .. n - 1 : def.timeline[m].id = def.timeline[n].source
    BY DEF RefersBack
  <2> QED BY <2>1 DEF IdsOf
<1>3. Compiles(def)
  BY <1>1, <1>2 DEF Compiles, ValidStructure
<1>4. PlaysWell(def, Course(def))
  BY DEF Course
<1> QED BY <1>3, <1>4 DEF Sound

(* The timelines, as they are written.                                         *)
LEMMA OutrightTimeline ==
  ASSUME NEW def, NEW to \in {"succeeded", "failed"},
         def.timeline = <<Transition("transition", Immediately, to),
                           Webhook("webhook", Immediately, "current"),
                           Redirect("redirect", Soon, StatusOfState(to))>>
  PROVE  WellMade(def, 3, <<"processing", to, to, to>>)
<1> DEFINE tl == def.timeline
<1> USE DEF Transition, Snapshot, Redirect, ShowResult, ThreeDSOpen, Webhook, Repeat, CorruptHmac,
            Omit, TimelineStep
<1>1. /\ DOMAIN tl = 1 .. 3 /\ Len(tl) = 3
      /\ tl[1] = Transition("transition", Immediately, to)
      /\ tl[2] = Webhook("webhook", Immediately, "current")
      /\ tl[3] = Redirect("redirect", Soon, StatusOfState(to))
  OBVIOUS
<1>2. \A i, j \in 1 .. 3 : tl[i].id = tl[j].id => i = j
  BY <1>1
<1>3. \A n \in 1 .. 3 : IF IsSeeded(tl[n]) THEN ValidRange(def.range) ELSE Parses(tl[n].after)
  BY <1>1, Waits DEF IsSeeded, ValidRange
<1>4. InTurn(def)
  BY <1>1, Waits DEF InTurn, IsSeeded
<1>5. RefersBack(def)
  BY <1>1 DEF RefersBack, Refers
<1>6. PlaysWell(def, <<"processing", to, to, to>>)
  BY <1>1, LegalMoves, ShownAs DEF PlaysWell, IsCourse, Settles, PagesTell, PageActions
<1>7. MadeOf(def, 3)
  BY <1>1, Waits DEF MadeOf, IsSeeded, InternalStates
<1> QED BY <1>1, <1>2, <1>3, <1>4, <1>5, <1>6, <1>7 DEF WellMade

LEMMA DelayedTimeline ==
  ASSUME NEW def, NEW to \in {"succeeded", "failed"}, NEW first \in {"success-transition", "failed-transition"},
         NEW second \in {"success-webhook", "failed-webhook"},
         def.timeline = <<Transition("pending-transition", Immediately, "pending"),
                           Redirect("pending-redirect", Immediately, "pending"),
                           Transition(first, In2m, to),
                           Webhook(second, In2m, "current")>>
  PROVE  WellMade(def, 4, <<"processing", "pending", "pending", to, to>>)
<1> DEFINE tl == def.timeline
<1> USE DEF Transition, Snapshot, Redirect, ShowResult, ThreeDSOpen, Webhook, Repeat, CorruptHmac,
            Omit, TimelineStep
<1>1. /\ DOMAIN tl = 1 .. 4 /\ Len(tl) = 4
      /\ tl[1] = Transition("pending-transition", Immediately, "pending")
      /\ tl[2] = Redirect("pending-redirect", Immediately, "pending")
      /\ tl[3] = Transition(first, In2m, to)
      /\ tl[4] = Webhook(second, In2m, "current")
  OBVIOUS
<1>2. \A i, j \in 1 .. 4 : tl[i].id = tl[j].id => i = j
  BY <1>1
<1>3. \A n \in 1 .. 4 : IF IsSeeded(tl[n]) THEN ValidRange(def.range) ELSE Parses(tl[n].after)
  BY <1>1, Waits DEF IsSeeded, ValidRange
<1>4. InTurn(def)
  BY <1>1, Waits DEF InTurn, IsSeeded
<1>5. RefersBack(def)
  BY <1>1 DEF RefersBack, Refers
<1>6. PlaysWell(def, <<"processing", "pending", "pending", to, to>>)
  BY <1>1, LegalMoves, ShownAs DEF PlaysWell, IsCourse, Settles, PagesTell, PageActions
<1>7. MadeOf(def, 4)
  BY <1>1, Waits DEF MadeOf, IsSeeded, InternalStates
<1> QED BY <1>1, <1>2, <1>3, <1>4, <1>5, <1>6, <1>7 DEF WellMade

LEMMA PendingTimeline ==
  ASSUME NEW def,
         def.timeline = <<Transition("transition", Immediately, "pending"),
                           ShowResult("result", Immediately, "pending")>>
  PROVE  WellMade(def, 2, <<"processing", "pending", "pending">>)
<1> DEFINE tl == def.timeline
<1> USE DEF Transition, Snapshot, Redirect, ShowResult, ThreeDSOpen, Webhook, Repeat, CorruptHmac,
            Omit, TimelineStep
<1>1. /\ DOMAIN tl = 1 .. 2 /\ Len(tl) = 2
      /\ tl[1] = Transition("transition", Immediately, "pending")
      /\ tl[2] = ShowResult("result", Immediately, "pending")
  OBVIOUS
<1>2. \A i, j \in 1 .. 2 : tl[i].id = tl[j].id => i = j
  BY <1>1
<1>3. \A n \in 1 .. 2 : IF IsSeeded(tl[n]) THEN ValidRange(def.range) ELSE Parses(tl[n].after)
  BY <1>1, Waits DEF IsSeeded, ValidRange
<1>4. InTurn(def)
  BY <1>1, Waits DEF InTurn, IsSeeded
<1>5. RefersBack(def)
  BY <1>1 DEF RefersBack, Refers
<1>6. PlaysWell(def, <<"processing", "pending", "pending">>)
  BY <1>1, LegalMoves, ShownAs DEF PlaysWell, IsCourse, Settles, PagesTell, PageActions
<1>7. MadeOf(def, 2)
  BY <1>1, Waits DEF MadeOf, IsSeeded, InternalStates
<1> QED BY <1>1, <1>2, <1>3, <1>4, <1>5, <1>6, <1>7 DEF WellMade

LEMMA OmittedTimeline ==
  ASSUME NEW def,
         def.timeline = <<Transition("transition", Immediately, "succeeded"),
                           Omit("omit", Immediately),
                           Redirect("redirect", Soon, "success")>>
  PROVE  WellMade(def, 3, <<"processing", "succeeded", "succeeded", "succeeded">>)
<1> DEFINE tl == def.timeline
<1> USE DEF Transition, Snapshot, Redirect, ShowResult, ThreeDSOpen, Webhook, Repeat, CorruptHmac,
            Omit, TimelineStep
<1>1. /\ DOMAIN tl = 1 .. 3 /\ Len(tl) = 3
      /\ tl[1] = Transition("transition", Immediately, "succeeded")
      /\ tl[2] = Omit("omit", Immediately)
      /\ tl[3] = Redirect("redirect", Soon, "success")
  OBVIOUS
<1>2. \A i, j \in 1 .. 3 : tl[i].id = tl[j].id => i = j
  BY <1>1
<1>3. \A n \in 1 .. 3 : IF IsSeeded(tl[n]) THEN ValidRange(def.range) ELSE Parses(tl[n].after)
  BY <1>1, Waits DEF IsSeeded, ValidRange
<1>4. InTurn(def)
  BY <1>1, Waits DEF InTurn, IsSeeded
<1>5. RefersBack(def)
  BY <1>1 DEF RefersBack, Refers
<1>6. PlaysWell(def, <<"processing", "succeeded", "succeeded", "succeeded">>)
  BY <1>1, LegalMoves, ShownAs DEF PlaysWell, IsCourse, Settles, PagesTell, PageActions
<1>7. MadeOf(def, 3)
  BY <1>1, Waits DEF MadeOf, IsSeeded, InternalStates
<1> QED BY <1>1, <1>2, <1>3, <1>4, <1>5, <1>6, <1>7 DEF WellMade

LEMMA RepeatedTimeline ==
  ASSUME NEW def,
         def.timeline = <<Transition("transition", Immediately, "succeeded"),
                           Webhook("webhook", Immediately, "current"),
                           Redirect("redirect", Soon, "success"),
                           Repeat("duplicate-1", In5s, "webhook"),
                           Repeat("duplicate-2", Duration(30, "s"), "webhook")>>
  PROVE  WellMade(def, 5, <<"processing", "succeeded", "succeeded", "succeeded", "succeeded", "succeeded">>)
<1> DEFINE tl == def.timeline
<1> USE DEF Transition, Snapshot, Redirect, ShowResult, ThreeDSOpen, Webhook, Repeat, CorruptHmac,
            Omit, TimelineStep
<1>1. /\ DOMAIN tl = 1 .. 5 /\ Len(tl) = 5
      /\ tl[1] = Transition("transition", Immediately, "succeeded")
      /\ tl[2] = Webhook("webhook", Immediately, "current")
      /\ tl[3] = Redirect("redirect", Soon, "success")
      /\ tl[4] = Repeat("duplicate-1", In5s, "webhook")
      /\ tl[5] = Repeat("duplicate-2", Duration(30, "s"), "webhook")
  OBVIOUS
<1>2. \A i, j \in 1 .. 5 : tl[i].id = tl[j].id => i = j
  BY <1>1
<1>3. \A n \in 1 .. 5 : IF IsSeeded(tl[n]) THEN ValidRange(def.range) ELSE Parses(tl[n].after)
  BY <1>1, Waits DEF IsSeeded, ValidRange
<1>4. InTurn(def)
  BY <1>1, Waits DEF InTurn, IsSeeded
<1>5. RefersBack(def)
  BY <1>1 DEF RefersBack, Refers
<1>6. PlaysWell(def, <<"processing", "succeeded", "succeeded", "succeeded", "succeeded", "succeeded">>)
  BY <1>1, LegalMoves, ShownAs DEF PlaysWell, IsCourse, Settles, PagesTell, PageActions
<1>7. MadeOf(def, 5)
  BY <1>1, Waits DEF MadeOf, IsSeeded, InternalStates
<1> QED BY <1>1, <1>2, <1>3, <1>4, <1>5, <1>6, <1>7 DEF WellMade

LEMMA CorruptedTimeline ==
  ASSUME NEW def,
         def.timeline = <<Transition("transition", Immediately, "succeeded"),
                           CorruptHmac("webhook", Immediately, "transition"),
                           Redirect("redirect", Soon, "success")>>
  PROVE  WellMade(def, 3, <<"processing", "succeeded", "succeeded", "succeeded">>)
<1> DEFINE tl == def.timeline
<1> USE DEF Transition, Snapshot, Redirect, ShowResult, ThreeDSOpen, Webhook, Repeat, CorruptHmac,
            Omit, TimelineStep
<1>1. /\ DOMAIN tl = 1 .. 3 /\ Len(tl) = 3
      /\ tl[1] = Transition("transition", Immediately, "succeeded")
      /\ tl[2] = CorruptHmac("webhook", Immediately, "transition")
      /\ tl[3] = Redirect("redirect", Soon, "success")
  OBVIOUS
<1>2. \A i, j \in 1 .. 3 : tl[i].id = tl[j].id => i = j
  BY <1>1
<1>3. \A n \in 1 .. 3 : IF IsSeeded(tl[n]) THEN ValidRange(def.range) ELSE Parses(tl[n].after)
  BY <1>1, Waits DEF IsSeeded, ValidRange
<1>4. InTurn(def)
  BY <1>1, Waits DEF InTurn, IsSeeded
<1>5. RefersBack(def)
  BY <1>1 DEF RefersBack, Refers
<1>6. PlaysWell(def, <<"processing", "succeeded", "succeeded", "succeeded">>)
  BY <1>1, LegalMoves, ShownAs DEF PlaysWell, IsCourse, Settles, PagesTell, PageActions
<1>7. MadeOf(def, 3)
  BY <1>1, Waits DEF MadeOf, IsSeeded, InternalStates
<1> QED BY <1>1, <1>2, <1>3, <1>4, <1>5, <1>6, <1>7 DEF WellMade

LEMMA RedirectFirstTimeline ==
  ASSUME NEW def,
         def.timeline = <<Transition("transition", Immediately, "succeeded"),
                           Redirect("redirect", Immediately, "success"),
                           Webhook("webhook", In5s, "current")>>
  PROVE  WellMade(def, 3, <<"processing", "succeeded", "succeeded", "succeeded">>)
<1> DEFINE tl == def.timeline
<1> USE DEF Transition, Snapshot, Redirect, ShowResult, ThreeDSOpen, Webhook, Repeat, CorruptHmac,
            Omit, TimelineStep
<1>1. /\ DOMAIN tl = 1 .. 3 /\ Len(tl) = 3
      /\ tl[1] = Transition("transition", Immediately, "succeeded")
      /\ tl[2] = Redirect("redirect", Immediately, "success")
      /\ tl[3] = Webhook("webhook", In5s, "current")
  OBVIOUS
<1>2. \A i, j \in 1 .. 3 : tl[i].id = tl[j].id => i = j
  BY <1>1
<1>3. \A n \in 1 .. 3 : IF IsSeeded(tl[n]) THEN ValidRange(def.range) ELSE Parses(tl[n].after)
  BY <1>1, Waits DEF IsSeeded, ValidRange
<1>4. InTurn(def)
  BY <1>1, Waits DEF InTurn, IsSeeded
<1>5. RefersBack(def)
  BY <1>1 DEF RefersBack, Refers
<1>6. PlaysWell(def, <<"processing", "succeeded", "succeeded", "succeeded">>)
  BY <1>1, LegalMoves, ShownAs DEF PlaysWell, IsCourse, Settles, PagesTell, PageActions
<1>7. MadeOf(def, 3)
  BY <1>1, Waits DEF MadeOf, IsSeeded, InternalStates
<1> QED BY <1>1, <1>2, <1>3, <1>4, <1>5, <1>6, <1>7 DEF WellMade

LEMMA WebhookFirstTimeline ==
  ASSUME NEW def,
         def.timeline = <<Transition("transition", Immediately, "succeeded"),
                           Webhook("webhook", Immediately, "current"),
                           Redirect("redirect", In5s, "success")>>
  PROVE  WellMade(def, 3, <<"processing", "succeeded", "succeeded", "succeeded">>)
<1> DEFINE tl == def.timeline
<1> USE DEF Transition, Snapshot, Redirect, ShowResult, ThreeDSOpen, Webhook, Repeat, CorruptHmac,
            Omit, TimelineStep
<1>1. /\ DOMAIN tl = 1 .. 3 /\ Len(tl) = 3
      /\ tl[1] = Transition("transition", Immediately, "succeeded")
      /\ tl[2] = Webhook("webhook", Immediately, "current")
      /\ tl[3] = Redirect("redirect", In5s, "success")
  OBVIOUS
<1>2. \A i, j \in 1 .. 3 : tl[i].id = tl[j].id => i = j
  BY <1>1
<1>3. \A n \in 1 .. 3 : IF IsSeeded(tl[n]) THEN ValidRange(def.range) ELSE Parses(tl[n].after)
  BY <1>1, Waits DEF IsSeeded, ValidRange
<1>4. InTurn(def)
  BY <1>1, Waits DEF InTurn, IsSeeded
<1>5. RefersBack(def)
  BY <1>1 DEF RefersBack, Refers
<1>6. PlaysWell(def, <<"processing", "succeeded", "succeeded", "succeeded">>)
  BY <1>1, LegalMoves, ShownAs DEF PlaysWell, IsCourse, Settles, PagesTell, PageActions
<1>7. MadeOf(def, 3)
  BY <1>1, Waits DEF MadeOf, IsSeeded, InternalStates
<1> QED BY <1>1, <1>2, <1>3, <1>4, <1>5, <1>6, <1>7 DEF WellMade

LEMMA StaleTimeline ==
  ASSUME NEW def,
         def.timeline = <<Transition("transition", Immediately, "succeeded"),
                           Webhook("webhook", Immediately, "current"),
                           Redirect("redirect", Soon, "success"),
                           Snapshot("stale-snapshot", In5s, "failed"),
                           Webhook("stale-webhook", In5s, "stale-snapshot")>>
  PROVE  WellMade(def, 5, <<"processing", "succeeded", "succeeded", "succeeded", "succeeded", "succeeded">>)
<1> DEFINE tl == def.timeline
<1> USE DEF Transition, Snapshot, Redirect, ShowResult, ThreeDSOpen, Webhook, Repeat, CorruptHmac,
            Omit, TimelineStep
<1>1. /\ DOMAIN tl = 1 .. 5 /\ Len(tl) = 5
      /\ tl[1] = Transition("transition", Immediately, "succeeded")
      /\ tl[2] = Webhook("webhook", Immediately, "current")
      /\ tl[3] = Redirect("redirect", Soon, "success")
      /\ tl[4] = Snapshot("stale-snapshot", In5s, "failed")
      /\ tl[5] = Webhook("stale-webhook", In5s, "stale-snapshot")
  OBVIOUS
<1>2. \A i, j \in 1 .. 5 : tl[i].id = tl[j].id => i = j
  BY <1>1
<1>3. \A n \in 1 .. 5 : IF IsSeeded(tl[n]) THEN ValidRange(def.range) ELSE Parses(tl[n].after)
  BY <1>1, Waits DEF IsSeeded, ValidRange
<1>4. InTurn(def)
  BY <1>1, Waits DEF InTurn, IsSeeded
<1>5. RefersBack(def)
  BY <1>1 DEF RefersBack, Refers
<1>6. PlaysWell(def, <<"processing", "succeeded", "succeeded", "succeeded", "succeeded", "succeeded">>)
  BY <1>1, LegalMoves, ShownAs DEF PlaysWell, IsCourse, Settles, PagesTell, PageActions
<1>7. MadeOf(def, 5)
  BY <1>1, Waits DEF MadeOf, IsSeeded, InternalStates
<1> QED BY <1>1, <1>2, <1>3, <1>4, <1>5, <1>6, <1>7 DEF WellMade

LEMMA ChallengeTimeline ==
  ASSUME NEW def, def.extension = "three_ds",
         def.timeline = <<ThreeDSOpen("open-challenge")>>
  PROVE  WellMade(def, 1, <<"processing", "processing">>)
<1> DEFINE tl == def.timeline
<1> USE DEF Transition, Snapshot, Redirect, ShowResult, ThreeDSOpen, Webhook, Repeat, CorruptHmac,
            Omit, TimelineStep
<1>1. /\ DOMAIN tl = 1 .. 1 /\ Len(tl) = 1
      /\ tl[1] = ThreeDSOpen("open-challenge")
  OBVIOUS
<1>2. \A i, j \in 1 .. 1 : tl[i].id = tl[j].id => i = j
  BY <1>1
<1>3. \A n \in 1 .. 1 : IF IsSeeded(tl[n]) THEN ValidRange(def.range) ELSE Parses(tl[n].after)
  BY <1>1, Waits DEF IsSeeded, ValidRange
<1>4. InTurn(def)
  BY <1>1, Waits DEF InTurn, IsSeeded
<1>5. RefersBack(def)
  BY <1>1 DEF RefersBack, Refers
<1>6. PlaysWell(def, <<"processing", "processing">>)
  BY <1>1, LegalMoves, ShownAs DEF PlaysWell, IsCourse, Settles, PagesTell, PageActions
<1>7. MadeOf(def, 1)
  BY <1>1, Waits DEF MadeOf, IsSeeded, InternalStates
<1> QED BY <1>1, <1>2, <1>3, <1>4, <1>5, <1>6, <1>7 DEF WellMade

LEMMA SeededTimeline ==
  ASSUME NEW def, def.range = <<1000, 120000>>,
         def.timeline = <<Transition("pending-transition", Immediately, "pending"),
                           ShowResult("pending-result", Immediately, "pending"),
                           Transition("success-transition", Seeded, "succeeded"),
                           Webhook("success-webhook", Seeded, "current")>>
  PROVE  WellMade(def, 4, <<"processing", "pending", "pending", "succeeded", "succeeded">>)
<1> DEFINE tl == def.timeline
<1> USE DEF Transition, Snapshot, Redirect, ShowResult, ThreeDSOpen, Webhook, Repeat, CorruptHmac,
            Omit, TimelineStep
<1>1. /\ DOMAIN tl = 1 .. 4 /\ Len(tl) = 4
      /\ tl[1] = Transition("pending-transition", Immediately, "pending")
      /\ tl[2] = ShowResult("pending-result", Immediately, "pending")
      /\ tl[3] = Transition("success-transition", Seeded, "succeeded")
      /\ tl[4] = Webhook("success-webhook", Seeded, "current")
  OBVIOUS
<1>2. \A i, j \in 1 .. 4 : tl[i].id = tl[j].id => i = j
  BY <1>1
<1>3. \A n \in 1 .. 4 : IF IsSeeded(tl[n]) THEN ValidRange(def.range) ELSE Parses(tl[n].after)
  BY <1>1, Waits DEF IsSeeded, ValidRange
<1>4. InTurn(def)
  BY <1>1, Waits DEF InTurn, IsSeeded
<1>5. RefersBack(def)
  BY <1>1 DEF RefersBack, Refers
<1>6. PlaysWell(def, <<"processing", "pending", "pending", "succeeded", "succeeded">>)
  BY <1>1, LegalMoves, ShownAs DEF PlaysWell, IsCourse, Settles, PagesTell, PageActions
<1>7. MadeOf(def, 4)
  BY <1>1, Waits DEF MadeOf, IsSeeded, InternalStates
<1> QED BY <1>1, <1>2, <1>3, <1>4, <1>5, <1>6, <1>7 DEF WellMade

(* All sixteen are one of those timelines.                                     *)
LEMMA BuiltInsAreSound == \A def \in BuiltInScenarios : Sound(def)
<1> USE DEF Scenario
<1>1. ASSUME NEW def \in {SuccessImmediate, DeclineImmediate, SuccessPartialRefund, SuccessThenVoid}
      PROVE  Sound(def)
  <2>1. def.id \notin {"redirect-before-webhook", "webhook-before-redirect"}
    BY DEF SuccessImmediate, DeclineImmediate, SuccessPartialRefund, SuccessThenVoid
  <2>2. PICK to \in {"succeeded", "failed"} :
          def.timeline = <<Transition("transition", Immediately, to), Webhook("webhook", Immediately, "current"),
                           Redirect("redirect", Soon, StatusOfState(to))>>
    BY ShownAs DEF SuccessImmediate, DeclineImmediate, SuccessPartialRefund, SuccessThenVoid, SuccessTimeline
  <2>3. WellMade(def, 3, <<"processing", to, to, to>>)
    BY <2>2, OutrightTimeline
  <2> QED BY <2>1, <2>3, SoundWhen DEF RedirectBeforeWebhook, WebhookBeforeRedirect
<1>2. Sound(SuccessDelayed2m)
  <2>1. WellMade(SuccessDelayed2m, 4, <<"processing", "pending", "pending", "succeeded", "succeeded">>)
    BY DelayedTimeline DEF SuccessDelayed2m
  <2> QED BY <2>1, SoundWhen DEF SuccessDelayed2m, RedirectBeforeWebhook, WebhookBeforeRedirect
<1>3. Sound(DeclineDelayed2m)
  <2>1. WellMade(DeclineDelayed2m, 4, <<"processing", "pending", "pending", "failed", "failed">>)
    BY DelayedTimeline DEF DeclineDelayed2m
  <2> QED BY <2>1, SoundWhen DEF DeclineDelayed2m, RedirectBeforeWebhook, WebhookBeforeRedirect
<1>4. Sound(PendingForever)
  <2>1. WellMade(PendingForever, 2, <<"processing", "pending", "pending">>)
    BY PendingTimeline DEF PendingForever
  <2> QED BY <2>1, SoundWhen DEF PendingForever, RedirectBeforeWebhook, WebhookBeforeRedirect
<1>5. Sound(SuccessNoWebhook)
  <2>1. WellMade(SuccessNoWebhook, 3, <<"processing", "succeeded", "succeeded", "succeeded">>)
    BY OmittedTimeline DEF SuccessNoWebhook
  <2> QED BY <2>1, SoundWhen DEF SuccessNoWebhook, RedirectBeforeWebhook, WebhookBeforeRedirect
<1>6. Sound(SuccessDuplicate3)
  <2>1. WellMade(SuccessDuplicate3, 5, <<"processing", "succeeded", "succeeded", "succeeded", "succeeded", "succeeded">>)
    BY RepeatedTimeline DEF SuccessDuplicate3, SuccessTimeline
  <2> QED BY <2>1, SoundWhen DEF SuccessDuplicate3, RedirectBeforeWebhook, WebhookBeforeRedirect
<1>7. Sound(SuccessInvalidHmac)
  <2>1. WellMade(SuccessInvalidHmac, 3, <<"processing", "succeeded", "succeeded", "succeeded">>)
    BY CorruptedTimeline DEF SuccessInvalidHmac
  <2> QED BY <2>1, SoundWhen DEF SuccessInvalidHmac, RedirectBeforeWebhook, WebhookBeforeRedirect
<1>8. Sound(OutOfOrderRegression)
  <2>1. WellMade(OutOfOrderRegression, 5, <<"processing", "succeeded", "succeeded", "succeeded", "succeeded", "succeeded">>)
    BY StaleTimeline DEF OutOfOrderRegression, SuccessTimeline
  <2> QED BY <2>1, SoundWhen DEF OutOfOrderRegression, RedirectBeforeWebhook, WebhookBeforeRedirect
<1>9. Sound(ThreeDSSuccess)
  <2>1. WellMade(ThreeDSSuccess, 1, <<"processing", "processing">>)
    BY ChallengeTimeline DEF ThreeDSSuccess
  <2> QED BY <2>1, SoundWhen DEF ThreeDSSuccess, RedirectBeforeWebhook, WebhookBeforeRedirect
<1>10. Sound(ThreeDSFailure)
  <2>1. WellMade(ThreeDSFailure, 1, <<"processing", "processing">>)
    BY ChallengeTimeline DEF ThreeDSFailure
  <2> QED BY <2>1, SoundWhen DEF ThreeDSFailure, RedirectBeforeWebhook, WebhookBeforeRedirect
<1>11. Sound(RandomDelaySuccess)
  <2>1. WellMade(RandomDelaySuccess, 4, <<"processing", "pending", "pending", "succeeded", "succeeded">>)
    BY SeededTimeline DEF RandomDelaySuccess
  <2> QED BY <2>1, SoundWhen DEF RandomDelaySuccess, RedirectBeforeWebhook, WebhookBeforeRedirect
<1>12. Sound(RedirectBeforeWebhook)
  <2>1. WellMade(RedirectBeforeWebhook, 3, <<"processing", "succeeded", "succeeded", "succeeded">>)
    BY RedirectFirstTimeline DEF RedirectBeforeWebhook
  <2>2. Tells(RedirectBeforeWebhook, PageActions)
    BY DEF RedirectBeforeWebhook, Tells, PageActions, Transition, Redirect, Webhook, TimelineStep
  <2>3. RedirectBeforeWebhook # WebhookBeforeRedirect
    BY DEF RedirectBeforeWebhook, WebhookBeforeRedirect
  <2> QED BY <2>1, <2>2, <2>3, SoundWhen
<1>13. Sound(WebhookBeforeRedirect)
  <2>1. WellMade(WebhookBeforeRedirect, 3, <<"processing", "succeeded", "succeeded", "succeeded">>)
    BY WebhookFirstTimeline DEF WebhookBeforeRedirect
  <2>2. Tells(WebhookBeforeRedirect, {"webhook.transaction"})
    BY DEF WebhookBeforeRedirect, Tells, PageActions, Transition, Redirect, Webhook, TimelineStep
  <2>3. RedirectBeforeWebhook # WebhookBeforeRedirect
    BY DEF RedirectBeforeWebhook, WebhookBeforeRedirect
  <2> QED BY <2>1, <2>2, <2>3, SoundWhen
<1> QED BY <1>1, <1>2, <1>3, <1>4, <1>5, <1>6, <1>7, <1>8, <1>9, <1>10, <1>11, <1>12, <1>13 DEF BuiltInScenarios

(* builtins.ts: every shipped scenario compiles, runs to its end, legally,     *)
(* refers to what has happened, tells the customer the truth and keeps the     *)
(* order it is named for, whatever delay is drawn.                             *)
THEOREM BuiltInsAlwaysSound == RunSpec => []BuiltInsSound
BY BuiltInsAreSound, BuiltInvariance, SoundRun, PTL

(* The state before a step is the one before an earlier step, if no transition *)
(* is in between.                                                              *)
LEMMA CourseStays ==
  ASSUME NEW def, NEW k \in Nat, MadeOf(def, k), NEW c, IsCourse(def, c),
         NEW lo \in 1 .. k, NEW n \in lo .. k,
         \A i \in lo .. n - 1 : def.timeline[i].action # "transaction.transition"
  PROVE  c[n] = c[lo]
<1> DEFINE S == {i \in 0 .. n - lo : c[lo + i] = c[lo]}
<1>1. 0 \in S /\ n - lo \in Nat
  OBVIOUS
<1>2. ASSUME NEW i \in 1 .. n - lo, i - 1 \in S PROVE i \in S
  <2>1. lo + (i - 1) \in lo .. n - 1 /\ lo + (i - 1) \in 1 .. k /\ (lo + (i - 1)) + 1 = lo + i
    OBVIOUS
  <2>2. c[(lo + (i - 1)) + 1] = c[lo + (i - 1)]
    BY <2>1 DEF IsCourse, MadeOf
  <2> QED BY <1>2, <2>1, <2>2
<1>3. 0 .. n - lo \subseteq S
  <2> HIDE DEF S
  <2> QED BY <1>1, <1>2, InductionTo
<1>4. n - lo \in S /\ lo + (n - lo) = n
  BY <1>1, <1>3
<1> QED BY <1>4

(* The offsets of its rows, as drawn.                                          *)
LEMMA OffsetsInTurn ==
  ASSUME NEW def, NEW k \in Nat, MadeOf(def, k), Compiles(def), InTurn(def), NEW d \in Draws
  PROVE  /\ \A n \in 1 .. k : OffsetMs(def, d, n) \in Nat
         /\ \A m, n \in 1 .. k : m < n => OffsetMs(def, d, m) <= OffsetMs(def, d, n)
<1>1. ASSUME NEW n \in 1 .. k, IsSeeded(def.timeline[n])
      PROVE  /\ def.range[1] \in Nat
             /\ NextIntInRange(d[1], def.range) \in Nat
             /\ def.range[1] <= NextIntInRange(d[1], def.range)
  <2>1. def.range \in Nat \X Nat /\ def.range[1] <= def.range[2]
    BY <1>1 DEF MadeOf, Compiles, ValidRange
  <2>2. PICK low \in Nat, high \in Nat : def.range = <<low, high>>
    BY <2>1
  <2>3. d[1] \in 0 .. Grain - 1 /\ low <= high /\ low \in Int /\ high \in Int
    BY <2>1, <2>2 DEF Draws
  <2>4. NextIntInRange(d[1], <<low, high>>) \in low .. high
    BY <2>3, DrawnInRange
  <2> QED BY <2>2, <2>4
<1>2. ASSUME NEW n \in 1 .. k, ~IsSeeded(def.timeline[n])
      PROVE  ParseDuration(def.timeline[n].after) \in Nat
  BY <1>2 DEF MadeOf
<1>3. \A n \in 1 .. k : OffsetMs(def, d, n) \in Nat
  BY <1>1, <1>2 DEF OffsetMs
<1>4. ASSUME NEW m \in 1 .. k, NEW n \in 1 .. k, m < n
      PROVE  OffsetMs(def, d, m) <= OffsetMs(def, d, n)
  <2>1. IF IsSeeded(def.timeline[n])
        THEN IsSeeded(def.timeline[m]) \/ ParseDuration(def.timeline[m].after) <= def.range[1]
        ELSE /\ ~IsSeeded(def.timeline[m])
             /\ ParseDuration(def.timeline[m].after) <= ParseDuration(def.timeline[n].after)
    BY <1>4 DEF InTurn, MadeOf
  <2>2. CASE IsSeeded(def.timeline[n]) /\ IsSeeded(def.timeline[m])
    BY <1>1, <2>2 DEF OffsetMs
  <2>3. CASE IsSeeded(def.timeline[n]) /\ ~IsSeeded(def.timeline[m])
    BY <1>1, <1>2, <2>1, <2>3 DEF OffsetMs
  <2>4. CASE ~IsSeeded(def.timeline[n])
    BY <2>1, <2>4 DEF OffsetMs
  <2> QED BY <2>2, <2>3, <2>4
<1> QED BY <1>3, <1>4

(* scheduler.ts, executeAction: which rows are which.                          *)
LEMMA Kinds ==
  ASSUME NEW action
  PROVE  /\ KindOf(action) \in AuthoredTypes
         /\ KindOf(action) = "transition" <=> action = "transaction.transition"
         /\ KindOf(action) = "snapshot" <=> action = "transaction.snapshot"
  BY DEF KindOf, AuthoredTypes

(* builtins.ts: whatever is drawn, the rows of a shipped scenario are lawful:  *)
(* its transitions fall due in the order they are authored, each is legal from *)
(* the one before, and none follows a state that a merchant may void.  This is *)
(* what TimelinesInOrder and TransitionsStayLegal assume of timelines.         *)
THEOREM BuiltInsAreLawful ==
  ASSUME NEW def \in BuiltInScenarios, NEW d \in Draws, NEW voids \in BOOLEAN
  PROVE  Timeline(ScheduledRows(def, d)) /\ Lawful(ScheduledRows(def, d), voids)
<1> DEFINE rows == ScheduledRows(def, d)
           tl == def.timeline
           c == Course(def)
<1>1. /\ Compiles(def) /\ InTurn(def) /\ IsCourse(def, c) /\ \E k \in Nat : MadeOf(def, k)
  BY BuiltInsAreSound DEF Sound, PlaysWell
<1>2. PICK k \in Nat : MadeOf(def, k)
  BY <1>1
<1> HIDE DEF c
<1>3. DOMAIN tl = 1 .. k /\ DOMAIN rows = 1 .. k
  BY <1>2 DEF MadeOf, ScheduledRows
<1>4. \A n \in 1 .. k :
        /\ rows[n].type = KindOf(tl[n].action)
        /\ rows[n].type \in {"transition", "snapshot"} => rows[n].to = tl[n].arg
        /\ rows[n].offset = OffsetMs(def, d, n)
  BY <1>3 DEF ScheduledRows
<1>5. TransitionsIn(rows) = {n \in 1 .. k : tl[n].action = "transaction.transition"}
  BY <1>3, <1>4, Kinds DEF TransitionsIn
<1>6. Timeline(rows)
  <2>1. ASSUME NEW n \in 1 .. k PROVE rows[n] \in TimelineRow
    <3> DEFINE at == CHOOSE j \in DOMAIN tl : tl[j].id = tl[n].source
               to == IF KindOf(tl[n].action) \in {"transition", "snapshot"} THEN tl[n].arg ELSE "none"
               source == IF Refers(tl[n]) THEN at ELSE 0
    <3>1. rows[n] = [type |-> KindOf(tl[n].action), to |-> to, source |-> source,
                     offset |-> OffsetMs(def, d, n)]
      BY <1>3 DEF ScheduledRows
    <3>2. Refers(tl[n]) => \E j \in DOMAIN tl : tl[j].id = tl[n].source
      BY <1>1, <1>3 DEF Compiles, ValidStructure, IdsOf
    <3>3. source \in Nat
      BY <1>3, <3>2
    <3>4. to \in InternalStates \cup {"none"}
      BY <1>2, Kinds DEF MadeOf, InternalStates
    <3>5. KindOf(tl[n].action) \in AuthoredTypes /\ OffsetMs(def, d, n) \in Nat
      BY <1>1, <1>2, Kinds, OffsetsInTurn
    <3> HIDE DEF source, to
    <3> QED BY <3>1, <3>3, <3>4, <3>5 DEF TimelineRow
  <2>2. rows = [n \in 1 .. k |-> rows[n]]
    BY <1>3 DEF ScheduledRows
  <2>3. rows \in Seq(TimelineRow)
    <3> HIDE DEF rows
    <3> QED BY <2>1, <2>2
  <2>4. \A n \in DOMAIN rows : rows[n].type \in {"transition", "snapshot"} => rows[n].to \in InternalStates
    BY <1>2, <1>3, <1>4, Kinds DEF MadeOf, InternalStates
  <2> HIDE DEF rows
  <2> QED BY <2>3, <2>4 DEF Timeline
<1> HIDE DEF rows, tl
<1>7. ASSUME NEW n \in DOMAIN rows, rows[n].type \in {"transition", "snapshot"}
      PROVE  HasProjection(rows[n].to)
  BY <1>1, <1>3, <1>4, <1>7, Kinds DEF IsCourse, tl
<1>8. ASSUME NEW m \in TransitionsIn(rows), NEW n \in TransitionsIn(rows), m < n
      PROVE  LawfulNext(rows, m, n, voids)
  <2>1. rows[m].offset <= rows[n].offset
    BY <1>1, <1>2, <1>4, <1>5, <1>8, OffsetsInTurn
  <2>2. ASSUME \A i \in TransitionsIn(rows) : i <= m \/ n <= i
        PROVE  /\ IsLegalTransition(rows[m].to, rows[n].to)
               /\ voids => rows[m].to \notin {"authorized", "succeeded"}
    <3>1. /\ m + 1 \in 1 .. k /\ n \in m + 1 .. k
          /\ \A i \in m + 1 .. n - 1 : i \in 1 .. k /\ ~(i <= m) /\ ~(n <= i)
      BY <1>5, <1>8
    <3>2. \A i \in m + 1 .. n - 1 : tl[i].action # "transaction.transition"
      BY <1>5, <2>2, <3>1
    <3>3. c[n] = c[m + 1]
      BY <1>1, <1>2, <3>1, <3>2, CourseStays DEF tl
    <3>4. /\ c[m + 1] = rows[m].to
          /\ IsLegalTransition(c[n], rows[n].to)
      BY <1>1, <1>3, <1>4, <1>5, Kinds DEF IsCourse, tl
    <3>5. rows[n].to \in {"pending", "succeeded", "failed"}
      BY <1>2, <1>4, <1>5, Kinds DEF MadeOf, tl
    <3>6. ~IsLegalTransition("authorized", rows[n].to) /\ ~IsLegalTransition("succeeded", rows[n].to)
      BY <3>5 DEF IsLegalTransition, NormalTransitions, InternalStates
    <3> QED BY <3>3, <3>4, <3>6
  <2> QED BY <2>1, <2>2 DEF LawfulNext
<1>9. ASSUME NEW n \in TransitionsIn(rows), \A m \in TransitionsIn(rows) : n <= m
      PROVE  IsLegalTransition("processing", rows[n].to)
  <2>1. /\ 1 \in 1 .. k /\ n \in 1 .. k
        /\ \A i \in 1 .. n - 1 : i \in 1 .. k /\ ~(n <= i)
    BY <1>5
  <2>2. \A i \in 1 .. n - 1 : tl[i].action # "transaction.transition"
    BY <1>5, <1>9, <2>1
  <2>3. c[n] = c[1]
    BY <1>1, <1>2, <2>1, <2>2, CourseStays DEF tl
  <2>4. c[1] = "processing" /\ IsLegalTransition(c[n], rows[n].to)
    BY <1>1, <1>3, <1>4, <1>5, Kinds DEF IsCourse, tl
  <2> QED BY <2>3, <2>4
<1> QED BY <1>6, <1>7, <1>8, <1>9 DEF Lawful, rows

-----------------------------------------------------------------------------
(* An outbound request, for every URL, allowlist and answer of the resolver.   *)
(* First the bits of a byte: TopAgree is the comparison under a mask.          *)

Byte == 0 .. 255
BitOf(x, k) == (x \div 2^(7 - k)) % 2
TopAgree(x, y, n) == x \div 2^(8 - n) = y \div 2^(8 - n)

LEMMA Powers ==
  /\ 2^0 = 1 /\ 2^1 = 2 /\ 2^2 = 4 /\ 2^3 = 8 /\ 2^4 = 16 /\ 2^5 = 32
  /\ 2^6 = 64 /\ 2^7 = 128 /\ 2^8 = 256
  OBVIOUS

(* One more leading bit agrees when that bit does.                             *)
LEMMA OneMoreBit ==
  ASSUME NEW x \in Byte, NEW y \in Byte, NEW n \in 1 .. 8
  PROVE  TopAgree(x, y, n) <=> TopAgree(x, y, n - 1) /\ BitOf(x, n - 1) = BitOf(y, n - 1)
<1>1. CASE n = 1
  BY <1>1, Powers DEF TopAgree, BitOf, Byte
<1>2. CASE n = 2
  BY <1>2, Powers DEF TopAgree, BitOf, Byte
<1>3. CASE n = 3
  BY <1>3, Powers DEF TopAgree, BitOf, Byte
<1>4. CASE n = 4
  BY <1>4, Powers DEF TopAgree, BitOf, Byte
<1>5. CASE n = 5
  BY <1>5, Powers DEF TopAgree, BitOf, Byte
<1>6. CASE n = 6
  BY <1>6, Powers DEF TopAgree, BitOf, Byte
<1>7. CASE n = 7
  BY <1>7, Powers DEF TopAgree, BitOf, Byte
<1>8. CASE n = 8
  BY <1>8, Powers DEF TopAgree, BitOf, Byte
<1> QED
  BY <1>1, <1>2, <1>3, <1>4, <1>5, <1>6, <1>7, <1>8

(* Under a mask of n bits two bytes agree when their first n bits do.          *)
LEMMA LeadingBits ==
  ASSUME NEW x \in Byte, NEW y \in Byte, NEW n \in 0 .. 8
  PROVE  TopAgree(x, y, n) <=> \A k \in 0 .. n - 1 : BitOf(x, k) = BitOf(y, k)
<1> DEFINE S == {m \in 0 .. 8 : TopAgree(x, y, m) <=> \A k \in 0 .. m - 1 : BitOf(x, k) = BitOf(y, k)}
<1>1. 0 \in S
  <2>1. x \div 256 = 0 /\ y \div 256 = 0
    BY DEF Byte
  <2>2. TopAgree(x, y, 0)
    BY <2>1, Powers DEF TopAgree
  <2> QED BY <2>2
<1>2. ASSUME NEW m \in 1 .. 8, m - 1 \in S
      PROVE  m \in S
  <2>1. TopAgree(x, y, m) <=> TopAgree(x, y, m - 1) /\ BitOf(x, m - 1) = BitOf(y, m - 1)
    BY OneMoreBit
  <2>2. \A k : k \in 0 .. m - 1 <=> k \in 0 .. (m - 1) - 1 \/ k = m - 1
    OBVIOUS
  <2> QED BY <1>2, <2>1, <2>2
<1>3. 0 .. 8 \subseteq S
  <2> HIDE DEF S
  <2> QED BY <1>1, <1>2, InductionTo
<1> QED
  BY <1>3

-----------------------------------------------------------------------------
(* Addresses and blocks. *)

LEMMA AddressBytes ==
  ASSUME NEW family \in {4, 6}, NEW a \in Addresses(family)
  PROVE  /\ a.family = family /\ a.bytes \in Seq(Byte) /\ a = [family |-> family, bytes |-> a.bytes]
         /\ Len(a.bytes) = IF family = 4 THEN 4 ELSE 16
         /\ DOMAIN a.bytes = 1 .. Len(a.bytes)
         /\ Width(a) = IF family = 4 THEN 32 ELSE 128
         /\ \A i \in DOMAIN a.bytes : a.bytes[i] \in Byte
<1>1. a.family = family /\ a.bytes \in Seq(Byte) /\ a = [family |-> family, bytes |-> a.bytes]
      /\ Len(a.bytes) = IF family = 4 THEN 4 ELSE 16
  BY DEF Addresses, Byte
<1> DEFINE s == a.bytes
<1>2. s \in Seq(Byte)
  BY <1>1
<1> HIDE DEF s
<1>3. DOMAIN s = 1 .. Len(s) /\ \A i \in DOMAIN s : s[i] \in Byte
  BY <1>2, ElementOfSeq, LenProperties
<1>4. Width(a) = IF family = 4 THEN 32 ELSE 128
  BY <1>1 DEF Width
<1> QED
  BY <1>1, <1>3, <1>4 DEF s

(* allowlist.ts, ipv4InCidr and ipv6InCidr: the comparison byte by byte        *)
(* under a mask says that the first n bits of the two addresses agree.         *)
THEOREM MaskIsPrefix ==
  ASSUME NEW family \in {4, 6}, NEW a \in Addresses(family), NEW b \in Addresses(family),
         NEW n \in 0 .. Width(a)
  PROVE  LeadingBitsAgree(a, b, n) <=> SamePrefix(a, b, n)
<1> DEFINE len == Len(a.bytes)
           Bits(i) == IF n <= 8 * (i - 1) THEN 0 ELSE IF n >= 8 * (i - 1) + 8 THEN 8 ELSE n - 8 * (i - 1)
<1>1. /\ DOMAIN a.bytes = 1 .. len /\ len \in {4, 16} /\ Width(a) = 8 * len
      /\ \A i \in 1 .. len : a.bytes[i] \in Byte /\ b.bytes[i] \in Byte
  <2>1. /\ Len(a.bytes) = IF family = 4 THEN 4 ELSE 16
        /\ DOMAIN a.bytes = 1 .. len
        /\ Width(a) = IF family = 4 THEN 32 ELSE 128
        /\ \A i \in DOMAIN a.bytes : a.bytes[i] \in Byte
    BY AddressBytes
  <2>2. /\ Len(b.bytes) = IF family = 4 THEN 4 ELSE 16
        /\ DOMAIN b.bytes = 1 .. Len(b.bytes)
        /\ \A i \in DOMAIN b.bytes : b.bytes[i] \in Byte
    BY AddressBytes
  <2>3. len = Len(b.bytes) /\ len \in {4, 16} /\ Width(a) = 8 * len
    BY <2>1, <2>2
  <2> HIDE DEF len
  <2> QED BY <2>1, <2>2, <2>3
<1>2. n \in Nat /\ n <= 8 * len
  BY <1>1
<1> HIDE DEF len
<1>3. \A i \in 1 .. len : Bits(i) \in 0 .. 8
  BY <1>1, <1>2
<1>4. LeadingBitsAgree(a, b, n) <=> \A i \in 1 .. len : TopAgree(a.bytes[i], b.bytes[i], Bits(i))
  BY <1>1 DEF LeadingBitsAgree, TopAgree
<1>5. \A i \in 1 .. len : TopAgree(a.bytes[i], b.bytes[i], Bits(i)) <=>
        \A k \in 0 .. Bits(i) - 1 : BitOf(a.bytes[i], k) = BitOf(b.bytes[i], k)
  <2> HIDE DEF Bits
  <2> QED BY <1>1, <1>3, LeadingBits
<1>6. \A j : /\ Bit(a, j) = BitOf(a.bytes[(j - 1) \div 8 + 1], (j - 1) % 8)
             /\ Bit(b, j) = BitOf(b.bytes[(j - 1) \div 8 + 1], (j - 1) % 8)
  BY DEF Bit, BitOf
<1>7. ASSUME \A i \in 1 .. len : \A k \in 0 .. Bits(i) - 1 : BitOf(a.bytes[i], k) = BitOf(b.bytes[i], k)
      PROVE  SamePrefix(a, b, n)
  <2> SUFFICES ASSUME NEW j \in 1 .. n PROVE Bit(a, j) = Bit(b, j)
    BY DEF SamePrefix
  <2> DEFINE i == (j - 1) \div 8 + 1
             k == (j - 1) % 8
  <2>1. /\ i \in Nat /\ i >= 1 /\ k \in 0 .. 7 /\ j - 1 = 8 * (i - 1) + k
    BY <1>2
  <2> HIDE DEF i, k
  <2>2. i \in 1 .. len /\ k \in 0 .. Bits(i) - 1
    BY <2>1, <1>1, <1>2
  <2> QED BY <2>2, <1>6, <1>7 DEF i, k
<1>8. ASSUME SamePrefix(a, b, n), NEW i \in 1 .. len, NEW k \in 0 .. Bits(i) - 1
      PROVE  BitOf(a.bytes[i], k) = BitOf(b.bytes[i], k)
  <2> DEFINE j == 8 * (i - 1) + k + 1
  <2>1. j \in 1 .. n /\ k \in 0 .. 7
    BY <1>1, <1>2, <1>3, <1>8
  <2>2. (j - 1) \div 8 + 1 = i /\ (j - 1) % 8 = k
    BY <2>1, <1>1
  <2> HIDE DEF j
  <2>3. Bit(a, j) = Bit(b, j)
    BY <2>1, <1>8 DEF SamePrefix
  <2> QED BY <2>2, <2>3, <1>6
<1> QED
  BY <1>4, <1>5, <1>7, <1>8

(* The arithmetic of InCidr on a prefix length leaves it what it is.           *)
LEMMA InCidrIsPrefix ==
  ASSUME NEW family \in {4, 6}, NEW a \in Addresses(family), NEW b \in Addresses(family),
         NEW p \in 0 .. Width(b)
  PROVE  InCidr(a, b, p) <=> SamePrefix(a, b, p)
<1>1. Width(a) = Width(b) /\ Width(a) \in {32, 128}
  <2>1. Width(a) = IF family = 4 THEN 32 ELSE 128
    BY AddressBytes
  <2>2. Width(b) = IF family = 4 THEN 32 ELSE 128
    BY AddressBytes
  <2> QED BY <2>1, <2>2
<1>2. CASE p = 0
  BY <1>2 DEF InCidr, SamePrefix
<1>3. CASE p # 0
  <2>1. Width(a) - ((Width(a) - p) % Width(a)) = p
    <3>1. CASE Width(a) = 32
      BY <1>1, <1>3, <3>1
    <3>2. CASE Width(a) = 128
      BY <1>1, <1>3, <3>2
    <3> QED BY <1>1, <3>1, <3>2
  <2>2. p \in 0 .. Width(a)
    BY <1>1
  <2>3. LeadingBitsAgree(a, b, p) <=> SamePrefix(a, b, p)
    BY <2>2, MaskIsPrefix
  <2> QED BY <1>3, <2>1, <2>3 DEF InCidr
<1> QED BY <1>2, <1>3

(* What a literal host is.                                                     *)
LEMMA FamilyOf ==
  ASSUME NEW host, IsHost(host), host.literal
  PROVE  host.address.family \in {4, 6} /\ host.address \in Addresses(host.address.family)
<1>1. host.address \in Addresses(4) \cup Addresses(6)
  BY DEF IsHost
<1>2. CASE host.address \in Addresses(4)
  <2>1. host.address.family = 4
    BY <1>2 DEF Addresses
  <2> QED BY <1>1, <1>2, <2>1
<1>3. CASE host.address \in Addresses(6)
  <2>1. host.address.family = 6
    BY <1>3 DEF Addresses
  <2> QED BY <1>1, <1>3, <2>1
<1> QED BY <1>1, <1>2, <1>3

(* What one parsed entry admits is what its text lets through, and the policy  *)
(* asks for an entry that does.                                                *)
Admits(entry, url) ==
  IF url.host.literal THEN IsIpAllowed(url.host, PortOf(url), {entry})
                      ELSE IsHostnameAllowed(url.host.name, PortOf(url), {entry})

LEMMA EntryLetsThrough ==
  ASSUME NEW raw, IsHost(raw.host), raw.prefix \in Int, ParseAllowlistEntry(raw) # Refused,
         NEW url, IsHost(url.host)
  PROVE  /\ ~Misread(raw) => (Admits(ParseAllowlistEntry(raw), url) <=> LetsThrough(raw, url))
         /\ Misread(raw) /\ Admits(ParseAllowlistEntry(raw), url) => url.host.literal
<1> DEFINE e == ParseAllowlistEntry(raw)
           port == PortOf(url)
<1>1. CASE raw.prefix # None /\ ~Misread(raw)
  <2>1. /\ raw.host.literal /\ raw.prefix \in 0 .. Width(raw.host.address)
        /\ e = [kind |-> "cidr", base |-> AddressRead(raw.host), prefixLen |-> raw.prefix]
    BY <1>1 DEF ParseAllowlistEntry
  <2>2. AddressRead(raw.host) = raw.host.address
    BY <1>1, <2>1 DEF AddressRead, Misread
  <2>3. CASE url.host.literal
    <3>1. Admits(e, url) <=> raw.host.address.family = url.host.address.family
                             /\ InCidr(url.host.address, raw.host.address, raw.prefix)
      BY <2>1, <2>2, <2>3 DEF Admits, IsIpAllowed
    <3>2. raw.host.address.family = url.host.address.family =>
            (InCidr(url.host.address, raw.host.address, raw.prefix)
               <=> SamePrefix(url.host.address, raw.host.address, raw.prefix))
      <4> SUFFICES ASSUME raw.host.address.family = url.host.address.family
                   PROVE  InCidr(url.host.address, raw.host.address, raw.prefix)
                            <=> SamePrefix(url.host.address, raw.host.address, raw.prefix)
        OBVIOUS
      <4>1. raw.host.address.family \in {4, 6} /\ raw.host.address \in Addresses(raw.host.address.family)
        BY <2>1, FamilyOf
      <4>2. url.host.address \in Addresses(raw.host.address.family)
        BY <2>3, FamilyOf
      <4> QED BY <2>1, <4>1, <4>2, InCidrIsPrefix
    <3>3. LetsThrough(raw, url) <=> raw.host.address.family = url.host.address.family
                             /\ SamePrefix(url.host.address, raw.host.address, raw.prefix)
      BY <1>1, <2>3 DEF LetsThrough
    <3> QED BY <1>1, <3>1, <3>2, <3>3
  <2>4. CASE ~url.host.literal
    BY <1>1, <2>1, <2>4 DEF Admits, IsHostnameAllowed, LetsThrough
  <2> QED BY <2>3, <2>4
<1>2. CASE raw.prefix = None /\ raw.host.literal
  <2>1. e = [kind |-> "ip", ip |-> raw.host, port |-> raw.port] /\ ~Misread(raw)
    BY <1>2 DEF ParseAllowlistEntry, Misread
  <2>2. CASE url.host.literal
    <3>1. Admits(e, url) <=> raw.host = url.host /\ raw.port \in {None, port}
      BY <2>1, <2>2 DEF Admits, IsIpAllowed, PortMatches
    <3>2. LetsThrough(raw, url) <=> raw.host = url.host /\ raw.port \in {None, port}
      BY <1>2, <2>2 DEF LetsThrough, SameHost
    <3> QED BY <2>1, <3>1, <3>2
  <2>3. CASE ~url.host.literal
    <3>1. ~Admits(e, url)
      BY <2>1, <2>3 DEF Admits, IsHostnameAllowed
    <3>2. raw.host # url.host
      BY <1>2, <2>3
    <3> QED BY <1>2, <2>1, <3>1, <3>2 DEF LetsThrough, SameHost
  <2> QED BY <2>2, <2>3
<1>3. CASE raw.prefix = None /\ ~raw.host.literal
  <2>1. /\ e = [kind |-> "hostname", hostname |-> Canonical[raw.host.name], port |-> raw.port]
        /\ ~Misread(raw)
    BY <1>3 DEF ParseAllowlistEntry, NormalizeHostname, Misread
  <2>2. CASE url.host.literal
    <3>1. ~Admits(e, url)
      BY <2>1, <2>2 DEF Admits, IsIpAllowed
    <3>2. raw.host # url.host
      BY <1>3, <2>2
    <3> QED BY <1>3, <2>1, <2>2, <3>1, <3>2 DEF LetsThrough, SameHost
  <2>3. CASE ~url.host.literal
    <3>1. Admits(e, url) <=> Canonical[raw.host.name] = Canonical[url.host.name] /\ raw.port \in {None, port}
      BY <2>1, <2>3 DEF Admits, IsHostnameAllowed, PortMatches, NormalizeHostname
    <3>2. LetsThrough(raw, url) <=> /\ raw.port \in {None, port}
                                    /\ raw.host = url.host \/ Canonical[raw.host.name] = Canonical[url.host.name]
      BY <1>3, <2>3 DEF LetsThrough, SameHost
    <3> QED BY <2>1, <3>1, <3>2
  <2> QED BY <2>2, <2>3
<1>4. CASE Misread(raw)
  <2>1. e = [kind |-> "cidr", base |-> AddressRead(raw.host), prefixLen |-> raw.prefix]
    BY <1>4 DEF ParseAllowlistEntry, Misread
  <2>2. CASE ~url.host.literal
    <3>1. ~Admits(e, url)
      BY <2>1, <2>2 DEF Admits, IsHostnameAllowed
    <3> QED BY <1>4, <3>1
  <2> QED BY <1>4, <2>2
<1> QED BY <1>1, <1>2, <1>3, <1>4 DEF Misread

LEMMA PolicyLetsThrough ==
  ASSUME NEW allowlist, NEW url, IsHost(url.host), Parseable(allowlist),
         \A raw \in allowlist : IsHost(raw.host) /\ raw.prefix \in Int
  PROVE  /\ CheckOutboundUrlPolicy(url, ParseAllowlist(allowlist)) =>
              \E raw \in allowlist : LetsThrough(raw, url) \/ (Misread(raw) /\ url.host.literal)
         /\ WellFormed(url) /\ PortOf(url) # 0
            /\ (\E raw \in allowlist : LetsThrough(raw, url) /\ ~Misread(raw)) =>
              CheckOutboundUrlPolicy(url, ParseAllowlist(allowlist))
<1>1. \A raw \in allowlist :
        /\ ~Misread(raw) => (Admits(ParseAllowlistEntry(raw), url) <=> LetsThrough(raw, url))
        /\ Misread(raw) /\ Admits(ParseAllowlistEntry(raw), url) => url.host.literal
  BY EntryLetsThrough DEF Parseable
<1>2. (IF url.host.literal THEN IsIpAllowed(url.host, PortOf(url), ParseAllowlist(allowlist))
         ELSE IsHostnameAllowed(url.host.name, PortOf(url), ParseAllowlist(allowlist)))
      <=> \E raw \in allowlist : Admits(ParseAllowlistEntry(raw), url)
  BY DEF Admits, IsIpAllowed, IsHostnameAllowed, ParseAllowlist
<1>3. ASSUME CheckOutboundUrlPolicy(url, ParseAllowlist(allowlist))
      PROVE  \E raw \in allowlist : LetsThrough(raw, url) \/ (Misread(raw) /\ url.host.literal)
  <2>1. PICK raw \in allowlist : Admits(ParseAllowlistEntry(raw), url)
    BY <1>2, <1>3 DEF CheckOutboundUrlPolicy
  <2> QED BY <1>1, <2>1
<1>4. ASSUME WellFormed(url), PortOf(url) # 0,
             NEW raw \in allowlist, LetsThrough(raw, url), ~Misread(raw)
      PROVE  CheckOutboundUrlPolicy(url, ParseAllowlist(allowlist))
  <2>1. Admits(ParseAllowlistEntry(raw), url)
    BY <1>1, <1>4
  <2> QED BY <1>2, <1>4, <2>1 DEF CheckOutboundUrlPolicy
<1> QED BY <1>3, <1>4

(* A block of IPv4 addresses that ends within the second byte.                 *)
LEMMA ShortBlock ==
  ASSUME NEW a \in Addresses(4), NEW p \in Byte, NEW q \in Byte, NEW n \in 0 .. 16
  PROVE  SamePrefix(a, IPv4(<<p, q, 0, 0>>), n) <=>
           IF n <= 8 THEN TopAgree(a.bytes[1], p, n)
           ELSE a.bytes[1] = p /\ TopAgree(a.bytes[2], q, n - 8)
<1> DEFINE b == IPv4(<<p, q, 0, 0>>)
<1>1. b \in Addresses(4) /\ b.bytes = <<p, q, 0, 0>>
  <2>1. <<p, q, 0, 0>> \in Seq(0 .. 255) /\ Len(<<p, q, 0, 0>>) = 4
    BY DEF Byte
  <2> QED BY <2>1 DEF IPv4, Addresses
<1>2. DOMAIN a.bytes = 1 .. 4 /\ Width(a) = 32 /\ \A i \in 1 .. 4 : a.bytes[i] \in Byte
  BY AddressBytes
<1>3. SamePrefix(a, b, n) <=> LeadingBitsAgree(a, b, n)
  <2> HIDE DEF b
  <2>1. n \in 0 .. Width(a)
    BY <1>2
  <2> QED BY <1>1, <2>1, MaskIsPrefix
<1> DEFINE Bits(i) == IF n <= 8 * (i - 1) THEN 0 ELSE IF n >= 8 * (i - 1) + 8 THEN 8 ELSE n - 8 * (i - 1)
<1>4. LeadingBitsAgree(a, b, n) <=> \A i \in 1 .. 4 : TopAgree(a.bytes[i], b.bytes[i], Bits(i))
  BY <1>2 DEF LeadingBitsAgree, TopAgree
<1>5. \A x, y \in Byte : TopAgree(x, y, 0) /\ (TopAgree(x, y, 8) <=> x = y)
  <2> TAKE x \in Byte, y \in Byte
  <2>1. x \div 256 = 0 /\ y \div 256 = 0
    BY DEF Byte
  <2> QED BY <2>1, Powers DEF TopAgree, Byte
<1>6. Bits(3) = 0 /\ Bits(4) = 0
  OBVIOUS
<1>7. /\ b.bytes[1] = p /\ b.bytes[2] = q /\ b.bytes[3] = 0 /\ b.bytes[4] = 0
      /\ 0 \in Byte
  BY <1>1 DEF Byte
<1> HIDE DEF b
<1>8. TopAgree(a.bytes[3], b.bytes[3], Bits(3)) /\ TopAgree(a.bytes[4], b.bytes[4], Bits(4))
  BY <1>2, <1>5, <1>6, <1>7
<1>9. LeadingBitsAgree(a, b, n) <=> TopAgree(a.bytes[1], p, Bits(1)) /\ TopAgree(a.bytes[2], q, Bits(2))
  <2> HIDE DEF Bits
  <2> QED BY <1>4, <1>7, <1>8
<1>10. CASE n <= 8
  <2>1. Bits(1) = n /\ Bits(2) = 0
    BY <1>10
  <2>2. TopAgree(a.bytes[2], q, 0)
    BY <1>2, <1>5
  <2> HIDE DEF Bits
  <2> QED BY <1>3, <1>9, <1>10, <2>1, <2>2 DEF b
<1>11. CASE n > 8
  <2>1. Bits(1) = 8 /\ Bits(2) = n - 8
    BY <1>11
  <2>2. TopAgree(a.bytes[1], p, 8) <=> a.bytes[1] = p
    BY <1>2, <1>5
  <2> HIDE DEF Bits
  <2> QED BY <1>3, <1>9, <1>11, <2>1, <2>2 DEF b
<1> QED BY <1>10, <1>11

(* The comparisons of ip-classify.ts, range by range.                          *)
LEMMA Ranges ==
  ASSUME NEW a \in Addresses(4)
  PROVE  /\ "private" \in ClassifyIp(a) <=>
              \/ a.bytes[1] = 10
              \/ a.bytes[1] = 172 /\ a.bytes[2] \in 16 .. 31
              \/ a.bytes[1] = 192 /\ a.bytes[2] = 168
              \/ LeadingBitsAgree(a, IPv4(<<100, 64, 0, 0>>), 10)
         /\ "multicast" \in ClassifyIp(a) <=> a.bytes[1] \in 224 .. 239
         /\ "metadata" \in ClassifyIp(a) <=> a.bytes = <<169, 254, 169, 254>>
         /\ "link_local" \in ClassifyIp(a) <=> a.bytes[1] = 169 /\ a.bytes[2] = 254
<1>1. a.family = 4 /\ IPv4(a.bytes) = a
  BY AddressBytes DEF IPv4
<1>2. ClassifyIp(a) = ClassifyIpv4(a.bytes)
  BY <1>1 DEF ClassifyIp
<1>3. In(IPv4(a.bytes), Block(<<100, 64, 0, 0>>, 10)) <=> LeadingBitsAgree(a, IPv4(<<100, 64, 0, 0>>), 10)
  BY <1>1 DEF In, Block
<1> QED
  BY <1>2, <1>3 DEF ClassifyIpv4

(* They are the blocks.                                                        *)
LEMMA BlocksOfV4 ==
  ASSUME NEW a \in Addresses(4)
  PROVE  /\ "private" \in ClassifyIp(a) <=> \E b \in PrivateBlocks : SamePrefix(a, b.base, b.prefixLen)
         /\ "multicast" \in ClassifyIp(a) <=>
              \E b \in {Block(<<224, 0, 0, 0>>, 4)} : SamePrefix(a, b.base, b.prefixLen)
         /\ "metadata" \in ClassifyIp(a) => "link_local" \in ClassifyIp(a)
<1> DEFINE x == a.bytes[1]
           y == a.bytes[2]
<1>1. x \in Byte /\ y \in Byte
  BY AddressBytes
<1> HIDE DEF x, y
<1>2. SamePrefix(a, IPv4(<<10, 0, 0, 0>>), 8) <=> x = 10
  <2>1. 10 \in Byte /\ 0 \in Byte /\ 8 \in 0 .. 16
    BY DEF Byte
  <2>2. SamePrefix(a, IPv4(<<10, 0, 0, 0>>), 8) <=> TopAgree(x, 10, 8)
    BY <2>1, ShortBlock DEF x, y
  <2>3. (TopAgree(x, 10, 8)) <=> x = 10
    BY <1>1, Powers DEF TopAgree, Byte
  <2> QED BY <2>2, <2>3
<1>3. SamePrefix(a, IPv4(<<172, 16, 0, 0>>), 12) <=> x = 172 /\ y \in 16 .. 31
  <2>1. 172 \in Byte /\ 16 \in Byte /\ 12 \in 0 .. 16
    BY DEF Byte
  <2>2. SamePrefix(a, IPv4(<<172, 16, 0, 0>>), 12) <=> x = 172 /\ TopAgree(y, 16, 4)
    BY <2>1, ShortBlock DEF x, y
  <2>3. (x = 172 /\ TopAgree(y, 16, 4)) <=> x = 172 /\ y \in 16 .. 31
    BY <1>1, Powers DEF TopAgree, Byte
  <2> QED BY <2>2, <2>3
<1>4. SamePrefix(a, IPv4(<<192, 168, 0, 0>>), 16) <=> x = 192 /\ y = 168
  <2>1. 192 \in Byte /\ 168 \in Byte /\ 16 \in 0 .. 16
    BY DEF Byte
  <2>2. SamePrefix(a, IPv4(<<192, 168, 0, 0>>), 16) <=> x = 192 /\ TopAgree(y, 168, 8)
    BY <2>1, ShortBlock DEF x, y
  <2>3. (x = 192 /\ TopAgree(y, 168, 8)) <=> x = 192 /\ y = 168
    BY <1>1, Powers DEF TopAgree, Byte
  <2> QED BY <2>2, <2>3
<1>5. SamePrefix(a, IPv4(<<224, 0, 0, 0>>), 4) <=> x \in 224 .. 239
  <2>1. 224 \in Byte /\ 0 \in Byte /\ 4 \in 0 .. 16
    BY DEF Byte
  <2>2. SamePrefix(a, IPv4(<<224, 0, 0, 0>>), 4) <=> TopAgree(x, 224, 4)
    BY <2>1, ShortBlock DEF x, y
  <2>3. (TopAgree(x, 224, 4)) <=> x \in 224 .. 239
    BY <1>1, Powers DEF TopAgree, Byte
  <2> QED BY <2>2, <2>3
<1>6. SamePrefix(a, IPv4(<<100, 64, 0, 0>>), 10) <=> LeadingBitsAgree(a, IPv4(<<100, 64, 0, 0>>), 10)
  <2>1. <<100, 64, 0, 0>> \in Seq(0 .. 255) /\ Len(<<100, 64, 0, 0>>) = 4
    OBVIOUS
  <2>2. IPv4(<<100, 64, 0, 0>>) \in Addresses(4)
    BY <2>1 DEF IPv4, Addresses
  <2>3. 10 \in 0 .. Width(a)
    BY AddressBytes
  <2> QED BY <2>2, <2>3, MaskIsPrefix
<1>7. (\E b \in PrivateBlocks : SamePrefix(a, b.base, b.prefixLen)) <=>
        \/ SamePrefix(a, IPv4(<<10, 0, 0, 0>>), 8)
        \/ SamePrefix(a, IPv4(<<172, 16, 0, 0>>), 12)
        \/ SamePrefix(a, IPv4(<<192, 168, 0, 0>>), 16)
        \/ SamePrefix(a, IPv4(<<100, 64, 0, 0>>), 10)
  BY DEF PrivateBlocks, Block
<1>8. (\E b \in {Block(<<224, 0, 0, 0>>, 4)} : SamePrefix(a, b.base, b.prefixLen)) <=>
        SamePrefix(a, IPv4(<<224, 0, 0, 0>>), 4)
  BY DEF Block
<1>9. "private" \in ClassifyIp(a) <=> \/ x = 10
                                      \/ x = 172 /\ y \in 16 .. 31
                                      \/ x = 192 /\ y = 168
                                      \/ LeadingBitsAgree(a, IPv4(<<100, 64, 0, 0>>), 10)
  BY Ranges DEF x, y
<1>10. "multicast" \in ClassifyIp(a) <=> x \in 224 .. 239
  BY Ranges DEF x, y
<1>11. "metadata" \in ClassifyIp(a) => "link_local" \in ClassifyIp(a)
  BY Ranges
<1> QED BY <1>2, <1>3, <1>4, <1>5, <1>6, <1>7, <1>8, <1>9, <1>10, <1>11

-----------------------------------------------------------------------------
(* The order of bytes. *)

LEMMA BytesAreNumbers ==
  ASSUME NEW x \in Seq(Byte)
  PROVE  \A i \in 1 .. Len(x) : x[i] \in Int
<1> TAKE i \in 1 .. Len(x)
<1>1. x[i] \in Byte
  BY ElementOfSeq
<1>2. \A z : z \in Byte => z \in Int
  BY DEF Byte
<1> QED BY <1>1, <1>2

(* Where two byte strings part: the first index at which they differ.          *)
PartAt(x, y, i) == /\ i \in 1 .. Len(x) /\ i <= Len(y) /\ x[i] # y[i]
                   /\ \A k \in 1 .. i - 1 : x[k] = y[k]
Extends(y, x) == Len(x) < Len(y) /\ \A i \in 1 .. Len(x) : x[i] = y[i]

(* The comparison of buffers is a strict total order: each is the first where  *)
(* they part, or the shorter one.                                              *)
LEMMA LessIs ==
  ASSUME NEW x \in Seq(Byte), NEW y \in Seq(Byte)
  PROVE  ByteLess(x, y) <=> (\E i : PartAt(x, y, i) /\ x[i] < y[i]) \/ Extends(y, x)
<1>1. \A i \in 1 .. Len(x) : i <= Len(y) => x[i] \in Int /\ y[i] \in Int
  <2> TAKE i \in 1 .. Len(x)
  <2> HAVE i <= Len(y)
  <2>1. i \in 1 .. Len(y)
    OBVIOUS
  <2> QED BY <2>1, BytesAreNumbers
<1>2. ASSUME NEW i \in 1 .. Len(x), i <= Len(y) PROVE x[i] < y[i] => x[i] # y[i]
  BY <1>1, <1>2
<1> QED BY <1>2 DEF ByteLess, PartAt, Extends

LEMMA LessIsTotal ==
  ASSUME NEW x \in Seq(Byte), NEW y \in Seq(Byte), x # y
  PROVE  ByteLess(x, y) \/ ByteLess(y, x)
<1>1. Len(x) \in Nat /\ Len(y) \in Nat
  OBVIOUS
<1>2. \A i \in 1 .. Len(x) : x[i] \in Int
  BY BytesAreNumbers
<1>3. \A i \in 1 .. Len(y) : y[i] \in Int
  BY BytesAreNumbers
<1> DEFINE D == {i \in 1 .. Len(x) : i <= Len(y) /\ x[i] # y[i]}
<1>4. CASE D # {}
  <2>1. D \subseteq Nat
    OBVIOUS
  <2>2. PICK i \in D : \A k \in D : i =< k
    <3> HIDE DEF D
    <3> QED BY <1>4, <2>1, LeastNat
  <2>3. i \in 1 .. Len(x) /\ i \in 1 .. Len(y) /\ x[i] # y[i]
    BY <1>1
  <2>4. \A k \in 1 .. i - 1 : x[k] = y[k]
    BY <1>1, <2>2, <2>3
  <2>5. x[i] < y[i] \/ y[i] < x[i]
    BY <1>2, <1>3, <2>3
  <2> QED BY <2>3, <2>4, <2>5 DEF ByteLess
<1>5. CASE D = {}
  <2>1. \A i \in 1 .. Len(x) : i <= Len(y) => x[i] = y[i]
    BY <1>5
  <2>2. Len(x) # Len(y)
    <3> SUFFICES ASSUME Len(x) = Len(y) PROVE x = y
      OBVIOUS
    <3>1. \A i \in 1 .. Len(x) : x[i] = y[i]
      BY <2>1, <1>1
    <3> QED BY <3>1, SeqEqual
  <2> QED BY <1>1, <2>1, <2>2 DEF ByteLess
<1> QED BY <1>4, <1>5

LEMMA LessIsAsymmetric ==
  ASSUME NEW x \in Seq(Byte), NEW y \in Seq(Byte), ByteLess(x, y)
  PROVE  ~ByteLess(y, x)
<1>1. Len(x) \in Nat /\ Len(y) \in Nat
  OBVIOUS
<1>2. \A i \in 1 .. Len(x) : x[i] \in Int
  BY BytesAreNumbers
<1>3. \A i \in 1 .. Len(y) : y[i] \in Int
  BY BytesAreNumbers
<1>4. (\E i : PartAt(x, y, i) /\ x[i] < y[i]) \/ Extends(y, x)
  BY LessIs
<1>5. SUFFICES ASSUME (\E j : PartAt(y, x, j) /\ y[j] < x[j]) \/ Extends(x, y) PROVE FALSE
  BY LessIs
<1>6. ASSUME NEW i, PartAt(x, y, i), x[i] < y[i], NEW j, PartAt(y, x, j), y[j] < x[j]
      PROVE  FALSE
  <2>1. /\ i \in 1 .. Len(x) /\ i \in 1 .. Len(y) /\ x[i] # y[i]
        /\ j \in 1 .. Len(x) /\ j \in 1 .. Len(y) /\ x[j] # y[j]
        /\ ~(i \in 1 .. j - 1) /\ ~(j \in 1 .. i - 1)
    BY <1>1, <1>6 DEF PartAt
  <2>2. i = j
    BY <1>1, <2>1
  <2>3. x[i] \in Int /\ y[i] \in Int
    BY <1>2, <1>3, <2>1
  <2> QED BY <1>6, <2>2, <2>3
<1>7. ASSUME NEW i, PartAt(x, y, i), Extends(x, y) \/ Extends(y, x)
      PROVE  FALSE
  BY <1>1, <1>7 DEF PartAt, Extends
<1>8. ASSUME NEW j, PartAt(y, x, j), Extends(x, y) \/ Extends(y, x)
      PROVE  FALSE
  BY <1>1, <1>8 DEF PartAt, Extends
<1>9. ~(Extends(x, y) /\ Extends(y, x))
  BY <1>1 DEF Extends
<1> QED BY <1>4, <1>5, <1>6, <1>7, <1>8, <1>9

LEMMA LessIsTransitive ==
  ASSUME NEW x \in Seq(Byte), NEW y \in Seq(Byte), NEW z \in Seq(Byte),
         ByteLess(x, y), ByteLess(y, z)
  PROVE  ByteLess(x, z)
<1>1. Len(x) \in Nat /\ Len(y) \in Nat /\ Len(z) \in Nat
  OBVIOUS
<1>2. \A i \in 1 .. Len(x) : x[i] \in Int
  BY BytesAreNumbers
<1>3. \A i \in 1 .. Len(y) : y[i] \in Int
  BY BytesAreNumbers
<1>4. \A i \in 1 .. Len(z) : z[i] \in Int
  BY BytesAreNumbers
<1>5. CASE \E i : PartAt(x, y, i) /\ x[i] < y[i]
  <2> PICK i : PartAt(x, y, i) /\ x[i] < y[i]
    BY <1>5
  <2>1. /\ i \in 1 .. Len(x) /\ i \in 1 .. Len(y) /\ \A k \in 1 .. i - 1 : x[k] = y[k]
        /\ x[i] \in Int /\ y[i] \in Int
    BY <1>1, <1>2, <1>3 DEF PartAt
  <2>2. CASE \E j : PartAt(y, z, j) /\ y[j] < z[j]
    <3> PICK j : PartAt(y, z, j) /\ y[j] < z[j]
      BY <2>2
    <3>1. /\ j \in 1 .. Len(y) /\ j \in 1 .. Len(z) /\ \A k \in 1 .. j - 1 : y[k] = z[k]
          /\ y[j] \in Int /\ z[j] \in Int
      BY <1>1, <1>3, <1>4 DEF PartAt
    <3>2. CASE i < j
      <4>1. i \in 1 .. j - 1 /\ i \in 1 .. Len(z)
        BY <2>1, <3>1, <3>2
      <4>2. y[i] = z[i] /\ \A k \in 1 .. i - 1 : x[k] = z[k]
        BY <2>1, <3>1, <4>1
      <4> QED BY <2>1, <4>1, <4>2 DEF ByteLess
    <3>3. CASE i = j
      <4>1. x[i] < z[i] /\ \A k \in 1 .. i - 1 : x[k] = z[k]
        BY <2>1, <3>1, <3>3
      <4> QED BY <2>1, <3>1, <3>3, <4>1 DEF ByteLess
    <3>4. CASE j < i
      <4>1. j \in 1 .. i - 1 /\ j \in 1 .. Len(x)
        BY <2>1, <3>1, <3>4
      <4>2. x[j] = y[j] /\ \A k \in 1 .. j - 1 : x[k] = z[k]
        BY <2>1, <3>1, <4>1
      <4> QED BY <3>1, <4>1, <4>2 DEF ByteLess
    <3> QED BY <2>1, <3>1, <3>2, <3>3, <3>4
  <2>3. CASE Extends(z, y)
    <3>1. i <= Len(z) /\ y[i] = z[i] /\ \A k \in 1 .. i - 1 : x[k] = z[k]
      BY <1>1, <2>1, <2>3 DEF Extends
    <3> QED BY <2>1, <3>1 DEF ByteLess
  <2> QED BY <2>2, <2>3, LessIs
<1>6. CASE Extends(y, x)
  <2>1. CASE \E j : PartAt(y, z, j) /\ y[j] < z[j]
    <3> PICK j : PartAt(y, z, j) /\ y[j] < z[j]
      BY <2>1
    <3>1. /\ j \in 1 .. Len(y) /\ j \in 1 .. Len(z) /\ \A k \in 1 .. j - 1 : y[k] = z[k]
      BY <1>1 DEF PartAt
    <3>2. CASE j \in 1 .. Len(x)
      BY <1>1, <1>6, <3>1, <3>2 DEF ByteLess, Extends
    <3>3. CASE j > Len(x)
      <4>1. Len(x) < Len(z) /\ \A k \in 1 .. Len(x) : x[k] = z[k]
        BY <1>1, <1>6, <3>1, <3>3 DEF Extends
      <4> QED BY <4>1 DEF ByteLess
    <3> QED BY <1>1, <3>1, <3>2, <3>3
  <2>2. CASE Extends(z, y)
    <3>1. Len(x) < Len(z) /\ \A k \in 1 .. Len(x) : x[k] = z[k]
      BY <1>1, <1>6, <2>2 DEF Extends
    <3> QED BY <3>1 DEF ByteLess
  <2> QED BY <2>1, <2>2, LessIs
<1> QED BY <1>5, <1>6, LessIs

Anywhere == Addresses(4) \cup Addresses(6)
Before(a, b) == ByteLess(a.bytes, b.bytes)
(* The least of some addresses, which a set has or is empty.                   *)
IsLeast(a, S) == a \in S /\ \A b \in S \ {a} : Before(a, b)
HasLeast(S) == S = {} \/ \E a : IsLeast(a, S)

LEMMA AnywhereBytes ==
  \A a \in Anywhere : a.bytes \in Seq(Byte) /\ a.family \in {4, 6} /\ a.family = IF Len(a.bytes) = 4 THEN 4 ELSE 6
<1> TAKE a \in Anywhere
<1>1. CASE a \in Addresses(4)
  <2>1. a.family = 4 /\ a.bytes \in Seq(Byte) /\ Len(a.bytes) = 4
    BY <1>1, AddressBytes
  <2> QED BY <2>1
<1>2. CASE a \in Addresses(6)
  <2>1. a.family = 6 /\ a.bytes \in Seq(Byte) /\ Len(a.bytes) = 16
    BY <1>2, AddressBytes
  <2> QED BY <2>1
<1> QED BY <1>1, <1>2 DEF Anywhere

LEMMA BeforeIsOrder ==
  /\ \A a, b \in Anywhere : a # b => Before(a, b) \/ Before(b, a)
  /\ \A a, b \in Anywhere : Before(a, b) => ~Before(b, a)
  /\ \A a, b, c \in Anywhere : Before(a, b) /\ Before(b, c) => Before(a, c)
<1>1. ASSUME NEW a \in Anywhere, NEW b \in Anywhere, a # b PROVE Before(a, b) \/ Before(b, a)
  <2>1. a.bytes \in Seq(Byte) /\ b.bytes \in Seq(Byte)
    BY AnywhereBytes
  <2>2. a.bytes # b.bytes
    <3> SUFFICES ASSUME a.bytes = b.bytes PROVE a = b
      BY <1>1
    <3>1. a.family = b.family
      BY AnywhereBytes
    <3>2. a = [family |-> a.family, bytes |-> a.bytes] /\ b = [family |-> b.family, bytes |-> b.bytes]
      BY DEF Anywhere, Addresses
    <3> QED BY <3>1, <3>2
  <2> QED BY <2>1, <2>2, LessIsTotal DEF Before
<1>2. ASSUME NEW a \in Anywhere, NEW b \in Anywhere, Before(a, b) PROVE ~Before(b, a)
  BY <1>2, AnywhereBytes, LessIsAsymmetric DEF Before
<1>3. ASSUME NEW a \in Anywhere, NEW b \in Anywhere, NEW c \in Anywhere, Before(a, b), Before(b, c)
      PROVE  Before(a, c)
  BY <1>3, AnywhereBytes, LessIsTransitive DEF Before
<1> QED BY <1>1, <1>2, <1>3

(* The least of two sets is the least of one of them.                          *)
LEMMA LeastOfTwo ==
  ASSUME NEW S, NEW T, S \subseteq Anywhere, T \subseteq Anywhere, HasLeast(S), HasLeast(T)
  PROVE  HasLeast(S \cup T)
<1>1. CASE S = {} \/ T = {}
  <2>1. S \cup T = S \/ S \cup T = T
    BY <1>1
  <2> QED BY <2>1
<1>2. CASE S # {} /\ T # {}
  <2>1. PICK a : IsLeast(a, S)
    BY <1>2 DEF HasLeast
  <2>2. PICK b : IsLeast(b, T)
    BY <1>2 DEF HasLeast
  <2>3. a \in Anywhere /\ b \in Anywhere
    BY <2>1, <2>2 DEF IsLeast
  <2>4. CASE a = b
    BY <2>1, <2>2, <2>4 DEF IsLeast, HasLeast
  <2>5. CASE Before(a, b)
    <3>1. \A c \in T : Before(a, c)
      BY <2>2, <2>3, <2>5, BeforeIsOrder DEF IsLeast
    <3>2. IsLeast(a, S \cup T)
      BY <2>1, <3>1 DEF IsLeast
    <3> QED BY <3>2 DEF HasLeast
  <2>6. CASE Before(b, a)
    <3>1. \A c \in S : Before(b, c)
      BY <2>1, <2>3, <2>6, BeforeIsOrder DEF IsLeast
    <3>2. IsLeast(b, S \cup T)
      BY <2>2, <3>1 DEF IsLeast
    <3> QED BY <3>2 DEF HasLeast
  <2> QED BY <2>3, <2>4, <2>5, <2>6, BeforeIsOrder
<1> QED BY <1>1, <1>2

(* Of the answers that pass, however many, one is the least.                   *)
LEMMA LeastOfAnswers ==
  ASSUME NEW F, F \subseteq Anywhere, NEW s \in Seq(F), NEW G
  PROVE  HasLeast(ToSet(s) \cap G)
<1> DEFINE upTo(k) == {s[i] : i \in 1 .. k} \cap G
           S == {k \in 0 .. Len(s) : HasLeast(upTo(k))}
<1>1. Len(s) \in Nat
  OBVIOUS
<1>2. 0 \in S
  <2>1. upTo(0) = {}
    OBVIOUS
  <2> HIDE DEF upTo
  <2> QED BY <2>1, <1>1 DEF HasLeast
<1>3. \A i \in 1 .. Len(s) : s[i] \in Anywhere
  <2> TAKE i \in 1 .. Len(s)
  <2>1. s[i] \in F
    BY ElementOfSeq
  <2> QED BY <2>1
<1>4. ASSUME NEW k \in 1 .. Len(s), k - 1 \in S PROVE k \in S
  <2>1. upTo(k) = upTo(k - 1) \cup ({s[k]} \cap G)
    <3>1. \A i : i \in 1 .. k <=> i \in 1 .. k - 1 \/ i = k
      OBVIOUS
    <3> QED BY <3>1
  <2>2. upTo(k - 1) \subseteq Anywhere
    BY <1>1, <1>3
  <2>3. {s[k]} \cap G \subseteq Anywhere
    BY <1>3
  <2>4. HasLeast({s[k]} \cap G)
    <3>1. CASE s[k] \in G
      <4>1. IsLeast(s[k], {s[k]} \cap G)
        BY <3>1 DEF IsLeast
      <4> QED BY <4>1 DEF HasLeast
    <3>2. CASE s[k] \notin G
      BY <3>2 DEF HasLeast
    <3> QED BY <3>1, <3>2
  <2>5. HasLeast(upTo(k - 1)) /\ k \in 0 .. Len(s)
    BY <1>1, <1>4
  <2> HIDE DEF upTo
  <2>6. HasLeast(upTo(k))
    BY <2>1, <2>2, <2>3, <2>4, <2>5, LeastOfTwo
  <2> QED BY <2>5, <2>6
<1>5. 0 .. Len(s) \subseteq S
  <2> HIDE DEF S
  <2> QED BY <1>1, <1>2, <1>4, InductionTo
<1>6. HasLeast(upTo(Len(s)))
  <2>1. Len(s) \in 0 .. Len(s)
    BY <1>1
  <2> HIDE DEF upTo
  <2> QED BY <1>5, <2>1
<1>7. upTo(Len(s)) = ToSet(s) \cap G
  BY DEF ToSet
<1> QED BY <1>6, <1>7

(* So the choice of PinnedAddress is the least survivor.                       *)
LEMMA PinnedIsLeast ==
  ASSUME NEW v4 \in Seq(Addresses(4)), NEW v6 \in Seq(Addresses(6)), NEW allow,
         Survivors(v4, v6, allow) # {}
  PROVE  IsLeast(PinnedAddress(v4, v6, allow), Survivors(v4, v6, allow))
<1> DEFINE passes == {a \in ToSet(v4) \cup ToSet(v6) : ~CheckBlockedRange(a, allow)}
<1>1. Survivors(v4, v6, allow) = (ToSet(v4) \cap passes) \cup (ToSet(v6) \cap passes)
  BY DEF Survivors
<1>2. Survivors(v4, v6, allow) = passes
  BY DEF Survivors
<1> HIDE DEF passes
<1>3. HasLeast(ToSet(v4) \cap passes) /\ HasLeast(ToSet(v6) \cap passes)
  BY LeastOfAnswers DEF Anywhere
<1>4. ToSet(v4) \subseteq Anywhere /\ ToSet(v6) \subseteq Anywhere
  <2>1. \A i \in 1 .. Len(v4) : v4[i] \in Addresses(4)
    BY ElementOfSeq
  <2>2. \A i \in 1 .. Len(v6) : v6[i] \in Addresses(6)
    BY ElementOfSeq
  <2> QED BY <2>1, <2>2 DEF ToSet, Anywhere
<1>5. HasLeast(Survivors(v4, v6, allow))
  BY <1>1, <1>3, <1>4, LeastOfTwo
<1>6. PICK a : IsLeast(a, Survivors(v4, v6, allow))
  BY <1>5 DEF HasLeast
<1> DEFINE pinned == PinnedAddress(v4, v6, allow)
<1>7. pinned = CHOOSE b \in Survivors(v4, v6, allow) :
                 \A c \in Survivors(v4, v6, allow) \ {b} : ByteLess(b.bytes, c.bytes)
  BY DEF PinnedAddress
<1> QED BY <1>6, <1>7 DEF IsLeast, Before

(* What a request came to, and from what.                                      *)
OutboundInv ==
  /\ asked \in Asked
  /\ \/ did = NotYet
     \/ did.outcome = "not_configured" /\ did.pinned = << >>
     \/ /\ did.outcome = "policy_rejected" /\ did.pinned = << >>
        /\ Parseable(asked.allowlist) /\ ~CheckOutboundUrlPolicy(asked.url, Entries)
     \/ did.outcome = "transport_error" /\ did.pinned = << >>
     \/ /\ did.outcome = asked.wire /\ Passes
        /\ \/ asked.url.host.literal /\ did.pinned = <<asked.url.host.address>>
           \/ /\ ~asked.url.host.literal /\ ~ResolvesToNothing
              /\ did.pinned = <<PinnedAddress(asked.v4, asked.v6, asked.allowPrivate)>>

LEMMA OutboundInvariance == OutboundSpec => []OutboundInv
<1>1. OutboundInit => OutboundInv
  BY DEF OutboundInit, OutboundInv
<1>2. OutboundInv /\ [OutboundNext]_outboundVars => OutboundInv'
  <2> SUFFICES ASSUME OutboundInv, [OutboundNext]_outboundVars PROVE OutboundInv'
    OBVIOUS
  <2>1. CASE UNCHANGED outboundVars
    BY <2>1 DEF outboundVars, OutboundInv, Entries, Passes, ResolvesToNothing
  <2>2. CASE OutboundNext
    <3>1. asked' = asked /\ asked \in Asked
      BY <2>2 DEF OutboundNext, OutboundInv
    <3>2. CASE RefuseAllowlist
      BY <3>1, <3>2 DEF RefuseAllowlist, Performs, OutboundInv
    <3>3. CASE RejectByPolicy
      BY <3>1, <3>3 DEF RejectByPolicy, Performs, OutboundInv, Entries
    <3>4. CASE FailToResolve
      BY <3>1, <3>4 DEF FailToResolve, Performs, OutboundInv
    <3>5. CASE Connect
      <4>1. /\ Passes /\ (asked.url.host.literal \/ ~ResolvesToNothing)
            /\ did'.outcome = asked.wire
            /\ did'.pinned = <<IF asked.url.host.literal THEN asked.url.host.address
                               ELSE PinnedAddress(asked.v4, asked.v6, asked.allowPrivate)>>
        BY <3>5 DEF Connect, Performs
      <4>2. Passes' /\ (ResolvesToNothing' <=> ResolvesToNothing)
        <5>1. Passes' <=> Passes
          BY <3>1, Zenon DEF Passes, Entries
        <5>2. Passes'
          BY <4>1, <5>1
        <5>3. ResolvesToNothing' <=> ResolvesToNothing
          BY <3>1, Zenon DEF ResolvesToNothing
        <5> QED BY <5>2, <5>3
      <4> QED BY <3>1, <4>1, <4>2 DEF OutboundInv
    <3> QED BY <2>2, <3>2, <3>3, <3>4, <3>5 DEF OutboundNext
  <2> QED BY <2>1, <2>2
<1> QED BY <1>1, <1>2, PTL DEF OutboundSpec

(* Every part of ConnectionsExact follows.                                     *)
LEMMA Vetted ==
  ASSUME OutboundInv
  PROVE  ConnectionsExact
<1> DEFINE url == asked.url
<1>1. /\ IsHost(url.host) /\ \A raw \in asked.allowlist : IsHost(raw.host) /\ raw.prefix \in Int
      /\ url.host.literal => url.host.text = "canonical"
      /\ asked.v4 \in Seq(Addresses(4)) /\ asked.v6 \in Seq(Addresses(6))
      /\ asked.wire \in {"response", "transport_error"}
  BY AskedAssumption DEF OutboundInv
<1>2. ASSUME Parseable(asked.allowlist)
      PROVE  /\ CheckOutboundUrlPolicy(url, Entries) =>
                  \E raw \in asked.allowlist :
                     LetsThrough(raw, url) \/ (Misread(raw) /\ url.host.literal)
             /\ WellFormed(url) /\ PortOf(url) # 0
                /\ (\E raw \in asked.allowlist : LetsThrough(raw, url) /\ ~Misread(raw)) =>
                  CheckOutboundUrlPolicy(url, Entries)
  BY <1>1, <1>2, PolicyLetsThrough DEF Entries
<1>3. ~asked.url.host.literal /\ did.pinned # << >> =>
        IsLeast(did.pinned[1], Survivors(asked.v4, asked.v6, asked.allowPrivate))
  <2> SUFFICES ASSUME ~asked.url.host.literal, did.pinned # << >>
               PROVE  IsLeast(did.pinned[1], Survivors(asked.v4, asked.v6, asked.allowPrivate))
    OBVIOUS
  <2>1. did.pinned = <<PinnedAddress(asked.v4, asked.v6, asked.allowPrivate)>> /\ ~ResolvesToNothing
    BY DEF OutboundInv, NotYet
  <2> QED BY <1>1, <2>1, PinnedIsLeast DEF ResolvesToNothing
<1>4. Survivors(asked.v4, asked.v6, asked.allowPrivate) =
        {b \in Resolved : ~CheckBlockedRange(b, asked.allowPrivate)}
  BY DEF Survivors, Resolved
<1>5. ConnectsOnlyVetted
  <2> SUFFICES ASSUME did.pinned # << >>
               PROVE  /\ \E raw \in asked.allowlist : LetsThrough(raw, asked.url) \/ Misread(raw)
                      /\ IF asked.url.host.literal THEN did.pinned[1] = asked.url.host.address
                         ELSE /\ \E raw \in asked.allowlist : LetsThrough(raw, asked.url)
                              /\ did.pinned[1] \in Resolved
                              /\ ~CheckBlockedRange(did.pinned[1], asked.allowPrivate)
    BY DEF ConnectsOnlyVetted
  <2>1. Passes
    BY DEF OutboundInv, NotYet
  <2>2. \E raw \in asked.allowlist :
           LetsThrough(raw, asked.url) \/ (Misread(raw) /\ asked.url.host.literal)
    BY <1>2, <2>1 DEF Passes
  <2>3. CASE asked.url.host.literal
    <3>1. did.pinned = <<asked.url.host.address>>
      BY <2>3 DEF OutboundInv, NotYet
    <3> QED BY <2>2, <2>3, <3>1
  <2>4. CASE ~asked.url.host.literal
    BY <1>3, <1>4, <2>2, <2>4 DEF IsLeast
  <2> QED BY <2>3, <2>4
<1>6. ListedIsNotRejected
  <2> SUFFICES ASSUME did.outcome = "policy_rejected", asked.url.form \in {"http", "https"}, asked.url.port # 0
               PROVE  ~\E raw \in asked.allowlist : LetsThrough(raw, asked.url) /\ ~Misread(raw)
    BY DEF ListedIsNotRejected
  <2>1. Parseable(asked.allowlist) /\ ~CheckOutboundUrlPolicy(asked.url, Entries)
    BY <1>1 DEF OutboundInv, NotYet
  <2>2. WellFormed(url) /\ PortOf(url) # 0
    BY DEF WellFormed, PortOf
  <2> QED BY <1>2, <2>1, <2>2
<1>7. RangesAreBlocks
  <2>1. \A a \in ToSet(asked.v4) : a \in Addresses(4)
    <3>1. \A i \in 1 .. Len(asked.v4) : asked.v4[i] \in Addresses(4)
      BY <1>1, ElementOfSeq
    <3> QED BY <1>1, <3>1 DEF ToSet
  <2> QED BY <2>1, BlocksOfV4 DEF RangesAreBlocks
<1>8. PinIsLeast
  <2> SUFFICES ASSUME did.pinned # << >>, ~asked.url.host.literal,
                      NEW b \in Resolved, ByteLess(b.bytes, did.pinned[1].bytes)
               PROVE  CheckBlockedRange(b, asked.allowPrivate)
    BY DEF PinIsLeast
  <2>1. SUFFICES ASSUME ~CheckBlockedRange(b, asked.allowPrivate) PROVE FALSE
    OBVIOUS
  <2>2. b \in Survivors(asked.v4, asked.v6, asked.allowPrivate)
    BY <1>4, <2>1
  <2>3. \A c \in Resolved : c \in Anywhere
    <3>1. \A i \in 1 .. Len(asked.v4) : asked.v4[i] \in Addresses(4)
      BY <1>1, ElementOfSeq
    <3>2. \A i \in 1 .. Len(asked.v6) : asked.v6[i] \in Addresses(6)
      BY <1>1, ElementOfSeq
    <3> QED BY <1>1, <3>1, <3>2 DEF ToSet, Resolved, Anywhere
  <2>4. did.pinned[1] \in Resolved
    BY <1>3, <1>4 DEF IsLeast
  <2>5. Before(b, did.pinned[1]) /\ b \in Anywhere /\ did.pinned[1] \in Anywhere
    BY <2>3, <2>4 DEF Before
  <2>6. CASE b = did.pinned[1]
    BY <2>5, <2>6, BeforeIsOrder
  <2>7. CASE b # did.pinned[1]
    <3>1. Before(did.pinned[1], b)
      BY <1>3, <2>2, <2>7 DEF IsLeast
    <3> QED BY <2>5, <3>1, BeforeIsOrder
  <2> QED BY <2>6, <2>7
<1> QED BY <1>5, <1>6, <1>7, <1>8 DEF ConnectionsExact

(* safe-http-client.ts and what it calls, for every request, allowlist and list *)
(* of answers: a connection goes to a listed literal or to a vetted answer     *)
(* only, what an entry lets through is not rejected, the ranges are the blocks *)
(* they name, and of several usable answers the least is taken.                *)
THEOREM ConnectionsAlwaysExact == OutboundSpec => []ConnectionsExact
BY OutboundInvariance, Vetted, PTL

-----------------------------------------------------------------------------
(* Test cards, for any digits and names typed.                                 *)

Digits == 0 .. 9

(* Doubling and casting out nines loses no digit.                              *)
LEMMA WeighedDigit ==
  /\ \A d \in Digits, twice \in BOOLEAN : Weighed(d, twice) \in Digits
  /\ \A c, d \in Digits, twice \in BOOLEAN :
       c # d => Weighed(c, twice) # Weighed(d, twice)
  BY DEF Weighed, Digits

(* The sums of a number, one digit after the other.                            *)
LEMMA LuhnSumsStep ==
  ASSUME NEW pan \in Seq(Digits)
  PROVE  /\ LuhnSums(pan) \in [0 .. Len(pan) -> Nat]
         /\ \A i \in 0 .. Len(pan) :
              LuhnSums(pan)[i] =
                IF i = 0 THEN 0
                ELSE LuhnSums(pan)[i - 1] + Weighed(pan[i], (Len(pan) - i) % 2 = 1)
<1> DEFINE n == Len(pan)
           w(i) == Weighed(pan[i], (n - i) % 2 = 1)
           Body(g) == [i \in 0 .. n |-> IF i = 0 THEN 0 ELSE g[i - 1] + w(i)]
           step == [p \in Nat \X (1 .. n) |-> p[1] + w(p[2])]
<1>1. n \in Nat
  OBVIOUS
<1>2. \A i \in 1 .. n : w(i) \in Nat
  <2> TAKE i \in 1 .. n
  <2>1. pan[i] \in Digits
    BY ElementOfSeq
  <2>2. Weighed(pan[i], (n - i) % 2 = 1) \in Digits
    BY <2>1, WeighedDigit
  <2> QED BY <2>2 DEF Digits
<1> HIDE DEF n, w
<1>3. \A v \in Nat, i \in 1 .. n : step[<<v, i>>] = v + w(i) /\ step[<<v, i>>] \in Nat
  BY <1>2
<1>4. PICK g \in [0 .. n -> Nat] :
        \A i \in 0 .. n : g[i] = IF i = 0 THEN 0 ELSE step[<<g[i - 1], i>>]
  <2>1. 0 \in Nat /\ StaysIn(Nat, step, n)
    BY <1>3 DEF StaysIn
  <2>2. PICK g \in [0 .. n -> Nat] : Follows(g, n, 0, step)
    <3> HIDE DEF step
    <3> QED BY <1>1, <2>1, StepsExist
  <2> QED BY <2>2 DEF Follows
<1>5. g = Body(g)
  <2>1. \A i \in 0 .. n : i # 0 => i - 1 \in 0 .. n /\ i \in 1 .. n
    BY <1>1
  <2>2. \A i \in 0 .. n : g[i] = IF i = 0 THEN 0 ELSE g[i - 1] + w(i)
    BY <1>3, <1>4, <2>1
  <2> QED BY <2>2
<1>6. LuhnSums(pan) = CHOOSE f : f = Body(f)
  BY DEF LuhnSums, n, w
<1>7. LuhnSums(pan) = Body(LuhnSums(pan))
  <2> HIDE DEF Body
  <2> QED BY <1>5, <1>6
<1>8. \A i \in 0 .. n : LuhnSums(pan)[i] = IF i = 0 THEN 0 ELSE LuhnSums(pan)[i - 1] + w(i)
  BY <1>7
<1>9. LuhnSums(pan) \in [0 .. n -> Nat]
  <2> DEFINE f == LuhnSums(pan)
             S == {i \in 0 .. n : f[i] \in Nat}
  <2>1. 0 \in S
    BY <1>8, <1>1
  <2>2. ASSUME NEW i \in 1 .. n, i - 1 \in S
        PROVE  i \in S
    <3>1. f[i] = f[i - 1] + w(i)
      BY <1>8, <1>1
    <3> QED BY <2>2, <3>1, <1>2, <1>1
  <2>3. 0 .. n \subseteq S
    <3> HIDE DEF S
    <3> QED BY <2>1, <2>2, <1>1, InductionTo
  <2>4. f = [i \in 0 .. n |-> f[i]]
    BY <1>7
  <2> QED BY <2>3, <2>4
<1> QED
  BY <1>8, <1>9 DEF n, w

(* cards.ts, luhnValid: one wrong digit, at any place of a number of any       *)
(* length, changes the check digit.                                            *)
THEOREM LuhnCatchesOneDigit ==
  ASSUME NEW p \in Seq(Digits), NEW q \in Seq(Digits), Len(p) = Len(q),
         NEW j \in DOMAIN p, p[j] # q[j],
         \A i \in DOMAIN p : i # j => p[i] = q[i],
         LuhnValid(p)
  PROVE  ~LuhnValid(q)
<1> DEFINE n == Len(p)
           f == LuhnSums(p)
           g == LuhnSums(q)
           twice(i) == (n - i) % 2 = 1
           a == Weighed(p[j], twice(j))
           b == Weighed(q[j], twice(j))
           S == {i \in 0 .. n : g[i] = IF i < j THEN f[i] ELSE f[i] + b - a}
<1>1. n \in Nat /\ j \in 1 .. n
  OBVIOUS
<1>2. /\ f \in [0 .. n -> Nat] /\ g \in [0 .. n -> Nat]
      /\ f[0] = 0 /\ g[0] = 0
      /\ \A i \in 1 .. n : f[i] = f[i - 1] + Weighed(p[i], twice(i))
      /\ \A i \in 1 .. n : g[i] = g[i - 1] + Weighed(q[i], twice(i))
  <2> HIDE DEF f, g
  <2>1. /\ f \in [0 .. n -> Nat]
        /\ \A i \in 0 .. n : f[i] = IF i = 0 THEN 0 ELSE f[i - 1] + Weighed(p[i], twice(i))
    BY LuhnSumsStep DEF f
  <2>2. /\ g \in [0 .. n -> Nat]
        /\ \A i \in 0 .. n : g[i] = IF i = 0 THEN 0 ELSE g[i - 1] + Weighed(q[i], twice(i))
    BY LuhnSumsStep DEF g
  <2> HIDE DEF twice, n
  <2>3. f[0] = 0 /\ g[0] = 0
    BY <1>1, <2>1, <2>2
  <2>4. \A i \in 1 .. n : i \in 0 .. n /\ i # 0
    BY <1>1
  <2> QED BY <2>1, <2>2, <2>3, <2>4
<1>3. a \in Digits /\ b \in Digits /\ a # b
  <2>1. p[j] \in Digits /\ q[j] \in Digits
    BY <1>1, ElementOfSeq
  <2>2. twice(j) \in BOOLEAN
    OBVIOUS
  <2> QED BY <2>1, <2>2, WeighedDigit
<1>4. \A i \in 1 .. n : i # j => Weighed(p[i], twice(i)) = Weighed(q[i], twice(i))
  OBVIOUS
<1>w. \A i \in 1 .. n : Weighed(p[i], twice(i)) \in Digits
  <2> TAKE i \in 1 .. n
  <2>1. p[i] \in Digits /\ twice(i) \in BOOLEAN
    BY ElementOfSeq
  <2> QED BY <2>1, WeighedDigit
<1> HIDE DEF n, f, g, a, b
<1>5. 0 \in S
  BY <1>1, <1>2
<1>6. ASSUME NEW i \in 1 .. n, i - 1 \in S
      PROVE  i \in S
  <2>1. f[i - 1] \in Nat /\ g[i - 1] \in Nat
    BY <1>1, <1>2
  <2>2. CASE i = j
    <3>1. f[i] = f[i - 1] + a /\ g[i] = g[i - 1] + b
      BY <1>2, <2>2 DEF a, b
    <3>2. g[i - 1] = f[i - 1]
      BY <1>6, <2>2, <1>1
    <3> QED BY <2>1, <2>2, <3>1, <3>2, <1>3, <1>1 DEF Digits
  <2>3. CASE i # j
    <3> DEFINE w == Weighed(p[i], twice(i))
    <3>1. f[i] = f[i - 1] + w /\ g[i] = g[i - 1] + w /\ w \in Digits
      BY <1>2, <1>4, <1>w, <2>3
    <3> HIDE DEF w
    <3>2. i < j <=> i - 1 < j
      BY <2>3, <1>1
    <3> QED BY <1>6, <2>1, <3>1, <3>2, <1>3, <1>1 DEF Digits
  <2> QED BY <2>2, <2>3
<1>7. n \in S
  <2>1. 0 .. n \subseteq S
    <3> HIDE DEF S
    <3> QED BY <1>1, <1>5, <1>6, InductionTo
  <2> QED BY <2>1, <1>1
<1>8. g[n] = f[n] + b - a /\ f[n] \in Nat
  BY <1>7, <1>1, <1>2
<1>9. f[n] % 10 = 0
  BY DEF LuhnValid, f, n
<1>10. g[n] % 10 # 0
  <2>1. \A m \in Nat, c, d \in 0 .. 9 :
          m % 10 = 0 /\ (m + d - c) % 10 = 0 => c = d
    OBVIOUS
  <2> QED BY <2>1, <1>3, <1>8, <1>9 DEF Digits
<1> QED
  BY <1>10 DEF LuhnValid, g, n

-----------------------------------------------------------------------------
(* The built-in numbers: sixteen digits each, and the two nines and the last   *)
(* three decide the sum.                                                       *)

LEMMA PanShape ==
  ASSUME NEW x \in Digits, NEW y \in Digits, NEW z \in Digits
  PROVE  /\ Pan(x, y, z) \in Seq(Digits) /\ Len(Pan(x, y, z)) = 16
         /\ \A i \in 1 .. 16 :
              Pan(x, y, z)[i] = IF i < 3 THEN 9 ELSE IF i < 14 THEN 0
                                ELSE IF i = 14 THEN x ELSE IF i = 15 THEN y ELSE z
  BY DEF Pan, Digits

LEMMA PanSum ==
  ASSUME NEW x \in Digits, NEW y \in Digits, NEW z \in Digits
  PROVE  LuhnSums(Pan(x, y, z))[16] = 18 + x + Weighed(y, TRUE) + z
<1> DEFINE pan == Pan(x, y, z)
           s == LuhnSums(pan)
           S == {i \in 0 .. 13 : i > 1 => s[i] = 18}
<1>0. pan \in Seq(Digits) /\ Len(pan) = 16
  BY PanShape
<1>a. \A i \in 0 .. 16 :
        s[i] = IF i = 0 THEN 0 ELSE s[i - 1] + Weighed(pan[i], (16 - i) % 2 = 1)
  <2> HIDE DEF pan
  <2>1. \A i \in 0 .. Len(pan) :
          s[i] = IF i = 0 THEN 0 ELSE s[i - 1] + Weighed(pan[i], (Len(pan) - i) % 2 = 1)
    BY <1>0, LuhnSumsStep
  <2> QED BY <1>0, <2>1
<1>1. /\ s[0] = 0
      /\ \A i \in 1 .. 16 : s[i] = s[i - 1] + Weighed(pan[i], (16 - i) % 2 = 1)
  <2> HIDE DEF s, pan
  <2> QED BY <1>a
<1>2. Weighed(9, TRUE) = 9 /\ Weighed(9, FALSE) = 9 /\ Weighed(0, TRUE) = 0 /\ Weighed(0, FALSE) = 0
  BY DEF Weighed
<1>3. pan[1] = 9 /\ pan[2] = 9 /\ pan[14] = x /\ pan[15] = y /\ pan[16] = z
      /\ \A i \in 3 .. 13 : pan[i] = 0
  BY PanShape
<1> HIDE DEF pan, s
<1>b. /\ s[1] = s[0] + Weighed(pan[1], TRUE) /\ s[2] = s[1] + Weighed(pan[2], FALSE)
      /\ s[14] = s[13] + Weighed(pan[14], FALSE) /\ s[15] = s[14] + Weighed(pan[15], TRUE)
      /\ s[16] = s[15] + Weighed(pan[16], FALSE)
  <2>1. /\ s[1] = s[1 - 1] + Weighed(pan[1], (16 - 1) % 2 = 1)
        /\ s[2] = s[2 - 1] + Weighed(pan[2], (16 - 2) % 2 = 1)
        /\ s[14] = s[14 - 1] + Weighed(pan[14], (16 - 14) % 2 = 1)
        /\ s[15] = s[15 - 1] + Weighed(pan[15], (16 - 15) % 2 = 1)
        /\ s[16] = s[16 - 1] + Weighed(pan[16], (16 - 16) % 2 = 1)
    BY <1>1
  <2>2. /\ ((16 - 1) % 2 = 1) = TRUE /\ ((16 - 2) % 2 = 1) = FALSE
        /\ ((16 - 14) % 2 = 1) = FALSE /\ ((16 - 15) % 2 = 1) = TRUE
        /\ ((16 - 16) % 2 = 1) = FALSE
    OBVIOUS
  <2>3. 1 - 1 = 0 /\ 2 - 1 = 1 /\ 14 - 1 = 13 /\ 15 - 1 = 14 /\ 16 - 1 = 15
    OBVIOUS
  <2> QED BY <2>1, <2>2, <2>3
<1>c. Weighed(pan[1], TRUE) = 9 /\ Weighed(pan[2], FALSE) = 9
  BY <1>2, <1>3, Zenon
<1>d. s[1] = s[0] + 9 /\ s[2] = s[1] + 9
  BY <1>b, <1>c, Zenon
<1>4. s[1] = 9
  BY <1>1, <1>d
<1>5. s[2] = 18
  BY <1>4, <1>d
<1>6. \A i \in 3 .. 13 : Weighed(pan[i], (16 - i) % 2 = 1) = 0
  BY <1>2, <1>3
<1>7. 13 \in S
  <2>1. 0 \in S
    OBVIOUS
  <2>2. ASSUME NEW i \in 1 .. 13, i - 1 \in S
        PROVE  i \in S
    <3>1. CASE i < 3
      BY <1>4, <1>5, <3>1
    <3>2. CASE i >= 3
      <4>1. s[i - 1] = 18
        BY <2>2, <3>2
      <4>2. s[i] = s[i - 1] + 0
        BY <1>1, <1>6, <3>2
      <4> QED BY <4>1, <4>2
    <3> QED BY <3>1, <3>2
  <2>3. 0 .. 13 \subseteq S
    <3> HIDE DEF S
    <3> QED BY <2>1, <2>2, InductionTo
  <2> QED BY <2>3
<1>8. s[13] = 18
  BY <1>7
<1>9. /\ Weighed(x, FALSE) = x /\ Weighed(z, FALSE) = z
  BY DEF Weighed
<1>10. s[14] = 18 + x
  BY <1>b, <1>3, <1>8, <1>9
<1>11. s[15] = 18 + x + Weighed(y, TRUE)
  BY <1>b, <1>3, <1>10
<1>12. s[16] = 18 + x + Weighed(y, TRUE) + z
  BY <1>b, <1>3, <1>9, <1>11
<1> QED BY <1>12 DEF s, pan

LEMMA BuiltInNumbers ==
  \A card \in BuiltInCards :
    \E x, y, z \in Digits :
      card[1] = Pan(x, y, z) /\ (18 + x + Weighed(y, TRUE) + z) % 10 = 0
  BY DEF BuiltInCards, GenericSelectorCard, Weighed, Digits

LEMMA BuiltInLuhn ==
  ASSUME NEW card \in BuiltInCards
  PROVE  card[1] \in Seq(Digits) /\ LuhnValid(card[1])
<1>1. PICK x, y, z \in Digits :
        card[1] = Pan(x, y, z) /\ (18 + x + Weighed(y, TRUE) + z) % 10 = 0
  BY BuiltInNumbers
<1>2. card[1] \in Seq(Digits) /\ Len(card[1]) = 16
  BY <1>1, PanShape
<1>3. LuhnSums(card[1])[16] % 10 = 0
  <2>1. LuhnSums(Pan(x, y, z))[16] = 18 + x + Weighed(y, TRUE) + z
    BY PanSum
  <2> QED BY <1>1, <2>1
<1> QED
  BY <1>2, <1>3 DEF LuhnValid

(* The ids that cards and aliases select are ids of shipped scenarios.         *)
ShippedIds ==
  {"success-immediate", "decline-immediate", "success-delayed-2m", "decline-delayed-2m",
   "pending-forever", "success-no-webhook", "success-duplicate-3", "success-invalid-hmac",
   "redirect-before-webhook", "webhook-before-redirect", "three-ds-success",
   "three-ds-failure", "success-partial-refund", "success-then-void",
   "out-of-order-regression", "random-delay-success"}

LEMMA BuiltInIds == ShippedIds \subseteq IdsOfBuiltIns
<1>1. /\ SuccessImmediate.id = "success-immediate" /\ DeclineImmediate.id = "decline-immediate"
      /\ SuccessDelayed2m.id = "success-delayed-2m" /\ DeclineDelayed2m.id = "decline-delayed-2m"
      /\ PendingForever.id = "pending-forever" /\ SuccessNoWebhook.id = "success-no-webhook"
      /\ SuccessDuplicate3.id = "success-duplicate-3"
      /\ SuccessInvalidHmac.id = "success-invalid-hmac"
      /\ RedirectBeforeWebhook.id = "redirect-before-webhook"
      /\ WebhookBeforeRedirect.id = "webhook-before-redirect"
      /\ ThreeDSSuccess.id = "three-ds-success" /\ ThreeDSFailure.id = "three-ds-failure"
      /\ SuccessPartialRefund.id = "success-partial-refund"
      /\ SuccessThenVoid.id = "success-then-void"
      /\ OutOfOrderRegression.id = "out-of-order-regression"
      /\ RandomDelaySuccess.id = "random-delay-success"
  BY DEF SuccessImmediate, DeclineImmediate, SuccessDelayed2m, DeclineDelayed2m, PendingForever,
         SuccessNoWebhook, SuccessDuplicate3, SuccessInvalidHmac, RedirectBeforeWebhook,
         WebhookBeforeRedirect, ThreeDSSuccess, ThreeDSFailure, SuccessPartialRefund,
         SuccessThenVoid, OutOfOrderRegression, RandomDelaySuccess, Scenario
<1> QED
  BY <1>1 DEF IdsOfBuiltIns, BuiltInScenarios, ShippedIds

LEMMA CardsSelectShipped ==
  /\ \A card \in BuiltInCards : card[1] = GenericSelectorCard \/ card[2] \in ShippedIds
  /\ \A name : name.command = "SIM" =>
       ResolveCardholderCommand(name) \in ShippedIds \cup {"none"}
<1>1. ASSUME NEW card \in BuiltInCards
      PROVE  card[1] = GenericSelectorCard \/ card[2] \in ShippedIds
  BY DEF BuiltInCards, ShippedIds
<1>2. ASSUME NEW name, name.command = "SIM"
      PROVE  ResolveCardholderCommand(name) \in ShippedIds \cup {"none"}
  <2>1. \A alias \in DOMAIN NamedAliases : NamedAliases[alias] \in ShippedIds
    BY DEF NamedAliases, ShippedIds
  <2> QED BY <1>2, <2>1 DEF ResolveCardholderCommand
<1> QED BY <1>1, <1>2

(* What the form has: nothing yet, or what the typed card and name select.     *)
CardInv ==
  /\ typed.pan \in Seq(Digits) /\ typed.name.command \in {"SIM:", "SIM", "other"}
  /\ chosen = Selected("none", "none") \/ chosen = SelectByCard(typed.pan, typed.name)

LEMMA CardInvariance == CardSpec => []CardInv
<1>1. CardInit => CardInv
  BY TypedAssumption DEF CardInit, CardInv, Digits
<1>2. CardInv /\ [SubmitCard]_cardVars => CardInv'
  BY DEF CardInv, SubmitCard, cardVars
<1> QED
  BY <1>1, <1>2, PTL DEF CardSpec

(* A slip of one digit is one place at which two numbers differ.               *)
LEMMA OneDigitIsOnePlace ==
  ASSUME NEW p \in Seq(Digits), NEW q \in Seq(Digits), OneDigitApart(p, q)
  PROVE  Len(p) = Len(q) /\ \E j \in DOMAIN p :
           p[j] # q[j] /\ \A i \in DOMAIN p : i # j => p[i] = q[i]
<1> DEFINE D == {i \in DOMAIN p : p[i] # q[i]}
<1>1. Len(p) = Len(q) /\ Cardinality(D) = 1
  BY DEF OneDigitApart
<1>2. IsFiniteSet(D)
  <2>1. IsFiniteSet(1 .. Len(p)) /\ D \subseteq 1 .. Len(p)
    BY FS_Interval
  <2> QED BY <2>1, FS_Subset
<1>3. PICK j : D = {j}
  <2> HIDE DEF D
  <2> QED BY <1>1, <1>2, FS_Singleton
<1> QED BY <1>1, <1>3

(* A number that is no Luhn number is on no card.                              *)
LEMMA TypoFails ==
  ASSUME CardInv, NEW card \in BuiltInCards, OneDigitApart(card[1], typed.pan)
  PROVE  LuhnValid(card[1]) /\ ~LuhnValid(typed.pan) /\ chosen.selected = "none"
<1>1. card[1] \in Seq(Digits) /\ LuhnValid(card[1]) /\ typed.pan \in Seq(Digits)
  BY BuiltInLuhn DEF CardInv
<1>2. ~LuhnValid(typed.pan)
  <2>1. PICK j \in DOMAIN card[1] :
          /\ Len(card[1]) = Len(typed.pan) /\ card[1][j] # typed.pan[j]
          /\ \A i \in DOMAIN card[1] : i # j => card[1][i] = typed.pan[i]
    BY <1>1, OneDigitIsOnePlace
  <2> QED BY <1>1, <2>1, LuhnCatchesOneDigit
<1>3. \A other \in BuiltInCards : other[1] # typed.pan
  BY <1>2, BuiltInLuhn
<1>4. typed.pan # GenericSelectorCard
  <2>1. <<GenericSelectorCard, "generic-selector">> \in BuiltInCards
    BY DEF BuiltInCards
  <2> QED BY <1>3, <2>1
<1>5. SelectByCard(typed.pan, typed.name) = Selected("none", "unrecognized_card")
  BY <1>3, <1>4 DEF SelectByCard, FindBuiltInCardByNumber
<1> QED BY <1>1, <1>2, <1>5 DEF CardInv, Selected

(* The card a number is found on.                                              *)
LEMMA CardFound ==
  ASSUME NEW pan, NEW name, pan # GenericSelectorCard, FindBuiltInCardByNumber(pan) # {}
  PROVE  SelectByCard(pan, name).source = "card_registry" /\ SelectByCard(pan, name).selected \in ShippedIds
<1> DEFINE found == FindBuiltInCardByNumber(pan)
           card == CHOOSE c \in found : TRUE
<1>1. card \in BuiltInCards /\ card[1] = pan
  <2>1. card \in found
    <3>1. found # {}
      OBVIOUS
    <3> HIDE DEF found
    <3> QED BY <3>1
  <2> QED BY <2>1 DEF FindBuiltInCardByNumber
<1>2. card[2] \in ShippedIds
  BY <1>1, CardsSelectShipped
<1>3. SelectByCard(pan, name) = Selected(card[2], "card_registry")
  BY DEF SelectByCard
<1> HIDE DEF card
<1> QED BY <1>2, <1>3 DEF Selected

(* SelectionExact, for any digits and names typed: a slip selects nothing,     *)
(* what is selected is loaded if the shipped scenarios are, and the name       *)
(* decides with the generic card only.                                         *)
THEOREM SelectsAsMade ==
  ASSUME IdsOfBuiltIns \subseteq Loaded
  PROVE  CardSpec => []SelectionExact
<1>1. ASSUME CardInv PROVE SelectionExact
  <2>1. TypoSelectsNothing
    BY <1>1, TypoFails DEF TypoSelectsNothing
  <2> DEFINE pan == typed.pan
             name == typed.name
             result == SelectByCard(pan, name)
  <2>2. CASE chosen = Selected("none", "none")
    BY <2>1, <2>2 DEF SelectionExact, SelectsLoaded, NameOnlyOnGeneric, Selected
  <2>3. CASE chosen = result /\ pan = GenericSelectorCard
    <3>1. chosen = LET id == ResolveCardholderCommand(name) IN
                   Selected(id, IF id = "none" THEN "unrecognized_alias" ELSE "generic_alias")
      BY <2>3 DEF SelectByCard
    <3>2. chosen.selected = ResolveCardholderCommand(name) /\ chosen.source # "none"
          /\ (chosen.source = "generic_alias" <=> ResolveCardholderCommand(name) # "none")
      BY <3>1 DEF Selected
    <3>3. NameOnlyOnGeneric
      BY <3>2, <2>3 DEF NameOnlyOnGeneric
    <3>4. SelectsLoaded
      <4>1. name.command = "SIM" => ResolveCardholderCommand(name) \in ShippedIds \cup {"none"}
        BY CardsSelectShipped
      <4>2. name.command = "other" => ResolveCardholderCommand(name) = "none"
        BY DEF ResolveCardholderCommand
      <4> QED BY <1>1, <3>2, <4>1, <4>2, BuiltInIds DEF SelectsLoaded, CardInv
    <3> QED BY <2>1, <3>3, <3>4 DEF SelectionExact
  <2>4. CASE chosen = result /\ pan # GenericSelectorCard
    <3>1. CASE FindBuiltInCardByNumber(pan) = {}
      <4>1. chosen = Selected("none", "unrecognized_card")
        BY <2>4, <3>1 DEF SelectByCard
      <4> QED BY <2>1, <2>4, <4>1 DEF SelectionExact, SelectsLoaded, NameOnlyOnGeneric, Selected
    <3>2. CASE FindBuiltInCardByNumber(pan) # {}
      <4>1. chosen.source = "card_registry" /\ chosen.selected \in ShippedIds
        BY <2>4, <3>2, CardFound
      <4> QED BY <2>1, <2>4, <4>1, BuiltInIds DEF SelectionExact, SelectsLoaded, NameOnlyOnGeneric
    <3> QED BY <3>1, <3>2
  <2> QED BY <1>1, <2>2, <2>3, <2>4 DEF CardInv
<1> QED
  BY <1>1, CardInvariance, PTL

-----------------------------------------------------------------------------
(* The configuration an instance reads. *)

Saved(s) == Layered(DefaultConfig, s.rows, "database", FALSE)
Filed(s) == Layered(Saved(s), FileOverlay(s.file), "file", TRUE)
Merged(s) == Layered(Filed(s), ReadEnvOverlay(s.env), "env", TRUE)

LEMMA Loads ==
  ASSUME NEW s
  PROVE  LoadConfig(s) = IF FileRefused(s.file) \/ SchemaRefuses(Merged(s))
                         THEN Outcome("error", << >>) ELSE Outcome("read", Merged(s))
  BY DEF LoadConfig, Saved, Filed, Merged

LEMMA LoadedIs ==
  ASSUME NEW s
  PROVE  /\ LoadConfig(s).is \in {"read", "error"}
         /\ LoadConfig(s).is = "read" <=> ~FileRefused(s.file) /\ ~SchemaRefuses(Merged(s))
         /\ LoadConfig(s).is = "read" => LoadConfig(s).leaves = Merged(s)
  BY Loads DEF Outcome

(* A leaf is decided by the last layer that supplies it.                       *)
Supplied(s, leaf) ==
  \/ leaf \in DOMAIN ReadEnvOverlay(s.env) \/ leaf \in DOMAIN FileOverlay(s.file)
  \/ leaf \in DOMAIN s.rows \/ leaf \in DOMAIN DefaultConfig
Decided(s, leaf) ==
  IF leaf \in DOMAIN ReadEnvOverlay(s.env) THEN Entry(ReadEnvOverlay(s.env)[leaf], "env", TRUE)
  ELSE IF leaf \in DOMAIN FileOverlay(s.file) THEN Entry(FileOverlay(s.file)[leaf], "file", TRUE)
  ELSE IF leaf \in DOMAIN s.rows THEN Entry(s.rows[leaf], "database", FALSE)
  ELSE DefaultConfig[leaf]

LEMMA Decides ==
  ASSUME NEW s, NEW leaf
  PROVE  /\ leaf \in DOMAIN Merged(s) <=> Supplied(s, leaf)
         /\ Supplied(s, leaf) => Merged(s)[leaf] = Decided(s, leaf)
<1>1. /\ leaf \in DOMAIN Saved(s) <=> leaf \in DOMAIN s.rows \/ leaf \in DOMAIN DefaultConfig
      /\ leaf \in DOMAIN Saved(s) =>
           Saved(s)[leaf] = IF leaf \in DOMAIN s.rows THEN Entry(s.rows[leaf], "database", FALSE)
                            ELSE DefaultConfig[leaf]
  BY DEF Saved, Layered
<1>2. /\ leaf \in DOMAIN Filed(s) <=>
           leaf \in DOMAIN FileOverlay(s.file) \/ leaf \in DOMAIN Saved(s)
      /\ leaf \in DOMAIN Filed(s) =>
           Filed(s)[leaf] =
             IF leaf \in DOMAIN FileOverlay(s.file) THEN Entry(FileOverlay(s.file)[leaf], "file", TRUE)
             ELSE Saved(s)[leaf]
  BY DEF Filed, Layered
<1>3. /\ leaf \in DOMAIN Merged(s) <=>
           leaf \in DOMAIN ReadEnvOverlay(s.env) \/ leaf \in DOMAIN Filed(s)
      /\ leaf \in DOMAIN Merged(s) =>
           Merged(s)[leaf] =
             IF leaf \in DOMAIN ReadEnvOverlay(s.env)
             THEN Entry(ReadEnvOverlay(s.env)[leaf], "env", TRUE) ELSE Filed(s)[leaf]
  BY DEF Merged, Layered
<1> QED
  BY <1>1, <1>2, <1>3 DEF Supplied, Decided

LEMMA Defaults ==
  ASSUME NEW leaf \in DOMAIN DefaultConfig
  PROVE  DefaultConfig[leaf].value # "bad" /\ DefaultConfig[leaf].locked = FALSE
  BY DEF DefaultConfig, Entry

ConfigInv ==
  /\ setup \in Operators
  /\ \/ loaded = Outcome("unread", << >>)
     \/ loaded = Outcome(LoadConfig(setup).is, FlattenWithSources(LoadConfig(setup).leaves))

LEMMA LeafShown ==
  ASSUME ConfigInv, loaded.is # "unread"
  PROVE  /\ loaded.is = LoadConfig(setup).is
         /\ loaded.leaves = FlattenWithSources(LoadConfig(setup).leaves)
  BY DEF ConfigInv, Outcome

(* Set-ups that decide alike are read alike.                                   *)
LEMMA DecidedAlike ==
  ASSUME NEW s, NEW t, NEW mine,
         \A l : l \notin mine => /\ Supplied(t, l) <=> Supplied(s, l)
                                /\ Decided(t, l) = Decided(s, l)
  PROVE  OutOf(mine, Merged(s)) = OutOf(mine, Merged(t))
<1>1. \A l : l \notin mine =>
        /\ l \in DOMAIN Merged(t) <=> l \in DOMAIN Merged(s)
        /\ l \in DOMAIN Merged(s) => Merged(t)[l] = Merged(s)[l]
  BY Decides
<1>2. DOMAIN Merged(t) \ mine = DOMAIN Merged(s) \ mine
  BY <1>1
<1>3. \A l \in DOMAIN Merged(s) \ mine : Merged(t)[l] = Merged(s)[l]
  BY <1>1
<1> QED
  BY <1>2, <1>3 DEF OutOf

(* What each layer supplies besides a part that is taken away.                 *)
LEMMA RowTaken ==
  ASSUME ConfigInv, NEW leaf
  PROVE  LET other == [setup EXCEPT !.rows = OutOf({leaf}, @)]
         IN  OutOf({leaf}, Merged(setup)) = OutOf({leaf}, Merged(other))
<1> DEFINE other == [setup EXCEPT !.rows = OutOf({leaf}, @)]
<1>1. other.rows = OutOf({leaf}, setup.rows) /\ other.file = setup.file /\ other.env = setup.env
  BY OperatorsAssumption DEF ConfigInv
<1> HIDE DEF other
<1>2. \A l : l \notin {leaf} => /\ Supplied(other, l) <=> Supplied(setup, l)
                               /\ Decided(other, l) = Decided(setup, l)
  BY <1>1 DEF Supplied, Decided, OutOf
<1>3. OutOf({leaf}, Merged(setup)) = OutOf({leaf}, Merged(other))
  BY <1>2, DecidedAlike
<1> QED
  BY <1>3 DEF other

LEMMA VariableTaken ==
  ASSUME ConfigInv, NEW leaf
  PROVE  LET other == [setup EXCEPT !.env = OutOf({leaf}, @)]
         IN  OutOf({leaf}, Merged(setup)) = OutOf({leaf}, Merged(other))
<1> DEFINE other == [setup EXCEPT !.env = OutOf({leaf}, @)]
<1>1. other.rows = setup.rows /\ other.file = setup.file /\ other.env = OutOf({leaf}, setup.env)
  BY OperatorsAssumption DEF ConfigInv
<1> HIDE DEF other
<1>2. /\ DOMAIN ReadEnvOverlay(other.env) = DOMAIN ReadEnvOverlay(setup.env) \ {leaf}
      /\ \A l \in DOMAIN ReadEnvOverlay(other.env) :
           ReadEnvOverlay(other.env)[l] = ReadEnvOverlay(setup.env)[l]
  BY <1>1 DEF ReadEnvOverlay, OutOf
<1>3. \A l : l \notin {leaf} => /\ Supplied(other, l) <=> Supplied(setup, l)
                               /\ Decided(other, l) = Decided(setup, l)
  BY <1>1, <1>2 DEF Supplied, Decided
<1>4. OutOf({leaf}, Merged(setup)) = OutOf({leaf}, Merged(other))
  BY <1>3, DecidedAlike
<1> QED
  BY <1>4 DEF other

LEMMA LineTaken ==
  ASSUME ConfigInv, NEW leaf
  PROVE  OutOf({leaf}, Merged(setup)) = OutOf({leaf}, Merged(Unwritten(leaf)))
<1> DEFINE other == Unwritten(leaf)
<1>1. /\ other.rows = setup.rows /\ other.env = setup.env
      /\ other.file.leaves = OutOf({leaf}, setup.file.leaves)
      /\ other.file.sections = setup.file.sections
  BY OperatorsAssumption DEF ConfigInv, Unwritten, WithFile
<1> HIDE DEF other
<1>2. /\ DOMAIN FileOverlay(other.file) \ {leaf} = DOMAIN FileOverlay(setup.file) \ {leaf}
      /\ \A l \in DOMAIN FileOverlay(other.file) \ {leaf} :
           FileOverlay(other.file)[l] = FileOverlay(setup.file)[l]
  BY <1>1 DEF FileOverlay, OutOf
<1>3. \A l : l \notin {leaf} => /\ Supplied(other, l) <=> Supplied(setup, l)
                               /\ Decided(other, l) = Decided(setup, l)
  BY <1>1, <1>2 DEF Supplied, Decided
<1>4. OutOf({leaf}, Merged(setup)) = OutOf({leaf}, Merged(other))
  BY <1>3, DecidedAlike
<1> QED
  BY <1>4 DEF other

LEMMA SectionTaken ==
  ASSUME ConfigInv, NEW section
  PROVE  OutOf(Section(section), Merged(setup))
           = OutOf(Section(section), Merged(Unmounted(section)))
<1> DEFINE other == Unmounted(section)
           mine == Section(section)
<1>1. /\ other.rows = setup.rows /\ other.env = setup.env
      /\ other.file.leaves = OutOf(mine, setup.file.leaves)
      /\ other.file.sections = setup.file.sections \ {section}
  BY OperatorsAssumption DEF ConfigInv, Unmounted, WithFile
<1> HIDE DEF other
<1>2. \A l \in Leaves : l \notin mine => l[1] # section
  BY DEF Section
<1> HIDE DEF mine
<1>3. /\ DOMAIN FileOverlay(other.file) \ mine = DOMAIN FileOverlay(setup.file) \ mine
      /\ \A l \in DOMAIN FileOverlay(other.file) \ mine :
           FileOverlay(other.file)[l] = FileOverlay(setup.file)[l]
  BY <1>1, <1>2 DEF FileOverlay, OutOf
<1>4. \A l : l \notin mine => /\ Supplied(other, l) <=> Supplied(setup, l)
                             /\ Decided(other, l) = Decided(setup, l)
  BY <1>1, <1>3 DEF Supplied, Decided
<1>5. OutOf(mine, Merged(setup)) = OutOf(mine, Merged(other))
  BY <1>4, DecidedAlike
<1> QED
  BY <1>5 DEF other, mine

(* What is locked was decided by the file or the environment, and is read the  *)
(* same when the settings table is empty.                                      *)
LEMMA EmptyTable ==
  ASSUME ConfigInv, LoadConfig(setup).is = "read",
         NEW leaf \in DOMAIN Merged(setup), Merged(setup)[leaf].locked
  PROVE  LET other == LoadConfig([setup EXCEPT !.rows = << >>]).leaves
         IN  leaf \in DOMAIN other /\ other[leaf].value = Merged(setup)[leaf].value
<1>1. PICK other : other = [setup EXCEPT !.rows = << >>]
  OBVIOUS
<1>2. other.rows = << >> /\ other.file = setup.file /\ other.env = setup.env
  BY <1>1, OperatorsAssumption DEF ConfigInv
<1>3. ~FileRefused(setup.file) /\ ~SchemaRefuses(Merged(setup))
  BY LoadedIs
<1>4. \A l : Supplied(other, l) =>
        \/ Supplied(setup, l) /\ Decided(other, l) = Decided(setup, l)
        \/ l \in DOMAIN DefaultConfig /\ Decided(other, l) = DefaultConfig[l]
  <2>1. \A l : l \notin DOMAIN other.rows
    BY <1>2
  <2> QED
    BY <1>2, <2>1 DEF Supplied, Decided
<1>5. Decided(setup, leaf).locked /\ Supplied(setup, leaf)
  BY Decides
<1>6. leaf \in DOMAIN ReadEnvOverlay(setup.env) \/ leaf \in DOMAIN FileOverlay(setup.file)
  BY <1>5, Defaults DEF Supplied, Decided, Entry
<1>7. Supplied(other, leaf) /\ Decided(other, leaf) = Decided(setup, leaf)
  BY <1>2, <1>6 DEF Supplied, Decided
<1>8. ~SchemaRefuses(Merged(other))
  <2>1. SUFFICES ASSUME NEW l \in DOMAIN Merged(other), Merged(other)[l].value = "bad"
                 PROVE  FALSE
    BY DEF SchemaRefuses
  <2>2. Supplied(other, l) /\ Decided(other, l).value = "bad"
    BY <2>1, Decides
  <2>3. Supplied(setup, l) /\ Decided(setup, l).value = "bad"
    BY <1>4, <2>2, Defaults
  <2>4. l \in DOMAIN Merged(setup) /\ Merged(setup)[l].value = "bad"
    BY <2>3, Decides
  <2> QED
    BY <1>3, <2>4 DEF SchemaRefuses
<1>9. LoadConfig(other).leaves = Merged(other)
  BY <1>2, <1>3, <1>8, LoadedIs
<1>10. leaf \in DOMAIN Merged(other) /\ Merged(other)[leaf] = Merged(setup)[leaf]
  BY <1>5, <1>7, Decides
<1> QED
  BY <1>1, <1>9, <1>10

LEMMA ConfigApart == ConfigInv => LayersApart
<1> SUFFICES ASSUME ConfigInv
             PROVE  LayersApart
  OBVIOUS
<1>1. LayersTouchTheirOwn
  <2>1. SUFFICES ASSUME loaded.is = "read"
                 PROVE  /\ \A leaf \in DOMAIN setup.rows :
                             SameBeside({leaf}, [setup EXCEPT !.rows = OutOf({leaf}, @)])
                        /\ \A leaf \in DOMAIN setup.env :
                             SameBeside({leaf}, [setup EXCEPT !.env = OutOf({leaf}, @)])
                        /\ \A leaf \in DOMAIN setup.file.leaves :
                             SameBeside({leaf}, Unwritten(leaf))
                        /\ \A section \in setup.file.sections :
                             SameBeside(Section(section), Unmounted(section))
    BY DEF LayersTouchTheirOwn
  <2>2. LoadConfig(setup).leaves = Merged(setup)
    BY <2>1, LeafShown, LoadedIs
  <2>3. ASSUME NEW mine, NEW other, OutOf(mine, Merged(setup)) = OutOf(mine, Merged(other))
        PROVE  SameBeside(mine, other)
    BY <2>2, <2>3, LoadedIs DEF SameBeside
  <2> QED
    BY <2>3, RowTaken, VariableTaken, LineTaken, SectionTaken
<1>2. LockedIgnoresDatabase
  <2>1. SUFFICES ASSUME NEW leaf \in DOMAIN loaded.leaves, loaded.leaves[leaf].locked
                 PROVE  LET other == LoadConfig([setup EXCEPT !.rows = << >>]).leaves
                        IN  leaf \in DOMAIN other
                            /\ other[leaf].value = LoadConfig(setup).leaves[leaf].value
    BY DEF LockedIgnoresDatabase
  <2>2. loaded.is # "unread"
    <3>1. loaded = Outcome("unread", << >>) => loaded.leaves = << >>
      BY DEF Outcome
    <3>2. DOMAIN << >> = {}
      OBVIOUS
    <3>3. loaded.is = "unread" => loaded = Outcome("unread", << >>)
      BY LoadedIs DEF ConfigInv, Outcome
    <3> QED
      BY <2>1, <3>1, <3>2, <3>3
  <2>3. loaded.leaves = FlattenWithSources(LoadConfig(setup).leaves)
    BY <2>2, LeafShown
  <2>4. LoadConfig(setup).is = "read"
    BY <2>1, <2>3, Loads DEF Outcome, FlattenWithSources
  <2>5. LoadConfig(setup).leaves = Merged(setup)
    BY <2>4, LoadedIs
  <2>6. leaf \in DOMAIN Merged(setup) /\ Merged(setup)[leaf].locked
    BY <2>1, <2>3, <2>5 DEF FlattenWithSources
  <2> QED
    BY <2>4, <2>5, <2>6, EmptyTable
<1> QED
  BY <1>1, <1>2 DEF LayersApart

(* loader.ts: a row and a variable decide the one leaf they name, the file the *)
(* sections it names, and what the page shows as locked is decided by nothing  *)
(* a dashboard could save, whatever the table, the file and the environment    *)
(* hold.                                                                       *)
THEOREM LayersStayApart == ConfigSpec => []LayersApart
<1>1. ConfigInit => ConfigInv
  BY DEF ConfigInit, ConfigInv
<1>2. ConfigInv /\ [ReadConfig]_configVars => ConfigInv'
  <2>1. LoadConfig(setup) = Outcome(LoadConfig(setup).is, LoadConfig(setup).leaves)
    BY Loads DEF Outcome
  <2>2. [LoadConfig(setup) EXCEPT !.leaves = FlattenWithSources(@)] =
          Outcome(LoadConfig(setup).is, FlattenWithSources(LoadConfig(setup).leaves))
    BY <2>1 DEF Outcome
  <2> QED
    BY <2>2 DEF ConfigInv, ReadConfig, configVars
<1> QED
  BY <1>1, <1>2, ConfigApart, PTL DEF ConfigSpec
=============================================================================

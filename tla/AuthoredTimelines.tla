--------------------------- MODULE AuthoredTimelines ---------------------------
(* A timeline as the scheduler has it: the rows one submission inserts into    *)
(* scheduled_actions, told apart by what core/scheduler.ts does with them.     *)
EXTENDS PaymentStates, Sequences

AuthoredTypes == {"transition", "snapshot", "browser", "omit", "webhook", "repeat", "corrupt"}

(* `source` is the place of another row in the timeline, or 0; `offset` counts *)
(* from the submission.                                                        *)
TimelineRow ==
  [type : AuthoredTypes, to : InternalStates \cup {"none"}, source : Nat, offset : Nat]
Timeline(timeline) ==
  /\ timeline \in Seq(TimelineRow)
  /\ \A n \in DOMAIN timeline :
       timeline[n].type \in {"transition", "snapshot"} => timeline[n].to \in InternalStates

(* Timelines that author their transitions in the order of their offsets, each *)
(* legal from the one before, and, where merchants void, none after a state    *)
(* that can be voided; and show only what has a projection.                    *)
TransitionsIn(timeline) == {n \in DOMAIN timeline : timeline[n].type = "transition"}
LawfulNext(timeline, m, n, voids) ==
  /\ timeline[m].offset <= timeline[n].offset
  /\ (\A k \in TransitionsIn(timeline) : k <= m \/ n <= k) =>
       /\ IsLegalTransition(timeline[m].to, timeline[n].to)
       /\ voids => timeline[m].to \notin {"authorized", "succeeded"}
Lawful(timeline, voids) ==
  /\ \A n \in DOMAIN timeline :
       timeline[n].type \in {"transition", "snapshot"} => HasProjection(timeline[n].to)
  /\ \A m, n \in TransitionsIn(timeline) : m < n => LawfulNext(timeline, m, n, voids)
  /\ \A n \in TransitionsIn(timeline) :
       (\A m \in TransitionsIn(timeline) : n <= m) =>
         IsLegalTransition("processing", timeline[n].to)
=============================================================================

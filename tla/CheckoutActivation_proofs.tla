---------------------- MODULE CheckoutActivation_proofs ----------------------
(* Proofs about CheckoutActivation, for every set of intentions, expectations, *)
(* terms, references, keys and lifetimes.                                      *)
(*                                                                             *)
(* The properties are not inductive on their own.  RowsSane says what a stored *)
(* row may hold, UniqueMatch says which stored expectations can compete for a  *)
(* reference, also after a manual clock was reset to its initial time by a     *)
(* restart, and PendingSound is what a submission that stands between its two  *)
(* commits still knows of the rows it has read: the intention is open and not  *)
(* expired, and the use of its expectation is paid for and has not been spent. *)
EXTENDS CheckoutActivation, FiniteSetTheorems, TLAPS

RowsSane ==
  /\ \A i \in Intentions : intentions[i].status # "none" => intentions[i].terms \in Terms
  /\ \A e \in Expectations :
       /\ expectations[e].status = "none" => UsesOf(e) = {}
       /\ expectations[e].status = "stored" =>
            /\ expectations[e].remaining <= expectations[e].total
            /\ ~expectations[e].consumed => expectations[e].remaining > 0
            /\ expectations[e].createdAt < expectations[e].expiresAt

Available(e) == expectations[e].status = "stored" /\ ~expectations[e].consumed

UniqueMatch ==
  /\ mode = "real" => \A ref \in Refs : \A e, f \in Matching(ref) : e = f
  /\ \A e, f \in Expectations :
       /\ Available(e) /\ Available(f)
       /\ expectations[e].ref = expectations[f].ref
       /\ expectations[e].createdAt = expectations[f].createdAt
       => e = f

PendingSound ==
  ~Idle =>
    /\ intentions[submission.intention].status = "intended"
    /\ now < intentions[submission.intention].expiresAt
    /\ submission.source \in Expectations =>
         LET row == expectations[submission.source] IN
         /\ row.status = "stored" /\ row.scenario = submission.scenario
         /\ Cardinality(UsesOf(submission.source)) < row.total - row.remaining

Inv ==
  /\ TypeOK
  /\ RowsSane
  /\ UniqueMatch
  /\ PendingSound
  /\ OneActivation
  /\ TermsFrozen
  /\ ExpectationAccounting

-----------------------------------------------------------------------------
(* The table of activations. *)

ActivationRows ==
  [intention : Intentions, terms : Terms, scenario : KnownScenarios,
   source : Sources, at : Nat]

(* The activations of an intention, and the uses of an expectation, are finite.*)
LEMMA FiniteRows ==
  ASSUME TypeOK, NEW S \in SUBSET DOMAIN activations
  PROVE  IsFiniteSet(S) /\ Cardinality(S) \in Nat
<1>1. DOMAIN activations = 1 .. Len(activations) /\ Len(activations) \in Nat
  BY DEF TypeOK
<1>2. IsFiniteSet(DOMAIN activations)
  BY <1>1, FS_Interval
<1> QED
  BY <1>2, FS_Subset, FS_CardinalityType

(* What the type says of one activation. *)
LEMMA RowOfActivation ==
  ASSUME TypeOK, NEW n \in DOMAIN activations
  PROVE  /\ activations[n] \in ActivationRows
         /\ activations[n].intention \in Intentions
         /\ n \in ActivationsOf(activations[n].intention)
<1>1. activations \in Seq(ActivationRows)
  BY DEF TypeOK, ActivationRows
<1>2. activations[n] \in ActivationRows
  BY <1>1
<1> QED
  BY <1>2 DEF ActivationRows, ActivationsOf

(* One more activation: the rows before it stay as they are, and it counts for *)
(* its intention and its source alone.                                         *)
LEMMA Appended ==
  ASSUME TypeOK, NEW a \in ActivationRows,
         activations' = Append(activations, a)
  PROVE  /\ activations' \in Seq(ActivationRows)
         /\ Len(activations) + 1 \notin DOMAIN activations
         /\ DOMAIN activations' = DOMAIN activations \cup {Len(activations) + 1}
         /\ activations'[Len(activations) + 1] = a
         /\ \A n \in DOMAIN activations : activations'[n] = activations[n]
         /\ \A i \in Intentions : ActivationsOf(i)' =
              IF a.intention = i THEN ActivationsOf(i) \cup {Len(activations) + 1}
                                 ELSE ActivationsOf(i)
         /\ \A e \in Expectations : UsesOf(e)' =
              IF a.source = e THEN UsesOf(e) \cup {Len(activations) + 1}
                              ELSE UsesOf(e)
<1>1. activations \in Seq(ActivationRows)
  BY DEF TypeOK, ActivationRows
<1>2. /\ activations' \in Seq(ActivationRows)
      /\ Len(activations) + 1 \notin DOMAIN activations
      /\ DOMAIN activations' = DOMAIN activations \cup {Len(activations) + 1}
      /\ activations'[Len(activations) + 1] = a
      /\ \A n \in DOMAIN activations : activations'[n] = activations[n]
  BY <1>1
<1>3. ASSUME NEW i \in Intentions
      PROVE  ActivationsOf(i)' =
               IF a.intention = i THEN ActivationsOf(i) \cup {Len(activations) + 1}
                                  ELSE ActivationsOf(i)
  BY <1>2 DEF ActivationsOf
<1>4. ASSUME NEW e \in Expectations
      PROVE  UsesOf(e)' = IF a.source = e THEN UsesOf(e) \cup {Len(activations) + 1}
                                          ELSE UsesOf(e)
  BY <1>2 DEF UsesOf
<1> QED
  BY <1>2, <1>3, <1>4

(* A step that appends nothing changes no count.                               *)
LEMMA SameUses ==
  ASSUME activations' = activations
  PROVE  /\ \A i \in Intentions : ActivationsOf(i)' = ActivationsOf(i)
         /\ \A e \in Expectations : UsesOf(e)' = UsesOf(e)
  BY DEF ActivationsOf, UsesOf

-----------------------------------------------------------------------------
(* A step of the intention service: one row changes, and no submission stands  *)
(* between its commits.                                                        *)
LEMMA CreateIntentionPreserves ==
  ASSUME Inv, NEW i \in Intentions, NEW terms \in Terms, NEW ref \in Refs \cup {NoRef},
         NEW expiration \in Lifetimes, CreateIntention(i, terms, ref, expiration)
  PROVE  Inv'
<1>0. /\ TypeOK /\ RowsSane /\ UniqueMatch /\ OneActivation /\ TermsFrozen
      /\ ExpectationAccounting /\ expiration \in Nat \ {0}
  BY LifetimeAssumption DEF Inv
<1>1. /\ Idle /\ intentions[i].status = "none"
      /\ UNCHANGED <<expectations, activations, submission, mode, now>>
      /\ intentions' = [intentions EXCEPT ![i] =
           [status |-> "intended", terms |-> terms, ref |-> ref, key |-> NoKey,
            createdAt |-> now, expiresAt |-> now + expiration]]
  BY DEF CreateIntention
<1>2. /\ \A j \in Intentions : ActivationsOf(j)' = ActivationsOf(j)
      /\ \A e \in Expectations : UsesOf(e)' = UsesOf(e)
  BY <1>1, SameUses
<1>3. ActivationsOf(i) = {}
  <2>1. Cardinality(ActivationsOf(i)) = 0
    BY <1>0, <1>1 DEF OneActivation
  <2> QED
    BY <1>0, <2>1, FiniteRows, FS_EmptySet DEF ActivationsOf
<1>4. TypeOK'
  BY <1>0, <1>1 DEF TypeOK, IntentionRows, Idle
<1>5. RowsSane'
  BY <1>0, <1>1, <1>2 DEF RowsSane, TypeOK
<1>6. UniqueMatch'
  BY <1>0, <1>1 DEF UniqueMatch, Available, Matching, Active
<1>7. PendingSound'
  BY <1>1 DEF PendingSound, Idle
<1>8. OneActivation'
  BY <1>0, <1>1, <1>2 DEF OneActivation, TypeOK
<1>9. TermsFrozen'
  <2> SUFFICES ASSUME NEW n \in DOMAIN activations
               PROVE  LET row == intentions'[activations[n].intention] IN
                      activations[n].terms = row.terms /\ activations[n].at < row.expiresAt
    BY <1>1 DEF TermsFrozen
  <2>1. activations[n].intention \in Intentions \ {i}
    BY <1>0, <1>3, RowOfActivation
  <2> QED
    BY <1>0, <1>1, <2>1 DEF TermsFrozen, TypeOK
<1>10. ExpectationAccounting'
  BY <1>0, <1>1, <1>2 DEF ExpectationAccounting
<1> QED
  BY <1>4, <1>5, <1>6, <1>7, <1>8, <1>9, <1>10 DEF Inv

LEMMA UpdateIntentionPreserves ==
  ASSUME Inv, NEW i \in Intentions, NEW terms \in Terms, NEW ref \in Refs \cup {NoRef},
         NEW expiresAt \in 0 .. MaxTime + MaxTime, UpdateIntention(i, terms, ref, expiresAt)
  PROVE  Inv'
<1>0. /\ TypeOK /\ RowsSane /\ UniqueMatch /\ OneActivation /\ TermsFrozen
      /\ ExpectationAccounting /\ expiresAt \in Nat
  BY LifetimeAssumption DEF Inv
<1>1. /\ Idle /\ intentions[i].status = "intended"
      /\ UNCHANGED <<expectations, activations, submission, mode, now>>
      /\ intentions' = [intentions EXCEPT
           ![i].terms = terms, ![i].ref = ref, ![i].expiresAt = expiresAt]
  BY DEF UpdateIntention, Updatable
<1>2. /\ \A j \in Intentions : ActivationsOf(j)' = ActivationsOf(j)
      /\ \A e \in Expectations : UsesOf(e)' = UsesOf(e)
  BY <1>1, SameUses
<1>3. ActivationsOf(i) = {}
  <2>1. Cardinality(ActivationsOf(i)) = 0
    BY <1>0, <1>1 DEF OneActivation
  <2> QED
    BY <1>0, <2>1, FiniteRows, FS_EmptySet DEF ActivationsOf
<1>4. /\ intentions' \in [Intentions -> IntentionRows]
      /\ intentions'[i].status = "intended" /\ intentions'[i].terms = terms
      /\ \A j \in Intentions \ {i} : intentions'[j] = intentions[j]
  <2> DEFINE row == [intentions[i] EXCEPT !.terms = terms, !.ref = ref,
                                           !.expiresAt = expiresAt]
  <2>1. intentions \in [Intentions -> IntentionRows] /\ intentions[i] \in IntentionRows
    BY <1>0 DEF TypeOK
  <2>2. row \in IntentionRows /\ row.status = "intended" /\ row.terms = terms
    BY <1>0, <1>1, <2>1 DEF IntentionRows
  <2>3. intentions' = [intentions EXCEPT ![i] = row]
    BY <1>1, <2>1
  <2> QED
    BY <2>1, <2>2, <2>3
<1>5. TypeOK'
  BY <1>0, <1>1, <1>4 DEF TypeOK, Idle
<1>6. RowsSane'
  BY <1>0, <1>1, <1>2, <1>4 DEF RowsSane
<1>7. UniqueMatch'
  BY <1>0, <1>1 DEF UniqueMatch, Available, Matching, Active
<1>8. PendingSound'
  BY <1>1 DEF PendingSound, Idle
<1>9. OneActivation'
  BY <1>0, <1>1, <1>2, <1>4 DEF OneActivation
<1>10. TermsFrozen'
  <2> SUFFICES ASSUME NEW n \in DOMAIN activations
               PROVE  LET row == intentions'[activations[n].intention] IN
                      activations[n].terms = row.terms /\ activations[n].at < row.expiresAt
    BY <1>1 DEF TermsFrozen
  <2>1. activations[n].intention \in Intentions \ {i}
    BY <1>0, <1>3, RowOfActivation
  <2> QED
    BY <1>0, <1>4, <2>1 DEF TermsFrozen
<1>11. ExpectationAccounting'
  BY <1>0, <1>1, <1>2 DEF ExpectationAccounting
<1> QED
  BY <1>5, <1>6, <1>7, <1>8, <1>9, <1>10, <1>11 DEF Inv

-----------------------------------------------------------------------------
(* A step of the expectations service. *)
LEMMA CreateExpectationPreserves ==
  ASSUME Inv, NEW e \in Expectations, NEW ref \in Refs, NEW scenario \in ScenarioIds,
         NEW times \in Times, NEW expiresIn \in ExpiresIn,
         CreateExpectation(e, ref, scenario, times, expiresIn)
  PROVE  Inv'
<1>0. /\ TypeOK /\ RowsSane /\ UniqueMatch /\ OneActivation /\ TermsFrozen
      /\ ExpectationAccounting /\ expiresIn \in Nat \ {0} /\ times \in Nat \ {0}
  BY LifetimeAssumption DEF Inv
<1>1. /\ Idle /\ expectations[e].status = "none" /\ Matching(ref) = {}
      /\ UNCHANGED <<intentions, activations, submission, mode, now>>
      /\ expectations' = [expectations EXCEPT ![e] =
           [status |-> "stored", ref |-> ref, scenario |-> scenario, total |-> times,
            remaining |-> times, consumed |-> FALSE,
            createdAt |-> now, expiresAt |-> now + expiresIn]]
  BY DEF CreateExpectation, Ambiguous
<1>2. /\ \A j \in Intentions : ActivationsOf(j)' = ActivationsOf(j)
      /\ \A f \in Expectations : UsesOf(f)' = UsesOf(f)
  BY <1>1, SameUses
<1>3. UsesOf(e) = {} /\ Cardinality(UsesOf(e)) = 0
  BY <1>0, <1>1, FS_EmptySet DEF RowsSane
<1>4. TypeOK'
  BY <1>0, <1>1 DEF TypeOK, ExpectationRows, Idle
<1>5. /\ \A f \in Expectations \ {e} : expectations'[f] = expectations[f]
      /\ expectations'[e].status = "stored" /\ expectations'[e].ref = ref
      /\ expectations'[e].scenario = scenario /\ expectations'[e].total = times
      /\ expectations'[e].remaining = times /\ expectations'[e].consumed = FALSE
      /\ expectations'[e].createdAt = now /\ expectations'[e].expiresAt = now + expiresIn
  BY <1>0, <1>1 DEF TypeOK
<1>6. RowsSane'
  BY <1>0, <1>1, <1>2, <1>5 DEF RowsSane, TypeOK
<1>7. UniqueMatch'
  <2>1. mode' = "real" => \A r \in Refs : \A f, g \in Matching(r)' : f = g
    BY <1>0, <1>1, <1>5 DEF UniqueMatch, Matching, Active
  <2>2. ASSUME NEW f \in Expectations \ {e}, Available(f), expectations[f].ref = ref,
               expectations[f].createdAt = now
        PROVE  FALSE
    BY <1>0, <1>1, <2>2 DEF RowsSane, Available, Matching, Active, TypeOK, ExpectationRows
  <2> QED
    BY <1>0, <1>5, <2>1, <2>2, <1>1 DEF UniqueMatch, Available
<1>8. PendingSound'
  BY <1>1 DEF PendingSound, Idle
<1>9. OneActivation' /\ TermsFrozen'
  BY <1>0, <1>1, <1>2 DEF OneActivation, TermsFrozen
<1>10. ExpectationAccounting'
  <2> SUFFICES ASSUME NEW f \in Expectations, expectations'[f].status = "stored"
               PROVE  /\ Cardinality(UsesOf(f)) <= expectations'[f].total - expectations'[f].remaining
                      /\ expectations'[f].remaining >= 0
                      /\ \A n \in UsesOf(f) : activations[n].scenario = expectations'[f].scenario
    BY <1>1, <1>2 DEF ExpectationAccounting
  <2>1. CASE f = e
    <3>1. expectations'[f].total = times /\ expectations'[f].remaining = times /\ times \in Nat
      BY <1>0, <1>5, <2>1
    <3>2. UsesOf(f) = {} /\ Cardinality(UsesOf(f)) = 0
      BY <1>3, <2>1
    <3> QED
      BY <3>1, <3>2
  <2>2. CASE f # e
    BY <1>0, <1>5, <2>2 DEF ExpectationAccounting
  <2> QED
    BY <2>1, <2>2
<1> QED
  BY <1>4, <1>6, <1>7, <1>8, <1>9, <1>10 DEF Inv

LEMMA CancelExpectationPreserves ==
  ASSUME Inv, NEW e \in Expectations, CancelExpectation(e)
  PROVE  Inv'
<1>0. /\ TypeOK /\ RowsSane /\ UniqueMatch /\ OneActivation /\ TermsFrozen
      /\ ExpectationAccounting
  BY DEF Inv
<1>1. /\ Idle
      /\ UNCHANGED <<intentions, activations, submission, mode, now>>
      /\ expectations' = [expectations EXCEPT ![e] = [NoExpectation EXCEPT !.status = "deleted"]]
  BY DEF CancelExpectation
<1>2. /\ \A j \in Intentions : ActivationsOf(j)' = ActivationsOf(j)
      /\ \A f \in Expectations : UsesOf(f)' = UsesOf(f)
  BY <1>1, SameUses
<1>3. /\ \A f \in Expectations \ {e} : expectations'[f] = expectations[f]
      /\ expectations'[e].status = "deleted"
  BY <1>0, <1>1 DEF TypeOK, NoExpectation
<1>4. TypeOK'
  BY <1>0, <1>1 DEF TypeOK, ExpectationRows, NoExpectation, ScenarioIds, Idle
<1>5. RowsSane'
  BY <1>0, <1>1, <1>2, <1>3 DEF RowsSane
<1>6. UniqueMatch'
  BY <1>0, <1>1, <1>3 DEF UniqueMatch, Available, Matching, Active
<1>7. PendingSound'
  BY <1>1 DEF PendingSound, Idle
<1>8. OneActivation' /\ TermsFrozen'
  BY <1>0, <1>1, <1>2 DEF OneActivation, TermsFrozen
<1>9. ExpectationAccounting'
  BY <1>0, <1>1, <1>2, <1>3 DEF ExpectationAccounting
<1> QED
  BY <1>4, <1>5, <1>6, <1>7, <1>8, <1>9 DEF Inv
-----------------------------------------------------------------------------
(* The first commit of a submission. *)

(* What "proceeds" means for the intention. *)
LEMMA Proceeds ==
  ASSUME TypeOK, NEW i \in Intentions, NEW key, Answer(i, key) = "proceeds"
  PROVE  intentions[i].status = "intended" /\ now < intentions[i].expiresAt
<1>1. ~Expired(i) /\ intentions[i].status = "intended"
  BY DEF Answer
<1>2. now \in Nat /\ intentions[i].expiresAt \in Nat
  BY DEF TypeOK, IntentionRows
<1> QED
  BY <1>1, <1>2 DEF Expired

(* What one use changes in an expectation. *)
LEMMA ConsumedRow ==
  ASSUME NEW row \in ExpectationRows, row.remaining > 0
  PROVE  /\ Consumed(row) \in ExpectationRows
         /\ Consumed(row).remaining = row.remaining - 1
         /\ ~Consumed(row).consumed => Consumed(row).remaining > 0
         /\ Consumed(row).status = row.status
         /\ Consumed(row).ref = row.ref
         /\ Consumed(row).scenario = row.scenario
         /\ Consumed(row).total = row.total
         /\ Consumed(row).createdAt = row.createdAt
         /\ Consumed(row).expiresAt = row.expiresAt
<1>1. row.remaining \in Nat /\ row.remaining - 1 \in Nat
  BY DEF ExpectationRows
<1>2. PICK flag \in BOOLEAN : flag = (row.remaining - 1 <= 0)
  <2>1. (row.remaining - 1 <= 0) \in BOOLEAN
    OBVIOUS
  <2> QED
    BY <2>1, Zenon
<1>3. Consumed(row) = [row EXCEPT !.remaining = row.remaining - 1, !.consumed = flag]
  BY <1>2, Zenon DEF Consumed
<1>4. /\ Consumed(row) \in ExpectationRows
      /\ Consumed(row).remaining = row.remaining - 1
      /\ Consumed(row).status = row.status
      /\ Consumed(row).ref = row.ref
      /\ Consumed(row).scenario = row.scenario
      /\ Consumed(row).total = row.total
      /\ Consumed(row).createdAt = row.createdAt
      /\ Consumed(row).expiresAt = row.expiresAt
  BY <1>1, <1>3 DEF ExpectationRows
<1>5. Consumed(row).consumed = flag
  BY <1>3 DEF ExpectationRows
<1>6. ~flag => row.remaining - 1 > 0
  <2>1. ~flag => ~(row.remaining - 1 <= 0)
    BY <1>2, Zenon
  <2> QED
    BY <1>1, <2>1
<1>7. ~Consumed(row).consumed => Consumed(row).remaining > 0
  <2>1. CASE flag
    BY <1>5, <2>1, Zenon
  <2>2. CASE ~flag
    BY <1>1, <1>4, <1>6, <2>2
  <2> QED
    BY <2>1, <2>2
<1> QED
  BY <1>4, <1>7

LEMMA SubmitWithExpectationPreserves ==
  ASSUME Inv, NEW i \in Intentions, NEW card \in Cards, NEW key \in Keys \cup {NoKey},
         SubmitWithExpectation(i, card, key)
  PROVE  Inv'
<1>0. /\ TypeOK /\ RowsSane /\ UniqueMatch /\ OneActivation /\ TermsFrozen
      /\ ExpectationAccounting
  BY DEF Inv
<1>1. /\ UNCHANGED <<intentions, activations, mode, now>>
      /\ intentions[i].ref # NoRef
      /\ intentions[i].status = "intended" /\ now < intentions[i].expiresAt
  BY <1>0, Proceeds DEF SubmitWithExpectation
<1>2. PICK e \in Matching(intentions[i].ref) :
        /\ expectations' = [expectations EXCEPT ![e] = Consumed(@)]
        /\ Selected(i, expectations[e].scenario, e, key)
  BY DEF SubmitWithExpectation
<1> DEFINE row == expectations[e]
<1>3. /\ e \in Expectations /\ row \in ExpectationRows
      /\ row.status = "stored" /\ ~row.consumed /\ row.remaining > 0
      /\ row.remaining <= row.total
      /\ row.remaining \in Nat /\ row.total \in Nat
  BY <1>0, <1>2 DEF Matching, Active, RowsSane, TypeOK, ExpectationRows
<1>4. /\ expectations' \in [Expectations -> ExpectationRows]
      /\ \A f \in Expectations \ {e} : expectations'[f] = expectations[f]
      /\ expectations'[e] = Consumed(row)
  BY <1>0, <1>2, <1>3, ConsumedRow DEF TypeOK
<1>5. /\ expectations'[e].status = "stored" /\ expectations'[e].scenario = row.scenario
      /\ expectations'[e].ref = row.ref /\ expectations'[e].expiresAt = row.expiresAt
      /\ expectations'[e].total = row.total /\ expectations'[e].createdAt = row.createdAt
      /\ expectations'[e].remaining = row.remaining - 1
      /\ ~expectations'[e].consumed => expectations'[e].remaining > 0
  BY <1>3, <1>4, ConsumedRow
<1>6. /\ submission' = [intention |-> i, scenario |-> row.scenario, source |-> e, key |-> key]
      /\ submission'.intention = i /\ submission'.scenario = row.scenario
      /\ submission'.source = e
  BY <1>2 DEF Selected
<1>7. /\ \A j \in Intentions : ActivationsOf(j)' = ActivationsOf(j)
      /\ \A f \in Expectations : UsesOf(f)' = UsesOf(f)
  BY <1>1, SameUses
<1>8. TypeOK'
  BY <1>0, <1>1, <1>3, <1>4, <1>6 DEF TypeOK, ExpectationRows, Sources
<1>9. RowsSane'
  BY <1>0, <1>1, <1>3, <1>4, <1>5, <1>7 DEF RowsSane
<1>10. UniqueMatch'
  BY <1>0, <1>1, <1>3, <1>4, <1>5 DEF UniqueMatch, Available, Matching, Active
<1>11. Cardinality(UsesOf(e)) <= row.total - row.remaining /\ Cardinality(UsesOf(e)) \in Nat
  BY <1>0, <1>3, FiniteRows DEF ExpectationAccounting, UsesOf
<1>12. PendingSound'
  BY <1>1, <1>3, <1>5, <1>6, <1>7, <1>11 DEF PendingSound
<1>13. OneActivation' /\ TermsFrozen'
  BY <1>0, <1>1, <1>7 DEF OneActivation, TermsFrozen
<1>14. ExpectationAccounting'
  <2> SUFFICES ASSUME NEW f \in Expectations, expectations'[f].status = "stored"
               PROVE  /\ Cardinality(UsesOf(f)) <= expectations'[f].total - expectations'[f].remaining
                      /\ expectations'[f].remaining >= 0
                      /\ \A n \in UsesOf(f) : activations[n].scenario = expectations'[f].scenario
    BY <1>1, <1>7 DEF ExpectationAccounting
  <2>1. CASE f = e
    BY <1>0, <1>3, <1>5, <1>11, <2>1 DEF ExpectationAccounting
  <2>2. CASE f # e
    BY <1>0, <1>4, <2>2 DEF ExpectationAccounting
  <2> QED
    BY <2>1, <2>2
<1> QED
  BY <1>8, <1>9, <1>10, <1>12, <1>13, <1>14 DEF Inv

(* A card, or the control plane: nothing is consumed.                          *)
LEMMA SelectWithoutExpectationPreserves ==
  ASSUME Inv, NEW i \in Intentions, NEW scenario \in ScenarioIds,
         NEW source \in {"card", "control_plane_complete"}, NEW key \in Keys \cup {NoKey},
         Answer(i, key) = "proceeds", Selected(i, scenario, source, key),
         UNCHANGED <<intentions, expectations, activations, mode, now>>
  PROVE  Inv'
<1>0. /\ TypeOK /\ RowsSane /\ UniqueMatch /\ OneActivation /\ TermsFrozen
      /\ ExpectationAccounting
  BY DEF Inv
<1>1. /\ \A j \in Intentions : ActivationsOf(j)' = ActivationsOf(j)
      /\ \A f \in Expectations : UsesOf(f)' = UsesOf(f)
  BY SameUses
<1>2. /\ submission' = [intention |-> i, scenario |-> scenario, source |-> source, key |-> key]
      /\ submission'.intention = i /\ submission'.source = source
      /\ source \notin Expectations
  BY SentinelAssumption DEF Selected
<1>3. TypeOK'
  BY <1>0, <1>2 DEF TypeOK, Sources
<1>4. PendingSound'
  BY <1>0, <1>2, Proceeds DEF PendingSound
<1>5. RowsSane' /\ UniqueMatch'
  BY <1>0, <1>1 DEF RowsSane, UniqueMatch, Available, Matching, Active
<1>6. OneActivation' /\ TermsFrozen' /\ ExpectationAccounting'
  BY <1>0, <1>1 DEF OneActivation, TermsFrozen, ExpectationAccounting
<1> QED
  BY <1>3, <1>4, <1>5, <1>6 DEF Inv

-----------------------------------------------------------------------------
(* The second commit: the intention is charged with what its row says.         *)
LEMMA ActivatePreserves ==
  ASSUME Inv, Activate
  PROVE  Inv'
<1> PICK i \in Intentions : i = submission.intention
  BY DEF Inv, TypeOK, Activate
<1> PICK e \in Sources : e = submission.source
  BY DEF Inv, TypeOK, Activate
<1> PICK top \in Nat : top = Len(activations) + 1
  BY DEF Inv, TypeOK
<1>0. /\ TypeOK /\ RowsSane /\ UniqueMatch /\ PendingSound /\ OneActivation
      /\ TermsFrozen /\ ExpectationAccounting
  BY DEF Inv
<1>1. /\ ~Idle /\ submission.scenario \in KnownScenarios
      /\ intentions[i].status = "intended"
      /\ activations' = Append(activations, ActivationOf(submission))
      /\ submission' = NoSubmission /\ UNCHANGED <<expectations, mode, now>>
      /\ intentions' = [intentions EXCEPT ![i].status = "processing",
                                          ![i].key = submission.key]
  BY DEF Activate
<1>2. /\ i \in Intentions /\ e \in Sources /\ submission.key \in Keys \cup {NoKey}
      /\ intentions[i] \in IntentionRows /\ intentions \in [Intentions -> IntentionRows]
      /\ intentions[i].terms \in Terms /\ now < intentions[i].expiresAt
      /\ now \in Nat
  BY <1>0, <1>1 DEF TypeOK, RowsSane, PendingSound
<1>3. /\ ActivationOf(submission) \in ActivationRows
      /\ ActivationOf(submission).intention = i
      /\ ActivationOf(submission).terms = intentions[i].terms
      /\ ActivationOf(submission).scenario = submission.scenario
      /\ ActivationOf(submission).source = e
      /\ ActivationOf(submission).at = now
  BY <1>1, <1>2 DEF ActivationOf, ActivationRows
<1>4. /\ activations' \in Seq(ActivationRows)
      /\ top \notin DOMAIN activations
      /\ DOMAIN activations' = DOMAIN activations \cup {top}
      /\ activations'[top] = ActivationOf(submission)
      /\ \A n \in DOMAIN activations : activations'[n] = activations[n]
      /\ \A j \in Intentions : ActivationsOf(j)' =
           IF j = i THEN ActivationsOf(j) \cup {top} ELSE ActivationsOf(j)
      /\ \A f \in Expectations : UsesOf(f)' =
           IF f = e THEN UsesOf(f) \cup {top} ELSE UsesOf(f)
  BY <1>0, <1>1, <1>3, Appended
<1>5. /\ intentions' \in [Intentions -> IntentionRows]
      /\ \A j \in Intentions \ {i} : intentions'[j] = intentions[j]
      /\ intentions'[i].status = "processing" /\ intentions'[i].terms = intentions[i].terms
      /\ intentions'[i].expiresAt = intentions[i].expiresAt
  <2> DEFINE row == [intentions[i] EXCEPT !.status = "processing", !.key = submission.key]
  <2>1. /\ row \in IntentionRows /\ row.status = "processing"
        /\ row.terms = intentions[i].terms /\ row.expiresAt = intentions[i].expiresAt
    BY <1>2 DEF IntentionRows
  <2>2. intentions' = [intentions EXCEPT ![i] = row]
    BY <1>1, <1>2
  <2> QED
    BY <1>2, <2>1, <2>2
<1>6. TypeOK'
  BY <1>0, <1>1, <1>4, <1>5 DEF TypeOK, ActivationRows, Idle
<1>7. RowsSane'
  <2>1. e \in Expectations => expectations[e].status = "stored"
    BY <1>0, <1>1 DEF PendingSound
  <2> QED
    BY <1>0, <1>1, <1>2, <1>4, <1>5, <2>1 DEF RowsSane
<1>8. UniqueMatch'
  BY <1>0, <1>1 DEF UniqueMatch, Available, Matching, Active
<1>9. PendingSound'
  BY <1>1 DEF PendingSound, Idle
<1>10. OneActivation'
  <2>1. ActivationsOf(i) = {}
    <3>1. Cardinality(ActivationsOf(i)) = 0
      BY <1>0, <1>1, <1>2 DEF OneActivation
    <3> QED
      BY <1>0, <3>1, FiniteRows, FS_EmptySet DEF ActivationsOf
  <2>2. Cardinality(ActivationsOf(i)') = 1
    <3>1. ActivationsOf(i)' = {top}
      BY <1>4, <2>1
    <3> QED
      BY <3>1, FS_Singleton
  <2> SUFFICES ASSUME NEW j \in Intentions
               PROVE  Cardinality(ActivationsOf(j)') =
                        IF intentions'[j].status = "processing" THEN 1 ELSE 0
    BY DEF OneActivation
  <2>3. CASE j = i
    BY <1>5, <2>2, <2>3
  <2>4. CASE j # i
    BY <1>0, <1>4, <1>5, <2>4 DEF OneActivation
  <2> QED
    BY <2>3, <2>4
<1>11. TermsFrozen'
  <2> SUFFICES ASSUME NEW n \in DOMAIN activations'
               PROVE  LET row == intentions'[activations'[n].intention] IN
                      activations'[n].terms = row.terms /\ activations'[n].at < row.expiresAt
    BY DEF TermsFrozen
  <2>1. CASE n = top
    BY <1>2, <1>3, <1>4, <1>5, <2>1
  <2>2. CASE n \in DOMAIN activations
    <3>1. /\ activations[n].intention \in Intentions
          /\ activations[n].terms = intentions[activations[n].intention].terms
          /\ activations[n].at < intentions[activations[n].intention].expiresAt
      BY <1>0, <2>2, RowOfActivation DEF TermsFrozen
    <3> QED
      BY <1>4, <1>5, <2>2, <3>1
  <2> QED
    BY <1>4, <2>1, <2>2
<1>12. ExpectationAccounting'
  <2> SUFFICES ASSUME NEW f \in Expectations, expectations[f].status = "stored"
               PROVE  /\ Cardinality(UsesOf(f)') <= expectations[f].total - expectations[f].remaining
                      /\ expectations[f].remaining >= 0
                      /\ \A n \in UsesOf(f)' : activations'[n].scenario = expectations[f].scenario
    BY <1>1 DEF ExpectationAccounting
  <2>1. /\ Cardinality(UsesOf(f)) <= expectations[f].total - expectations[f].remaining
        /\ expectations[f].remaining >= 0
        /\ \A n \in UsesOf(f) : activations[n].scenario = expectations[f].scenario
    BY <1>0 DEF ExpectationAccounting
  <2>2. UsesOf(f) \subseteq DOMAIN activations
    BY DEF UsesOf
  <2>3. CASE f # e
    BY <1>4, <2>1, <2>2, <2>3
  <2>4. CASE f = e
    <3>1. /\ Cardinality(UsesOf(f)) < expectations[f].total - expectations[f].remaining
          /\ submission.scenario = expectations[f].scenario
      BY <1>0, <1>1, <2>4 DEF PendingSound
    <3>2. Cardinality(UsesOf(f)') = Cardinality(UsesOf(f)) + 1
      BY <1>0, <1>4, <2>2, <2>4, FiniteRows, FS_AddElement
    <3>3. Cardinality(UsesOf(f)) \in Nat /\ expectations[f] \in ExpectationRows
      BY <1>0, <2>2, FiniteRows DEF TypeOK
    <3>4. Cardinality(UsesOf(f)') <= expectations[f].total - expectations[f].remaining
      BY <3>1, <3>2, <3>3 DEF ExpectationRows
    <3> QED
      BY <1>3, <1>4, <2>1, <2>2, <2>4, <3>1, <3>4
  <2> QED
    BY <2>3, <2>4
<1> QED
  BY <1>6, <1>7, <1>8, <1>9, <1>10, <1>11, <1>12 DEF Inv

-----------------------------------------------------------------------------
LEMMA InitInv == Init => Inv
<1> SUFFICES ASSUME Init PROVE Inv
  OBVIOUS
<1>1. /\ \A i \in Intentions : ActivationsOf(i) = {}
      /\ \A e \in Expectations : UsesOf(e) = {}
  BY DEF Init, ActivationsOf, UsesOf
<1>2. TypeOK
  BY DEF Init, TypeOK, IntentionRows, NoIntention, ExpectationRows, NoExpectation,
         ScenarioIds, Idle
<1>3. OneActivation
  BY <1>1, FS_EmptySet DEF Init, OneActivation, NoIntention
<1>4. /\ RowsSane /\ UniqueMatch /\ PendingSound /\ TermsFrozen /\ ExpectationAccounting
  BY <1>1 DEF Init, RowsSane, UniqueMatch, PendingSound, TermsFrozen, ExpectationAccounting,
              NoIntention, NoExpectation, Matching, Active, Available,
              Idle
<1> QED
  BY <1>2, <1>3, <1>4 DEF Inv

LEMMA NextInv == Inv /\ [Next]_vars => Inv'
<1> SUFFICES ASSUME Inv, [Next]_vars PROVE Inv'
  OBVIOUS
<1>1. ASSUME NEW i \in Intentions, NEW terms \in Terms, NEW ref \in Refs \cup {NoRef},
             \/ \E expiration \in Lifetimes : CreateIntention(i, terms, ref, expiration)
             \/ \E expiresAt \in 0 .. MaxTime + MaxTime :
                  UpdateIntention(i, terms, ref, expiresAt)
      PROVE  Inv'
  BY <1>1, CreateIntentionPreserves, UpdateIntentionPreserves
<1>2. ASSUME NEW e \in Expectations, NEW ref \in Refs, NEW scenario \in ScenarioIds,
             NEW times \in Times, NEW expiresIn \in ExpiresIn,
             CreateExpectation(e, ref, scenario, times, expiresIn)
      PROVE  Inv'
  BY <1>2, CreateExpectationPreserves
<1>3. ASSUME NEW e \in Expectations, CancelExpectation(e)
      PROVE  Inv'
  BY <1>3, CancelExpectationPreserves
<1>4. ASSUME NEW i \in Intentions, NEW card \in Cards, NEW key \in Keys \cup {NoKey},
             SubmitWithExpectation(i, card, key)
      PROVE  Inv'
  BY <1>4, SubmitWithExpectationPreserves
<1>5. ASSUME NEW i \in Intentions, NEW card \in Cards, NEW key \in Keys \cup {NoKey},
             SubmitWithCard(i, card, key)
      PROVE  Inv'
  <2>1. PICK scenario \in ScenariosOfCard(card) : Selected(i, scenario, "card", key)
    BY <1>5 DEF SubmitWithCard
  <2>2. scenario \in ScenarioIds
    BY DEF ScenariosOfCard, ScenarioIds, KnownScenarios
  <2> QED
    BY <1>5, <2>1, <2>2, SelectWithoutExpectationPreserves DEF SubmitWithCard
<1>6. ASSUME NEW i \in Intentions, NEW scenario \in ScenarioIds, NEW key \in Keys,
             CompleteHeadless(i, scenario, key)
      PROVE  Inv'
  BY <1>6, SelectWithoutExpectationPreserves DEF CompleteHeadless
<1>7. CASE Activate
  BY <1>7, ActivatePreserves
<1>8. ASSUME submission' = NoSubmission, now' = now \/ now' = TimeAtRestart,
             UNCHANGED <<intentions, expectations, activations, mode>>
      PROVE  Inv'
  <2>1. /\ \A j \in Intentions : ActivationsOf(j)' = ActivationsOf(j)
        /\ \A f \in Expectations : UsesOf(f)' = UsesOf(f)
    BY <1>8, SameUses
  <2>2. TypeOK' /\ PendingSound' /\ RowsSane'
    BY <1>8, <2>1 DEF Inv, TypeOK, Idle, PendingSound, RowsSane, TimeAtRestart
  <2>4. mode' = "real" => now' = now
    BY <1>8 DEF TimeAtRestart
  <2>5. UniqueMatch'
    BY <1>8, <2>4 DEF Inv, UniqueMatch, Available, Matching, Active
  <2>3. OneActivation' /\ TermsFrozen' /\ ExpectationAccounting'
    BY <1>8, <2>1 DEF Inv, OneActivation, TermsFrozen, ExpectationAccounting
  <2> QED
    BY <2>2, <2>3, <2>5 DEF Inv
<1>9. CASE Tick
  <2>1. /\ Idle /\ now' = now + 1
        /\ UNCHANGED <<intentions, expectations, activations, submission, mode>>
    BY <1>9 DEF Tick
  <2>2. /\ \A j \in Intentions : ActivationsOf(j)' = ActivationsOf(j)
        /\ \A f \in Expectations : UsesOf(f)' = UsesOf(f)
    BY <2>1, SameUses
  <2>3. TypeOK' /\ PendingSound' /\ RowsSane'
    BY <2>1, <2>2 DEF Inv, TypeOK, Idle, PendingSound, RowsSane
  <2>4. UniqueMatch'
    <3>1. ASSUME NEW f \in Expectations, Active(f)'
          PROVE  Active(f)
      BY <2>1, <3>1 DEF Inv, TypeOK, ExpectationRows, Active
    <3> QED
      BY <2>1, <3>1 DEF Inv, UniqueMatch, Available, Matching
  <2>5. OneActivation' /\ TermsFrozen' /\ ExpectationAccounting'
    BY <2>1, <2>2 DEF Inv, OneActivation, TermsFrozen, ExpectationAccounting
  <2> QED
    BY <2>3, <2>4, <2>5 DEF Inv
<1>10. CASE UNCHANGED vars
  <2>1. /\ \A j \in Intentions : ActivationsOf(j)' = ActivationsOf(j)
        /\ \A f \in Expectations : UsesOf(f)' = UsesOf(f)
    BY <1>10, SameUses DEF vars
  <2>2. TypeOK' /\ PendingSound' /\ RowsSane' /\ UniqueMatch'
    BY <1>10, <2>1 DEF vars, Inv, TypeOK, Idle, PendingSound, RowsSane, UniqueMatch,
                       Available, Matching, Active
  <2>3. OneActivation' /\ TermsFrozen' /\ ExpectationAccounting'
    BY <1>10, <2>1 DEF vars, Inv, OneActivation, TermsFrozen, ExpectationAccounting
  <2> QED
    BY <2>2, <2>3 DEF Inv
<1> QED
  BY <1>1, <1>2, <1>3, <1>4, <1>5, <1>6, <1>7, <1>8, <1>9, <1>10
     DEF Next, RejectUnknownScenario, Crash

(* Whatever was submitted, updated, expired or cut off by a crash, the         *)
(* inductive invariant holds.                                                  *)
THEOREM Invariance == Spec => []Inv
  BY InitInv, NextInv, PTL DEF Spec
-----------------------------------------------------------------------------
(* Every table holds well-formed rows, and no expectation is overdrawn.        *)
THEOREM TypeCorrect == Spec => []TypeOK
<1>1. Inv => TypeOK
  BY DEF Inv
<1> QED
  BY <1>1, Invariance, PTL

(* Two tabs, a retried submit, a headless completion and a crash between the   *)
(* commits never give an intention two transactions.                           *)
THEOREM ChargedOnce == Spec => []OneActivation
<1>1. Inv => OneActivation
  BY DEF Inv
<1> QED
  BY <1>1, Invariance, PTL

(* What was charged stays what the intention says, and was charged in time.    *)
THEOREM TermsKept == Spec => []TermsFrozen
<1>1. Inv => TermsFrozen
  BY DEF Inv
<1> QED
  BY <1>1, Invariance, PTL

(* Matching rows that are all the same are one row at most.                    *)
LEMMA MatchesCounted ==
  ASSUME UniqueMatch
  PROVE  SelectionDetermined
<1> SUFFICES ASSUME NEW ref \in Refs
             PROVE  /\ mode = "real" => Cardinality(Matching(ref)) <= 1
                    /\ \A e, f \in Matching(ref) :
                         expectations[e].createdAt = expectations[f].createdAt => e = f
  BY DEF SelectionDetermined
<1>1. \A e, f \in Matching(ref) :
        expectations[e].createdAt = expectations[f].createdAt => e = f
  BY DEF UniqueMatch, Matching, Active, Available
<1>2. CASE Matching(ref) = {}
  BY <1>1, <1>2, FS_EmptySet
<1>3. CASE Matching(ref) # {} /\ mode = "real"
  <2>1. PICK e : Matching(ref) = {e}
    BY <1>3 DEF UniqueMatch
  <2> QED
    BY <1>1, <2>1, FS_Singleton
<1> QED
  BY <1>1, <1>2, <1>3

(* Which expectation a submission uses is never decided by a tie, whatever a   *)
(* restart did to the clock, and under a real clock there is one at most; each *)
(* is used as often as it says.                                                *)
THEOREM ExpectationsHonoured == Spec => []ExpectationsSound
<1>1. Inv => ExpectationsSound
  BY MatchesCounted DEF Inv, ExpectationsSound
<1> QED
  BY <1>1, Invariance, PTL

-----------------------------------------------------------------------------
(* The refinement of OneShotCheckout.                                          *)

(* What the row of an intention alone says of its checkout; under Inv that is  *)
(* what the transactions say.                                                  *)
RowView(row) ==
  CASE row.status = "none"       -> OneShot!Absent
    [] row.status = "intended"   -> OneShot!Open(row.terms)
    [] row.status = "processing" -> OneShot!Charged(row.terms)

RowsTellCheckouts == \A i \in Intentions : CheckoutOf(i) = RowView(intentions[i])

LEMMA CheckoutView == Inv => RowsTellCheckouts
<1> SUFFICES ASSUME Inv, NEW i \in Intentions
             PROVE  CheckoutOf(i) = RowView(intentions[i])
  BY DEF RowsTellCheckouts
<1> USE DEF OneShot!Absent, OneShot!Open, OneShot!Charged
<1>0. TypeOK /\ OneActivation /\ TermsFrozen
  BY DEF Inv
<1>1. IsFiniteSet(ActivationsOf(i)) /\ intentions[i].status \in {"none", "intended", "processing"}
  BY <1>0, FiniteRows DEF ActivationsOf, TypeOK, IntentionRows
<1>2. CASE intentions[i].status # "processing"
  <2>1. Cardinality(ActivationsOf(i)) = 0
    BY <1>0, <1>2 DEF OneActivation
  <2>2. ActivationsOf(i) = {}
    BY <1>1, <2>1, FS_EmptySet
  <2> QED
    BY <1>1, <1>2, <2>2 DEF CheckoutOf, RowView
<1>3. CASE intentions[i].status = "processing"
  <2>1. Cardinality(ActivationsOf(i)) = 1
    BY <1>0, <1>3 DEF OneActivation
  <2>2. ActivationsOf(i) # {}
    BY <2>1, FS_EmptySet
  <2>3. PICK n : n = CHOOSE m \in ActivationsOf(i) : TRUE
    OBVIOUS
  <2>4. n \in ActivationsOf(i)
    BY <2>2, <2>3
  <2>5. activations[n].terms = intentions[i].terms
    BY <1>0, <2>4 DEF ActivationsOf, TermsFrozen
  <2> QED
    BY <1>3, <2>1, <2>2, <2>3, <2>5 DEF CheckoutOf, RowView
<1> QED
  BY <1>2, <1>3

(* A step that changes at most the row of one intention changes at most the    *)
(* checkout of that one.                                                       *)
LEMMA OneCheckoutMoves ==
  ASSUME RowsTellCheckouts, RowsTellCheckouts', NEW i \in Intentions,
         \A j \in Intentions \ {i} : intentions'[j] = intentions[j]
  PROVE  [j \in Intentions |-> CheckoutOf(j)]' =
           [[j \in Intentions |-> CheckoutOf(j)] EXCEPT ![i] = RowView(intentions'[i])]
  BY DEF RowsTellCheckouts

LEMMA StepSimulates ==
  ASSUME Inv, RowsTellCheckouts, RowsTellCheckouts', [Next]_vars
  PROVE  [OneShot!Next]_([i \in Intentions |-> CheckoutOf(i)])
<1> DEFINE shown == [i \in Intentions |-> CheckoutOf(i)]
<1>0. TypeOK /\ RowsSane /\ PendingSound
  BY DEF Inv
<1>1. \A i \in Intentions : shown[i] = RowView(intentions[i])
  BY DEF RowsTellCheckouts
<1>2. CASE UNCHANGED intentions
  <2>1. shown' = shown
    BY <1>2 DEF RowsTellCheckouts
  <2> QED
    BY <2>1
<1>3. ASSUME NEW i \in Intentions, NEW terms \in Terms, NEW ref \in Refs \cup {NoRef},
             NEW expiration \in Lifetimes, CreateIntention(i, terms, ref, expiration)
      PROVE  OneShot!Create(i, terms)
  <2>1. /\ intentions[i].status = "none"
        /\ intentions'[i].status = "intended" /\ intentions'[i].terms = terms
        /\ \A j \in Intentions \ {i} : intentions'[j] = intentions[j]
    BY <1>0, <1>3 DEF CreateIntention, TypeOK
  <2>2. shown' = [shown EXCEPT ![i] = RowView(intentions'[i])]
    BY <2>1, OneCheckoutMoves
  <2> QED
    BY <1>1, <2>1, <2>2 DEF OneShot!Create, RowView
<1>4. ASSUME NEW i \in Intentions, NEW terms \in Terms, NEW ref \in Refs \cup {NoRef},
             NEW expiresAt \in 0 .. MaxTime + MaxTime, UpdateIntention(i, terms, ref, expiresAt)
      PROVE  OneShot!Amend(i, terms)
  <2>1. /\ intentions[i].status = "intended"
        /\ intentions' = [intentions EXCEPT
             ![i].terms = terms, ![i].ref = ref, ![i].expiresAt = expiresAt]
        /\ intentions \in [Intentions -> IntentionRows]
    BY <1>0, <1>4 DEF UpdateIntention, Updatable, TypeOK
  <2>2. /\ intentions'[i].status = "intended" /\ intentions'[i].terms = terms
        /\ \A j \in Intentions \ {i} : intentions'[j] = intentions[j]
    BY <2>1 DEF IntentionRows
  <2>3. shown' = [shown EXCEPT ![i] = RowView(intentions'[i])]
    BY <2>2, OneCheckoutMoves
  <2>4. shown[i] = OneShot!Open(intentions[i].terms)
    BY <1>1, <2>1 DEF RowView
  <2>5. shown[i].phase = "open"
    BY <2>4 DEF OneShot!Open
  <2>6. RowView(intentions'[i]) = OneShot!Open(terms)
    BY <2>2 DEF RowView
  <2> QED
    BY <2>3, <2>5, <2>6 DEF OneShot!Amend
<1>5. ASSUME Activate
      PROVE  \E i \in Intentions : OneShot!Charge(i)
  <2>1. PICK i \in Intentions : i = submission.intention
    BY <1>0, <1>5 DEF TypeOK, Activate
  <2>2. /\ intentions[i].status = "intended"
        /\ intentions' = [intentions EXCEPT ![i].status = "processing",
                                            ![i].key = submission.key]
        /\ intentions \in [Intentions -> IntentionRows]
    BY <1>0, <1>5, <2>1 DEF Activate, TypeOK
  <2>3. /\ intentions'[i].status = "processing"
        /\ intentions'[i].terms = intentions[i].terms
        /\ \A j \in Intentions \ {i} : intentions'[j] = intentions[j]
    BY <2>2 DEF IntentionRows
  <2>4. shown' = [shown EXCEPT ![i] = RowView(intentions'[i])]
    BY <2>3, OneCheckoutMoves
  <2>5. shown[i] = OneShot!Open(intentions[i].terms)
    BY <1>1, <2>2 DEF RowView
  <2>6. shown[i].phase = "open" /\ shown[i].terms = intentions[i].terms
    BY <2>5 DEF OneShot!Open
  <2>7. RowView(intentions'[i]) = OneShot!Charged(shown[i].terms)
    BY <2>3, <2>6 DEF RowView
  <2> QED
    BY <2>4, <2>6, <2>7 DEF OneShot!Charge
<1>6. ASSUME Next, intentions' # intentions
      PROVE  \/ \E i \in Intentions, terms \in Terms, ref \in Refs \cup {NoRef} :
                  \/ \E expiration \in Lifetimes : CreateIntention(i, terms, ref, expiration)
                  \/ \E expiresAt \in 0 .. MaxTime + MaxTime :
                       UpdateIntention(i, terms, ref, expiresAt)
             \/ Activate
  BY <1>6 DEF Next, CreateExpectation, CancelExpectation, SubmitWithExpectation,
              SubmitWithCard, CompleteHeadless, RejectUnknownScenario, Crash, Tick
<1> QED
  BY <1>2, <1>3, <1>4, <1>5, <1>6 DEF OneShot!Next, vars

(* The checkouts, as their transactions show them, implement the one-shot      *)
(* checkout: amended while open, charged once, with the terms of that moment.  *)
THEOREM OneShotRefinement == Spec => ImplementsOneShot
<1>1. Init => OneShot!Init
  <2> SUFFICES ASSUME Init PROVE OneShot!Init
    OBVIOUS
  <2>1. \A i \in Intentions : ActivationsOf(i) = {}
    BY DEF Init, ActivationsOf
  <2>2. \A i \in Intentions : CheckoutOf(i) = OneShot!Absent
    BY <2>1 DEF Init, CheckoutOf, NoIntention, OneShot!Absent
  <2> QED
    BY <2>2 DEF OneShot!Init
<1>2. Inv /\ RowsTellCheckouts /\ RowsTellCheckouts' /\ [Next]_vars
        => [OneShot!Next]_([i \in Intentions |-> CheckoutOf(i)])
  BY StepSimulates
<1> QED
  BY <1>1, <1>2, CheckoutView, Invariance, PTL DEF Spec, ImplementsOneShot, OneShot!Spec
=============================================================================

-------------------------- MODULE RequestRules_proofs --------------------------
(* Proofs about the rules of IntentionValidation, for every body, integration, *)
(* allowlist and limit; and, first, induction over indexes, which the proofs   *)
(* about sums, here and in Catalogue_proofs, rest on.                          *)
(*                                                                             *)
(* The library states induction for a predicate, which the provers cannot      *)
(* instantiate.  Here it is stated for a set and derived from the well-founded *)
(* order of the naturals; StepsExist, that a function defined by its previous  *)
(* value exists, is what a recursive definition needs to mean what it says.    *)
EXTENDS RequestRules, FiniteSetTheorems, SequenceTheorems, WellFoundedInduction, TLAPS

-----------------------------------------------------------------------------
(* Induction. *)

(* A set of numbers that is not empty has a least one.                         *)
LEMMA LeastNat ==
  ASSUME NEW T, T \subseteq Nat, T # {}
  PROVE  \E x \in T : \A y \in T : x =< y
<1> DEFINE less == {ss \in Nat \X Nat : ss[1] < ss[2]}
<1>1. IsWellFoundedOn(less, Nat)
  BY NatLessThanWellFounded DEF OpToRel
<1>2. PICK x \in T : \A y \in T : <<y, x>> \notin less
  BY <1>1, WFMin
<1>3. ASSUME NEW y \in T, ~(x =< y)
      PROVE  FALSE
  <2>1. x \in Nat /\ y \in Nat /\ y < x
    BY <1>3
  <2>2. <<y, x>> \in less
    BY <2>1
  <2> QED
    BY <1>2, <2>2
<1> QED
  BY <1>3

LEMMA LeastExists ==
  ASSUME NEW T, T \subseteq Nat, T # {}
  PROVE  Min(T) \in T
<1>1. PICK x \in T : \A y \in T : x =< y
  BY LeastNat
<1> QED
  BY <1>1 DEF Min

(* Induction: a set that has 0 and is closed under successors below n has all  *)
(* numbers up to n.                                                            *)
LEMMA InductionTo ==
  ASSUME NEW n \in Nat, NEW S, 0 \in S,
         \A i \in 1 .. n : i - 1 \in S => i \in S
  PROVE  0 .. n \subseteq S
<1> DEFINE missing == (0 .. n) \ S
<1>1. SUFFICES ASSUME missing # {} PROVE FALSE
  OBVIOUS
<1>2. PICK x \in missing : \A y \in missing : x =< y
  <2>1. missing \subseteq Nat
    OBVIOUS
  <2> HIDE DEF missing
  <2> QED
    BY <1>1, <2>1, LeastNat
<1>3. x \in 1 .. n /\ x \notin S
  BY <1>2
<1>4. x - 1 \in S
  BY <1>2, <1>3
<1> QED
  BY <1>3, <1>4

(* A function that steps from each index to the next exists on any interval.   *)
StaysIn(V, step, n) == \A v \in V, i \in 1 .. n : step[<<v, i>>] \in V
Follows(g, n, c, step) ==
  \A i \in 0 .. n : g[i] = IF i = 0 THEN c ELSE step[<<g[i - 1], i>>]

LEMMA StepsExist ==
  ASSUME NEW n \in Nat, NEW V, NEW c \in V, NEW step, StaysIn(V, step, n)
  PROVE  \E g \in [0 .. n -> V] : Follows(g, n, c, step)
<1> USE DEF StaysIn, Follows
<1> DEFINE Good(g, k) ==
             /\ g \in [0 .. k -> V]
             /\ \A i \in 0 .. k : g[i] = IF i = 0 THEN c ELSE step[<<g[i - 1], i>>]
           S == {k \in 0 .. n : \E g : Good(g, k)}
<1>1. 0 \in S
  <2>1. Good([i \in 0 .. 0 |-> c], 0)
    OBVIOUS
  <2> HIDE DEF Good
  <2> QED
    BY <2>1
<1>2. ASSUME NEW k \in 1 .. n, k - 1 \in S
      PROVE  k \in S
  <2>1. PICK g : Good(g, k - 1)
    BY <1>2
  <2> DEFINE h == [i \in 0 .. k |-> IF i = k THEN step[<<g[k - 1], k>>] ELSE g[i]]
  <2>2. g \in [0 .. k - 1 -> V] /\ g[k - 1] \in V
    BY <2>1
  <2>3. step[<<g[k - 1], k>>] \in V
    BY <2>2
  <2>4. h \in [0 .. k -> V]
    <3>1. ASSUME NEW i \in 0 .. k PROVE h[i] \in V
      <4>1. CASE i = k
        BY <4>1, <2>3
      <4>2. CASE i # k
        <5>1. i \in 0 .. k - 1
          BY <4>2
        <5> QED BY <5>1, <2>2, <4>2
      <4> QED BY <4>1, <4>2
    <3> QED BY <3>1
  <2>5. ASSUME NEW i \in 0 .. k
        PROVE  h[i] = IF i = 0 THEN c ELSE step[<<h[i - 1], i>>]
    <3>1. CASE i = k
      <4>1. k - 1 \in 0 .. k /\ k - 1 # k
        OBVIOUS
      <4>2. h[k - 1] = g[k - 1]
        BY <4>1
      <4> QED BY <3>1, <4>2
    <3>2. CASE i # k
      <4>1. i \in 0 .. k - 1
        BY <3>2
      <4>2. h[i] = g[i]
        BY <3>2
      <4>3. g[i] = IF i = 0 THEN c ELSE step[<<g[i - 1], i>>]
        BY <4>1, <2>1
      <4>4. i # 0 => h[i - 1] = g[i - 1]
        BY <4>1
      <4> QED BY <4>2, <4>3, <4>4
    <3> QED BY <3>1, <3>2
  <2>6. Good(h, k)
    BY <2>4, <2>5
  <2> HIDE DEF Good, h
  <2> QED BY <2>6
<1>3. 0 .. n \subseteq S
  <2> HIDE DEF S
  <2> QED BY <1>1, <1>2, InductionTo
<1>4. PICK g : Good(g, n)
  <2> HIDE DEF Good
  <2>1. n \in 0 .. n
    OBVIOUS
  <2> QED BY <1>3, <2>1
<1> QED BY <1>4

-----------------------------------------------------------------------------
(* Item totals.                                                                *)

Lines == [amount : Nat, quantity : Nat \ {0}]

LEMMA LineTotalNat == \A item \in Lines : LineTotal(item) \in Nat
<1> TAKE item \in Lines
<1>1. item.amount \in Nat /\ item.quantity \in Nat
  BY DEF Lines
<1>2. \A m, n \in Nat : m * n \in Nat
  OBVIOUS
<1> QED
  BY <1>1, <1>2 DEF LineTotal

(* The running sum of an item list, without a limit.                           *)
TrueTotals(items) ==
  LET total[i \in 0 .. Len(items)] == IF i = 0 THEN 0 ELSE total[i - 1] + LineTotal(items[i])
  IN  total

LEMMA TrueTotalsStep ==
  ASSUME NEW items \in Seq(Lines)
  PROVE  /\ TrueTotals(items) \in [0 .. Len(items) -> Nat]
         /\ \A i \in 0 .. Len(items) :
              TrueTotals(items)[i] =
                IF i = 0 THEN 0 ELSE TrueTotals(items)[i - 1] + LineTotal(items[i])
<1> DEFINE n == Len(items)
           w(i) == LineTotal(items[i])
           Body(g) == [i \in 0 .. n |-> IF i = 0 THEN 0 ELSE g[i - 1] + w(i)]
           step == [p \in Nat \X (1 .. n) |-> p[1] + w(p[2])]
<1>1. n \in Nat
  OBVIOUS
<1>2. \A i \in 1 .. n : w(i) \in Nat
  BY ElementOfSeq, LineTotalNat
<1>3. TrueTotals(items) = CHOOSE f : f = Body(f)
  BY DEF TrueTotals
<1> DEFINE f == TrueTotals(items)
<1> HIDE DEF n, w, f
<1>4. \A v \in Nat, i \in 1 .. n : step[<<v, i>>] = v + w(i) /\ step[<<v, i>>] \in Nat
  BY <1>2
<1>5. PICK g \in [0 .. n -> Nat] : Follows(g, n, 0, step)
  <2>1. 0 \in Nat /\ StaysIn(Nat, step, n)
    BY <1>4 DEF StaysIn
  <2> HIDE DEF step
  <2> QED BY <1>1, <2>1, StepsExist
<1>6. g = Body(g)
  <2>1. \A i \in 0 .. n : i # 0 => i - 1 \in 0 .. n /\ i \in 1 .. n
    BY <1>1
  <2>2. \A i \in 0 .. n : g[i] = IF i = 0 THEN 0 ELSE g[i - 1] + w(i)
    BY <1>4, <1>5, <2>1 DEF Follows
  <2> QED BY <2>2
<1>7. f = Body(f)
  <2> HIDE DEF Body
  <2> QED BY <1>3, <1>6 DEF f
<1>8. \A i \in 0 .. n : f[i] = IF i = 0 THEN 0 ELSE f[i - 1] + w(i)
  BY <1>7
<1>9. f \in [0 .. n -> Nat]
  <2> DEFINE S == {i \in 0 .. n : f[i] \in Nat}
  <2>1. 0 \in S
    BY <1>8, <1>1
  <2>2. ASSUME NEW i \in 1 .. n, i - 1 \in S PROVE i \in S
    <3>1. f[i] = f[i - 1] + w(i)
      BY <1>8, <1>1
    <3> QED BY <2>2, <3>1, <1>2, <1>1
  <2>3. 0 .. n \subseteq S
    <3> HIDE DEF S
    <3> QED BY <2>1, <2>2, <1>1, InductionTo
  <2>4. f = [i \in 0 .. n |-> f[i]]
    BY <1>7
  <2> QED BY <2>3, <2>4
<1> QED
  BY <1>8, <1>9 DEF f, n, w

LEMMA ItemTotalsStep ==
  ASSUME NEW items \in Seq(Lines)
  PROVE  \A i \in 0 .. Len(items) :
           ItemTotals(items)[i] =
             IF i = 0 THEN 0
             ELSE IF \/ ItemTotals(items)[i - 1] = Overflow
                     \/ LineTotal(items[i]) > MaxSafeInteger
                     \/ ItemTotals(items)[i - 1] + LineTotal(items[i]) > MaxSafeInteger
             THEN Overflow ELSE ItemTotals(items)[i - 1] + LineTotal(items[i])
<1> DEFINE n == Len(items)
           w(i) == LineTotal(items[i])
           Past(t, i) == \/ t = Overflow \/ w(i) > MaxSafeInteger \/ t + w(i) > MaxSafeInteger
           Body(g) == [i \in 0 .. n |->
                         IF i = 0 THEN 0
                         ELSE IF Past(g[i - 1], i) THEN Overflow ELSE g[i - 1] + w(i)]
           V == Nat \cup {Overflow}
           step == [p \in V \X (1 .. n) |-> IF Past(p[1], p[2]) THEN Overflow ELSE p[1] + w(p[2])]
<1>1. n \in Nat
  OBVIOUS
<1>2. \A i \in 1 .. n : w(i) \in Nat
  BY ElementOfSeq, LineTotalNat
<1>3. ItemTotals(items) = CHOOSE f : f = Body(f)
  BY DEF ItemTotals
<1> DEFINE f == ItemTotals(items)
<1> HIDE DEF n, w, f
<1>4. \A v \in V, i \in 1 .. n :
        /\ step[<<v, i>>] = IF Past(v, i) THEN Overflow ELSE v + w(i)
        /\ step[<<v, i>>] \in V
  <2> TAKE v \in V, i \in 1 .. n
  <2>1. step[<<v, i>>] = IF Past(v, i) THEN Overflow ELSE v + w(i)
    OBVIOUS
  <2>2. v # Overflow => v + w(i) \in Nat
    BY <1>2
  <2> HIDE DEF step
  <2> QED BY <2>1, <2>2
<1>5. PICK g \in [0 .. n -> V] : Follows(g, n, 0, step)
  <2>1. 0 \in V /\ StaysIn(V, step, n)
    BY <1>4 DEF StaysIn
  <2> HIDE DEF step, V
  <2> QED BY <1>1, <2>1, StepsExist
<1>6. g = Body(g)
  <2>1. \A i \in 0 .. n : i # 0 => i - 1 \in 0 .. n /\ i \in 1 .. n
    BY <1>1
  <2> HIDE DEF V, Past, step
  <2>2. \A i \in 0 .. n :
          g[i] = IF i = 0 THEN 0 ELSE IF Past(g[i - 1], i) THEN Overflow ELSE g[i - 1] + w(i)
    BY <1>4, <1>5, <2>1 DEF Follows
  <2> QED BY <2>2
<1>7. f = Body(f)
  <2> HIDE DEF Body
  <2> QED BY <1>3, <1>6 DEF f
<1>8. \A i \in 0 .. n :
        f[i] = IF i = 0 THEN 0 ELSE IF Past(f[i - 1], i) THEN Overflow ELSE f[i - 1] + w(i)
  <2> HIDE DEF Past
  <2> QED BY <1>7
<1> QED
  BY <1>8 DEF f, n, w

(* intention-validation.ts, sumItemTotal: for item lists of every length, the  *)
(* sum is the true total when that is a safe integer, and an overflow when it  *)
(* is not, whichever line or partial sum reaches the limit first.              *)
THEOREM SumIsExact ==
  ASSUME NEW items \in Seq(Lines)
  PROVE  SumItemTotal(items) =
           IF TrueTotal(items) > MaxSafeInteger THEN Overflow ELSE TrueTotal(items)
<1> DEFINE n == Len(items)
           w(i) == LineTotal(items[i])
           s == ItemTotals(items)
           t == TrueTotals(items)
           S == {i \in 0 .. n : s[i] = IF t[i] > MaxSafeInteger THEN Overflow ELSE t[i]}
<1>1. n \in Nat /\ MaxSafeInteger \in Nat /\ Overflow = -1
  BY SafeIntegerAssumption DEF Overflow
<1>2. \A i \in 1 .. n : w(i) \in Nat
  BY ElementOfSeq, LineTotalNat
<1> HIDE DEF s, t
<1>3. /\ t \in [0 .. n -> Nat]
      /\ \A i \in 0 .. n : t[i] = IF i = 0 THEN 0 ELSE t[i - 1] + w(i)
  BY TrueTotalsStep DEF t
<1>4. \A i \in 0 .. n :
        s[i] = IF i = 0 THEN 0
               ELSE IF \/ s[i - 1] = Overflow \/ w(i) > MaxSafeInteger
                       \/ s[i - 1] + w(i) > MaxSafeInteger
               THEN Overflow ELSE s[i - 1] + w(i)
  BY ItemTotalsStep DEF s
<1> HIDE DEF n, w
<1>5. 0 \in S
  BY <1>1, <1>3, <1>4
<1>6. ASSUME NEW i \in 1 .. n, i - 1 \in S
      PROVE  i \in S
  <2>1. /\ t[i] = t[i - 1] + w(i) /\ t[i - 1] \in Nat /\ w(i) \in Nat
        /\ s[i] = IF \/ s[i - 1] = Overflow \/ w(i) > MaxSafeInteger
                     \/ s[i - 1] + w(i) > MaxSafeInteger
                  THEN Overflow ELSE s[i - 1] + w(i)
    BY <1>1, <1>2, <1>3, <1>4
  <2>2. s[i - 1] = IF t[i - 1] > MaxSafeInteger THEN Overflow ELSE t[i - 1]
    BY <1>6
  <2>3. i \in 0 .. n
    BY <1>1
  <2> QED
    BY <2>1, <2>2, <2>3, <1>1
<1>7. 0 .. n \subseteq S
  <2> HIDE DEF S
  <2> QED BY <1>1, <1>5, <1>6, InductionTo
<1>8. n \in S
  BY <1>1, <1>7
<1>9. TrueTotal(items) = t[n]
  BY DEF TrueTotal, TrueTotals, t, n
<1> QED
  BY <1>8, <1>9 DEF SumItemTotal, s, n

-----------------------------------------------------------------------------
(* Validation and normalization: an accepted request is accepted again in the  *)
(* form it is stored in.                                                       *)

(* `stored` is `raw` normalized, with URLs that are allowed if raw's are.      *)
Stores(raw, stored) ==
  /\ \A f \in Fields \ {"expiration", "notification_url", "redirection_url"} :
       stored[f] = Normalized(raw)[f]
  /\ stored["expiration"] \notin {Malformed, Null}
  /\ ~NotificationRefused(raw) => ~NotificationRefused(stored)
  /\ ~RedirectRefused(raw) => ~RedirectRefused(stored)

LEMMA EmptyHasNoDuplicates == ~HasDuplicates(<< >>)
<1>1. ToSet(<< >>) = {} /\ Len(<< >>) = 0
  BY DEF ToSet
<1> QED
  BY <1>1, FS_EmptySet DEF HasDuplicates

LEMMA StoredAcceptedAgain ==
  ASSUME NEW raw, NEW stored, NEW mode, Accepts(raw, mode), Stores(raw, stored)
  PROVE  Accepts(stored, mode)
<1>1. /\ FieldIssues(raw, mode) = {} /\ ~UnknownIntegration(raw, mode)
      /\ ~TotalOverflows(raw) /\ ~TotalDiffers(raw)
      /\ ~NotificationRefused(raw) /\ ~RedirectRefused(raw)
  BY DEF Accepts, ValidationStatus
<1>2. ~NotificationRefused(stored) /\ ~RedirectRefused(stored)
  BY <1>1 DEF Stores
<1>3. /\ stored.payment_methods = Given(ValueOr(raw.payment_methods, << >>))
      /\ stored.items = Given(ValueOr(raw.items, << >>))
      /\ stored.expiration \notin {Malformed, Null}
      /\ \A f \in Fields \ {"expiration", "notification_url", "redirection_url",
                            "payment_methods", "items"} : stored[f] = Kept(raw[f])
  BY DEF Stores, Normalized, Fields
<1>4. \A f \in {"amount", "currency"} : IsGiven(raw[f])
  BY <1>1 DEF FieldIssues
<1>5. stored.amount = raw.amount /\ stored.currency = raw.currency
  BY <1>3, <1>4 DEF Kept, Fields
<1>6. /\ ValueOr(stored.payment_methods, << >>) = ValueOr(raw.payment_methods, << >>)
      /\ ValueOr(stored.items, << >>) = ValueOr(raw.items, << >>)
  BY <1>3 DEF ValueOr, IsGiven, Given
<1>7. ~UnknownIntegration(stored, mode)
  BY <1>1, <1>6 DEF UnknownIntegration
<1>8. Items(stored) = Items(raw)
  BY <1>6 DEF Items
<1>9. ~TotalOverflows(stored) /\ ~TotalDiffers(stored)
  BY <1>1, <1>5, <1>8 DEF TotalOverflows, TotalDiffers
<1>10. FieldIssues(stored, mode) = {}
  <2>1. \A f \in {"amount", "currency"} : IsGiven(stored[f])
    BY <1>4, <1>5
  <2>2. ASSUME NEW f \in Fields \ {"notification_url", "redirection_url"}
        PROVE  stored[f] \notin {Malformed, Null}
    <3>1. Given(ValueOr(raw[f], << >>)) \notin {Malformed, Null}
      BY DEF Given, Malformed, Null
    <3>2. Kept(raw[f]) \notin {Malformed, Null}
      BY DEF Kept, IsGiven, Absent, Malformed, Null
    <3> QED
      BY <1>3, <3>1, <3>2 DEF Fields
  <2>3. ~(IsGiven(stored["payment_methods"]) /\ HasDuplicates(stored["payment_methods"].value))
    <3>1. stored["payment_methods"].value = ValueOr(raw.payment_methods, << >>)
      BY <1>3 DEF Given
    <3>2. CASE IsGiven(raw.payment_methods)
      <4>1. ~HasDuplicates(raw["payment_methods"].value)
        BY <1>1, <3>2 DEF FieldIssues
      <4> QED
        BY <3>1, <3>2, <4>1 DEF ValueOr
    <3>3. CASE ~IsGiven(raw.payment_methods)
      BY <3>1, <3>3, EmptyHasNoDuplicates DEF ValueOr
    <3> QED
      BY <3>2, <3>3
  <2>4. ~(mode # "permissive" /\ ValueOr(stored["payment_methods"], << >>) = << >>)
    BY <1>1, <1>6 DEF FieldIssues
  <2>5. ~(mode = "strict_docs" /\ ValueOr(stored["items"], << >>) = << >>)
    BY <1>1, <1>6 DEF FieldIssues
  <2>6. ASSUME NEW f \in {"billing_data", "customer"}
        PROVE  ~(mode = "strict_docs" /\ ~AllFilled(stored[f]))
    <3>1. mode = "strict_docs" => AllFilled(raw[f])
      BY <1>1 DEF FieldIssues
    <3>2. AllFilled(raw[f]) => stored[f] = raw[f]
      BY <1>3 DEF AllFilled, Kept, Fields
    <3> QED
      BY <3>1, <3>2
  <2> QED
    BY <2>1, <2>2, <2>3, <2>4, <2>5, <2>6 DEF FieldIssues
<1> QED
  BY <1>2, <1>7, <1>9, <1>10 DEF Accepts, ValidationStatus

(* intention-validation.ts: the modes are ordered.  Tightening                 *)
(* defaults.validationMode never lets a request through that was refused       *)
(* before, whatever its items, methods and URLs.                               *)
THEOREM StricterModesAcceptLess ==
  ASSUME NEW raw
  PROVE  /\ Accepts(raw, "strict_docs") => Accepts(raw, "realistic")
         /\ Accepts(raw, "realistic") => Accepts(raw, "permissive")
<1>1. \A mode : Accepts(raw, mode) <=>
        /\ FieldIssues(raw, mode) = {} /\ ~UnknownIntegration(raw, mode)
        /\ ~TotalOverflows(raw) /\ ~TotalDiffers(raw)
        /\ ~NotificationRefused(raw) /\ ~RedirectRefused(raw)
  BY DEF Accepts, ValidationStatus
<1>2. /\ FieldIssues(raw, "realistic") \subseteq FieldIssues(raw, "strict_docs")
      /\ FieldIssues(raw, "permissive") \subseteq FieldIssues(raw, "realistic")
  BY DEF FieldIssues
<1>3. /\ UnknownIntegration(raw, "realistic") <=> UnknownIntegration(raw, "strict_docs")
      /\ ~UnknownIntegration(raw, "permissive")
  BY DEF UnknownIntegration
<1> QED
  BY <1>1, <1>2, <1>3

(* intention-validation.ts: an accepted body stays accepted once its defaults  *)
(* are filled in, in every mode, so what is stored can be validated again      *)
(* with the next partial update.                                               *)
THEOREM NormalizedAcceptedAgain ==
  ASSUME NEW raw, NEW mode, Accepts(raw, mode)
  PROVE  Accepts(Normalized(raw), mode)
<1>1. /\ Normalized(raw).notification_url = Kept(raw.notification_url)
      /\ Normalized(raw).redirection_url = Kept(raw.redirection_url)
      /\ Normalized(raw).expiration = Given(ValueOr(raw.expiration, DefaultExpiration))
  BY DEF Normalized, Fields
<1>2. Normalized(raw)["expiration"] \notin {Malformed, Null}
  BY <1>1 DEF Given, Malformed, Null
<1>3. ~NotificationRefused(raw) => ~NotificationRefused(Normalized(raw))
  BY <1>1 DEF NotificationRefused, UrlRefused, Kept, IsGiven, Absent, Malformed
<1>4. ~RedirectRefused(raw) => ~RedirectRefused(Normalized(raw))
  BY <1>1 DEF RedirectRefused, UrlRefused, Kept, IsGiven, Absent, Malformed
<1>5. Stores(raw, Normalized(raw))
  BY <1>2, <1>3, <1>4 DEF Stores
<1> QED
  BY <1>5, StoredAcceptedAgain

-----------------------------------------------------------------------------
(* All of the rules, on one body.                                              *)

RulesInv ==
  /\ body \in Submitted
  /\ \A mode \in Modes : verdicts[mode] = 200 => Accepts(body, mode)
  /\ \/ \A mode \in Modes : verdicts[mode] = 0
     \/ \A mode \in Modes : verdicts[mode] = ValidationStatus(body, mode)

LEMMA RulesInvariance == RulesSpec => []RulesInv
<1>1. RulesInit => RulesInv
  BY DEF RulesInit, RulesInv
<1>2. ASSUME RulesInv, [Validate]_ruleVars PROVE RulesInv'
  <2>1. CASE Validate
    BY <1>2, <2>1 DEF RulesInv, Validate, Accepts
  <2>2. CASE UNCHANGED ruleVars
    BY <1>2, <2>2 DEF RulesInv, ruleVars
  <2> QED BY <1>2, <2>1, <2>2
<1> QED
  BY <1>1, <1>2, PTL DEF RulesSpec

LEMMA TotalsAlwaysExact ==
  ASSUME RulesInv
  PROVE  TotalsExact
<1>1. SUFFICES ASSUME IsGiven(body.items)
               PROVE  LET items == body.items.value IN
                      /\ (SumItemTotal(items) = Overflow) <=> TrueTotal(items) > MaxSafeInteger
                      /\ \A mode \in Modes :
                           verdicts[mode] = 200 /\ items # << >> =>
                             TrueTotal(items) = body.amount.value
  BY DEF TotalsExact
<1> DEFINE items == body.items.value
<1>2. items \in Seq(Lines)
  BY <1>1, SubmittedAssumption DEF RulesInv, Lines
<1>3. SumItemTotal(items) = IF TrueTotal(items) > MaxSafeInteger THEN Overflow ELSE TrueTotal(items)
  BY <1>2, SumIsExact
<1>4. TrueTotal(items) \in Nat
  <2>1. TrueTotals(items)[Len(items)] \in Nat
    BY <1>2, TrueTotalsStep
  <2> QED BY <2>1 DEF TrueTotal, TrueTotals
<1>5. ASSUME NEW mode \in Modes, verdicts[mode] = 200, items # << >>
      PROVE  TrueTotal(items) = body.amount.value
  <2>1. ~TotalOverflows(body) /\ ~TotalDiffers(body)
    BY <1>5 DEF RulesInv, Accepts, ValidationStatus
  <2>2. Items(body) = items
    BY <1>1 DEF Items, ValueOr
  <2> QED BY <2>1, <2>2, <1>3, <1>5 DEF TotalOverflows, TotalDiffers
<1> QED
  BY <1>3, <1>4, <1>5 DEF Overflow

(* ValidatorCoherent, for every body: the modes are ordered, the sum is exact  *)
(* and the defaults are acceptable.                                            *)
THEOREM ValidatorAlwaysCoherent == RulesSpec => []ValidatorCoherent
<1>1. ASSUME RulesInv PROVE ValidatorCoherent
  <2>1. StricterAcceptsLess
    <3>1. {"permissive", "realistic", "strict_docs"} \subseteq Modes
      BY DEF Modes
    <3>2. CASE \A mode \in Modes : verdicts[mode] = 0
      BY <3>1, <3>2 DEF StricterAcceptsLess
    <3>3. CASE \A mode \in Modes : verdicts[mode] = ValidationStatus(body, mode)
      BY <3>1, <3>3, StricterModesAcceptLess DEF StricterAcceptsLess, Accepts
    <3> QED BY <1>1, <3>2, <3>3 DEF RulesInv
  <2>2. TotalsExact
    BY <1>1, TotalsAlwaysExact
  <2>3. DefaultsAcceptable
    BY <1>1, NormalizedAcceptedAgain DEF DefaultsAcceptable, RulesInv
  <2> QED BY <2>1, <2>2, <2>3 DEF ValidatorCoherent
<1> QED
  BY <1>1, RulesInvariance, PTL
=============================================================================

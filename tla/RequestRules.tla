---------------------------- MODULE RequestRules ----------------------------
(* One intention request put before the validator in every mode: what holds of *)
(* the rules of IntentionValidation over all the bodies of a set.              *)
EXTENDS IntentionValidation

CONSTANT Submitted  \* the bodies

ASSUME SubmittedAssumption ==
  \A raw \in Submitted :
    IsGiven(raw.items) => raw.items.value \in Seq([amount : Nat, quantity : Nat \ {0}])

VARIABLES body, verdicts
ruleVars == <<body, verdicts>>

RulesInit == body \in Submitted /\ verdicts = [mode \in Modes |-> 0]

Validate ==
  /\ verdicts = [mode \in Modes |-> 0]
  /\ verdicts' = [mode \in Modes |-> ValidationStatus(body, mode)]
  /\ UNCHANGED body

RulesSpec == RulesInit /\ [][Validate]_ruleVars

-----------------------------------------------------------------------------
(* Properties. *)

(* The modes are ordered: a body that a stricter one accepts, the more         *)
(* tolerant ones accept, so tightening defaults.validationMode never lets a    *)
(* request through that was refused before.                                    *)
StricterAcceptsLess ==
  /\ verdicts["strict_docs"] = 200 => verdicts["realistic"] = 200
  /\ verdicts["realistic"] = 200 => verdicts["permissive"] = 200

(* sumItemTotal: the running sum overflows exactly when the true total is past *)
(* the largest safe integer, whichever line or partial sum would reach it; an  *)
(* accepted body's items add up to its amount.                                 *)
TrueTotal(items) ==
  LET total[i \in 0 .. Len(items)] == IF i = 0 THEN 0 ELSE total[i - 1] + LineTotal(items[i])
  IN  total[Len(items)]
TotalsExact ==
  IsGiven(body.items) =>
    LET items == body.items.value IN
    /\ (SumItemTotal(items) = Overflow) <=> TrueTotal(items) > MaxSafeInteger
    /\ \A mode \in Modes :
         verdicts[mode] = 200 /\ items # << >> => TrueTotal(items) = body.amount.value

(* An accepted body stays accepted once its defaults are filled in: what is    *)
(* stored can be re-validated with the next partial update.                    *)
DefaultsAcceptable ==
  \A mode \in Modes : verdicts[mode] = 200 => Accepts(Normalized(body), mode)

(* intention-validation.ts: the modes, the sum and the defaults of the         *)
(* validator agree with one another on every body.                             *)
ValidatorCoherent == StricterAcceptsLess /\ TotalsExact /\ DefaultsAcceptable
=============================================================================

------------------------------ MODULE TestCards ------------------------------
(* The built-in test cards, the cardholder-name commands of the generic card,  *)
(* and what a card and a name select: packages/contracts/src/cards.ts,         *)
(* core/card-aliases.ts and the last three steps of core/scenario-selection.ts *)
(* (its first, the expectation, is in CheckoutActivation).                     *)
EXTENDS Integers, Sequences, FiniteSets, SequencesExt

CONSTANTS
  Loaded,        \* ids of the loaded scenarios, in lower case
  TypedCards,    \* digit sequences a customer may type
  TypedNames     \* cardholder names a customer may type

ASSUME TypedAssumption ==
  /\ \A pan \in TypedCards : pan \in Seq(0 .. 9)
  /\ \A name \in TypedNames : name.command \in {"SIM:", "SIM", "other"}

-----------------------------------------------------------------------------
(* Card numbers. *)

(* A digit counts twice, its digits added, when an odd number of digits is     *)
(* after it.                                                                   *)
Weighed(digit, doubled) ==
  IF ~doubled THEN digit ELSE IF digit > 4 THEN 2 * digit - 9 ELSE 2 * digit

(* Mutant of LuhnSums: the doubling starts at the last digit. *)
LuhnSumsFromTheLast(pan) ==
  LET sums[i \in 0 .. Len(pan)] ==
        IF i = 0 THEN 0 ELSE sums[i - 1] + Weighed(pan[i], (Len(pan) - i) % 2 = 0)
  IN  sums

(* The running sum after each digit.                                           *)
LuhnSums(pan) ==
  LET sums[i \in 0 .. Len(pan)] ==
        IF i = 0 THEN 0 ELSE sums[i - 1] + Weighed(pan[i], (Len(pan) - i) % 2 = 1)
  IN  sums

LuhnValid(pan) == LuhnSums(pan)[Len(pan)] % 10 = 0

(* "99", eleven zeros and three digits of its own.                             *)
Pan(x, y, z) == <<9, 9, 0, 0, 0, 0, 0, 0, 0, 0, 0, 0, 0, x, y, z>>

GenericSelectorCard == Pan(0, 0, 2)

BuiltInCards ==
  {<<GenericSelectorCard, "generic-selector">>,
   <<Pan(0, 1, 0), "success-immediate">>,      <<Pan(0, 2, 8), "decline-immediate">>,
   <<Pan(0, 3, 6), "success-delayed-2m">>,     <<Pan(0, 4, 4), "decline-delayed-2m">>,
   <<Pan(0, 5, 1), "pending-forever">>,        <<Pan(0, 6, 9), "success-no-webhook">>,
   <<Pan(0, 7, 7), "success-duplicate-3">>,    <<Pan(0, 8, 5), "success-invalid-hmac">>,
   <<Pan(0, 9, 3), "redirect-before-webhook">>, <<Pan(1, 0, 1), "webhook-before-redirect">>,
   <<Pan(1, 1, 9), "three-ds-success">>,       <<Pan(1, 2, 7), "three-ds-failure">>,
   <<Pan(1, 3, 5), "success-partial-refund">>, <<Pan(1, 4, 3), "success-then-void">>,
   <<Pan(1, 5, 0), "out-of-order-regression">>, <<Pan(1, 6, 8), "random-delay-success">>}

FindBuiltInCardByNumber(pan) == {card \in BuiltInCards : card[1] = pan}

-----------------------------------------------------------------------------
(* Names.  A typed name is `prefix` ("SIM:" or the words of an alias, in any   *)
(* letter case and spacing), the rest after it, and how it was spelled.        *)

NamedAliases ==
  [success |-> "success-immediate",       fail |-> "decline-immediate",
   delay_120 |-> "success-delayed-2m",    dup_3 |-> "success-duplicate-3",
   nohook |-> "success-no-webhook",       badhmac |-> "success-invalid-hmac",
   redirect_first |-> "redirect-before-webhook",
   webhook_first |-> "webhook-before-redirect"]

(* "SIM:" is compared and cut off after trimming, the id put in lower case; an *)
(* alias is compared in upper case with single spaces.                         *)
ResolveCardholderCommand(name) ==
  CASE name.command = "SIM:" -> name.rest
    [] name.command = "SIM"  -> IF name.rest \in DOMAIN NamedAliases
                                THEN NamedAliases[name.rest] ELSE "none"
    [] name.command = "other" -> "none"

Selected(id, source) == [selected |-> id, source |-> source]

SelectByCard(pan, name) ==
  IF pan = GenericSelectorCard
  THEN LET id == ResolveCardholderCommand(name) IN
       Selected(id, IF id = "none" THEN "unrecognized_alias" ELSE "generic_alias")
  ELSE IF FindBuiltInCardByNumber(pan) = {} THEN Selected("none", "unrecognized_card")
  ELSE LET card == CHOOSE c \in FindBuiltInCardByNumber(pan) : TRUE
       IN  Selected(card[2], "card_registry")

-----------------------------------------------------------------------------
(* A customer types a card and a name; the form is submitted.                  *)

VARIABLES typed, chosen
cardVars == <<typed, chosen>>

CardInit ==
  /\ typed \in [pan : TypedCards, name : TypedNames]
  /\ chosen = Selected("none", "none")

SubmitCard ==
  /\ chosen.source = "none"
  /\ chosen' = SelectByCard(typed.pan, typed.name)
  /\ UNCHANGED typed

CardSpec == CardInit /\ [][SubmitCard]_cardVars

-----------------------------------------------------------------------------
(* Properties. *)

(* cards.ts: every built-in number is a Luhn number, and no two are a digit    *)
(* apart, so one mistyped digit never selects another scenario: it fails the   *)
(* check and matches no card.                                                  *)
OneDigitApart(p, q) ==
  Len(p) = Len(q) /\ Cardinality({i \in DOMAIN p : p[i] # q[i]}) = 1
TypoSelectsNothing ==
  \A card \in BuiltInCards :
    OneDigitApart(card[1], typed.pan) =>
      LuhnValid(card[1]) /\ ~LuhnValid(typed.pan) /\ chosen.selected = "none"

(* What a card or an alias selects exists, unless the customer spelled the id. *)
SelectsLoaded ==
  chosen.selected # "none" /\ typed.name.command # "SIM:" => chosen.selected \in Loaded

(* card-aliases.ts: "on any other card these are ordinary display names": the  *)
(* name decides only with the generic card, and there nothing else does.       *)
NameOnlyOnGeneric ==
  chosen.source = "generic_alias" <=>
    /\ chosen.source # "none"
    /\ typed.pan = GenericSelectorCard
    /\ ResolveCardholderCommand(typed.name) # "none"

(* scenario-selection.ts: a card, a name or an alias selects what it was made  *)
(* for, and a slip of either selects nothing.                                  *)
SelectionExact == TypoSelectsNothing /\ SelectsLoaded /\ NameOnlyOnGeneric
=============================================================================

------------------------- MODULE IntentionValidation -------------------------
(* The rules an intention request has to meet: core/intention-validation.ts    *)
(* over the shapes of packages/contracts/src/intention.ts, in each validation  *)
(* mode.  A field holds what the rules tell apart; "absent" is a field that is *)
(* not in the body, "malformed" a value of the wrong shape.                    *)
EXTENDS OutboundPolicy

CONSTANTS
  MaxSafeInteger,    \* Number.MAX_SAFE_INTEGER
  Configured,        \* ids of the configured integrations
  WebhookAllowlist,  \* security.webhookAllowlist
  AllowedOrigins     \* browser.allowedRedirectOrigins

ASSUME SafeIntegerAssumption == MaxSafeInteger \in Nat

Modes == {"permissive", "realistic", "strict_docs"}

-----------------------------------------------------------------------------
(* Field values.  A field that parsed is a record with the value, so that      *)
(* every field of a body is of one type.                                       *)

Absent == [is |-> "absent"]
Null == [is |-> "null"]
Malformed == [is |-> "malformed"]
Given(v) == [is |-> "given", value |-> v]

IsGiven(f) == f.is = "given"
ValueOr(f, default) == IF IsGiven(f) THEN f.value ELSE default

Fields == {"amount", "currency", "payment_methods", "items", "billing_data", "customer",
           "special_reference", "notification_url", "redirection_url", "expiration", "extras"}

-----------------------------------------------------------------------------
(* Item totals. *)

Overflow == -1

LineTotal(item) == item.amount * item.quantity

(* Mutant of ItemTotals: each line is checked, their sum is not. *)
ItemTotalsUnchecked(items) ==
  LET total[i \in 0 .. Len(items)] ==
        IF i = 0 THEN 0
        ELSE IF total[i - 1] = Overflow \/ LineTotal(items[i]) > MaxSafeInteger THEN Overflow
        ELSE total[i - 1] + LineTotal(items[i])
  IN  total

(* The total of the first i items, for each i; an overflow stays one.          *)
ItemTotals(items) ==
  LET total[i \in 0 .. Len(items)] ==
        IF i = 0 THEN 0
        ELSE IF \/ total[i - 1] = Overflow
                \/ LineTotal(items[i]) > MaxSafeInteger
                \/ total[i - 1] + LineTotal(items[i]) > MaxSafeInteger
        THEN Overflow ELSE total[i - 1] + LineTotal(items[i])
  IN  total

SumItemTotal(items) == ItemTotals(items)[Len(items)]

-----------------------------------------------------------------------------
(* validateCreateIntentionInput.  All field issues are collected before the    *)
(* first answer; integrations, totals and URLs are then checked in this order. *)

HasDuplicates(methods) == Cardinality(ToSet(methods)) # Len(methods)

(* "complete" stands for all the fields strict_docs asks for being non-empty.  *)
AllFilled(f) == IsGiven(f) /\ f.value = "complete"

FieldIssues(raw, mode) ==
  {f \in {"amount", "currency"} : ~IsGiven(raw[f])}
  \cup {f \in Fields \ {"notification_url", "redirection_url"} : raw[f] \in {Malformed, Null}}
  \cup {f \in {"payment_methods"} :
          \/ IsGiven(raw[f]) /\ HasDuplicates(raw[f].value)
          \/ mode # "permissive" /\ ValueOr(raw[f], << >>) = << >>}
  \cup {f \in {"items"} : mode = "strict_docs" /\ ValueOr(raw[f], << >>) = << >>}
  \cup {f \in {"billing_data", "customer"} : mode = "strict_docs" /\ ~AllFilled(raw[f])}

UnknownIntegration(raw, mode) ==
  mode # "permissive" /\ ~(ToSet(ValueOr(raw.payment_methods, << >>)) \subseteq Configured)

Items(raw) == ValueOr(raw.items, << >>)
TotalOverflows(raw) == SumItemTotal(Items(raw)) = Overflow
TotalDiffers(raw) == Items(raw) # << >> /\ SumItemTotal(Items(raw)) # raw.amount.value

UrlRefused(f, Allowed(_)) == f = Malformed \/ (IsGiven(f) /\ ~Allowed(f.value))
NotificationRefused(raw) ==
  UrlRefused(raw.notification_url, LAMBDA url : CheckOutboundUrlPolicy(url, ParseAllowlist(WebhookAllowlist)))
RedirectRefused(raw) ==
  UrlRefused(raw.redirection_url, LAMBDA url : CheckRedirectOriginPolicy(url, AllowedOrigins))

(* 200 stands for an input that is accepted.                                   *)
ValidationStatus(raw, mode) ==
  CASE FieldIssues(raw, mode) # {}         -> 422
    [] FieldIssues(raw, mode) = {} /\ UnknownIntegration(raw, mode) -> 404
    [] OTHER ->
         IF TotalOverflows(raw) THEN 422
         ELSE IF TotalDiffers(raw) THEN 406
         ELSE IF NotificationRefused(raw) \/ RedirectRefused(raw) THEN 422
         ELSE 200

Accepts(raw, mode) == ValidationStatus(raw, mode) = 200

(* The normalized input: defaults filled in, a null URL forgotten.             *)
DefaultExpiration == 3600
Kept(f) == IF IsGiven(f) THEN f ELSE Absent

Normalized(raw) ==
  [f \in Fields |->
     CASE f = "payment_methods" -> Given(ValueOr(raw[f], << >>))
       [] f = "items"           -> Given(ValueOr(raw[f], << >>))
       [] f = "expiration"      -> Given(ValueOr(raw[f], DefaultExpiration))
       [] OTHER                 -> Kept(raw[f])]
=============================================================================

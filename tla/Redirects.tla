------------------------------ MODULE Redirects ------------------------------
(* The address a browser is sent back to, and the merchant's check of its      *)
(* signature.  core/redirect-builder.ts and the redirect half of               *)
(* demo-merchant/lib/hmac.mjs, which share no code.                            *)
(*                                                                             *)
(* A query is a function from its keys to their values.  Of a key that occurs  *)
(* twice a reader gets the first value, so what is added to a query never      *)
(* replaces what it has.  A signature is the sequence of values it was made of.*)
EXTENDS Sequences

With(query, more) ==
  [key \in DOMAIN query \cup DOMAIN more |-> IF key \in DOMAIN query THEN query[key] ELSE more[key]]

RedirectModes == {"no_parameters", "minimal_status", "paymob_query_order", "paymob_query_order_id"}

(* CANONICAL_QUERY_KEYS, less those that say the same of every state.          *)
CanonicalQueryKeys == <<"id", "order", "pending", "success">>
OwnedKeys ==
  {"id", "order", "pending", "success", "order_id", "hmac", "simulator_status", "transaction_id"}

NormalizeHmacValue(flag) == IF flag THEN "true" ELSE "false"

(* Mutant of StripOwnedParams: the keys that are signed, no other. *)
StripOwnedParamsSigned(query) ==
  [key \in DOMAIN query \ {"id", "order", "pending", "success"} |-> query[key]]

StripOwnedParams(query) == [key \in DOMAIN query \ OwnedKeys |-> query[key]]

(* fields: the values of the canonical keys, of the transaction's obj.         *)
BuildRedirectUrl(base, mode, fields, browserStatus) ==
  LET kept == StripOwnedParams(base)
      orderKey == IF mode = "paymob_query_order_id" THEN "order_id" ELSE "order"
      canonical == [key \in {"id", orderKey, "pending", "success"} |->
                      IF key = orderKey THEN fields.order ELSE fields[key]]
      signature == [n \in DOMAIN CanonicalQueryKeys |-> fields[CanonicalQueryKeys[n]]]
  IN  CASE mode = "no_parameters" -> kept
        [] mode = "minimal_status" ->
             With(kept, [simulator_status |-> browserStatus, transaction_id |-> fields.id])
        [] OTHER -> With(With(kept, canonical), [hmac |-> signature])

-----------------------------------------------------------------------------
(* The merchant. *)

RedirectFieldKeys(orderKey) == <<"id", orderKey, "pending", "success">>

ComputeRedirectHmac(query, orderKey) ==
  LET keys == RedirectFieldKeys(orderKey)
  IN  [n \in DOMAIN keys |-> IF keys[n] \in DOMAIN query THEN query[keys[n]] ELSE ""]

VerifyRedirectHmac(query) ==
  /\ "hmac" \in DOMAIN query
  /\ query["hmac"] =
       ComputeRedirectHmac(query, IF "order" \in DOMAIN query THEN "order" ELSE "order_id")
=============================================================================

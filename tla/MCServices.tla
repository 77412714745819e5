------------------------------ MODULE MCServices ------------------------------
(* The services around the payment core, each with its own state and its own   *)
(* environment: the intention API and its faults, the demo merchant, a         *)
(* checkout page, the control plane's sessions, the start of the process.      *)
(* `part` is the one a behaviour is about; the others stay as they begin.      *)
EXTENDS IntentionApi, DemoMerchant, CheckoutPage, AdminAccess, StartUp

VARIABLE part
servicesVars == <<part, apiVars, merchantVars, pageVars, adminVars, startVars>>

-----------------------------------------------------------------------------
(* The requests the API is given. *)

CanonicalName == [h \in {"shop", "other"} |-> h]
HookList == {RawEntry(Named("shop"), FALSE, None, None)}
HookUrl == Given(Url("http", Named("shop"), None))
ShopOrigins == {Url("https", Named("shop"), None)}
ShopUrl == Given(Url("https", Named("shop"), 443))
TwoOf(amount) == Given(<<[amount |-> amount, quantity |-> 2]>>)
FullBody ==
  [NoPatch EXCEPT !.amount = Given(2), !.currency = Given("EGP"),
                  !.payment_methods = Given(<<1>>), !.special_reference = Given("r1"),
                  !.items = TwoOf(1)]
Asks(kind, body, authorized) == [kind |-> kind, body |-> body, authorized |-> authorized]
ApiRequests ==
  {Asks("create", FullBody, TRUE), Asks("create", FullBody, FALSE),
   Asks("update", [NoPatch EXCEPT !.amount = Given(4)], TRUE),
   Asks("update", [NoPatch EXCEPT !.items = TwoOf(2), !.amount = Given(4),
                                  !.expiration = Given(60)], TRUE),
   Asks("update", [NoPatch EXCEPT !.notification_url = Null,
                                  !.special_reference = Given("r2")], TRUE)}
ApiTicks == (60 :> 1) @@ (3600 :> 2)
Faulty(delayed, ending) == [delayed |-> delayed, ending |-> ending]
ApiFaults ==
  {Faulty(TRUE, "none"), Faulty(FALSE, "timeout"), Faulty(TRUE, "close"), Faulty(TRUE, "status")}

-----------------------------------------------------------------------------
(* The parts side by side. *)

ServicesInit ==
  /\ part \in {"api", "merchant", "page", "admin", "start"}
  /\ ApiInit /\ MerchantInit /\ PageInit /\ AdminInit /\ StartInit
  /\ manual => part = "admin"

ServicesNext ==
  /\ UNCHANGED part
  /\ \/ part = "api" /\ ApiNext /\ UNCHANGED <<merchantVars, pageVars, adminVars, startVars>>
     \/ part = "merchant" /\ MerchantNext /\ UNCHANGED <<apiVars, pageVars, adminVars, startVars>>
     \/ part = "page" /\ PageNext /\ UNCHANGED <<apiVars, merchantVars, adminVars, startVars>>
     \/ part = "admin" /\ AdminNext /\ UNCHANGED <<apiVars, merchantVars, pageVars, startVars>>
     \/ part = "start" /\ StartNext /\ UNCHANGED <<apiVars, merchantVars, pageVars, adminVars>>

(* What a part's fairness is about cannot happen while the part is at rest.    *)
ServicesSpec ==
  ServicesInit /\ [][ServicesNext]_servicesVars /\ PageFairness
=============================================================================

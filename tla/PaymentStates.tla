---------------------------- MODULE PaymentStates ----------------------------
(* The lifecycle of a transaction row and the flags Paymob publishes for it.   *)
(* packages/contracts/src/states.ts and packages/contracts/src/projection.ts.  *)
EXTENDS Integers

InternalStates ==
  {"intended", "checkout_opened", "processing", "pending", "authorized",
   "succeeded", "failed", "cancelled", "expired", "captured",
   "partially_refunded", "refunded", "voided"}

NormalTransitions ==
  [s \in InternalStates |->
     CASE s = "intended"           -> {"checkout_opened"}
       [] s = "checkout_opened"    -> {"processing", "cancelled", "expired"}
       [] s = "processing"         -> {"pending", "authorized", "succeeded", "failed"}
       [] s = "pending"            -> {"authorized", "succeeded", "failed", "expired"}
       [] s = "authorized"         -> {"captured", "voided"}
       [] s = "succeeded"          -> {"partially_refunded", "refunded", "voided"}
       [] s = "partially_refunded" -> {"partially_refunded", "refunded"}
       [] OTHER                    -> {}]

(* Mutant of IsLegalTransition: the table is not consulted. *)
IsLegalTransitionAny(from, to) == from # to

IsLegalTransition(from, to) == to \in NormalTransitions[from]

(* States that project to no callback: buildTransactionObj throws on them.     *)
NoProjectionStates == {"intended", "checkout_opened", "cancelled", "expired"}
HasProjection(s) == s \notin NoProjectionStates

(* projectPaymobFlags, without the display message.  `amount` and `refunded`   *)
(* are the row's original and refunded amounts.                                *)
ProjectPaymobFlags(s, amount, refunded) ==
  [pending    |-> s \in {"processing", "pending"},
   success    |-> s \notin {"processing", "pending", "failed"},
   errorOccured |-> s = "failed",
   isAuth     |-> s = "authorized",
   isCaptured |-> s = "captured",
   isRefunded |-> s = "refunded",
   isVoided   |-> s = "voided",
   ofChild    |-> "none",
   refunded   |-> CASE s = "partially_refunded" -> refunded
                    [] s = "refunded"           -> amount
                    [] OTHER                    -> 0,
   captured   |-> IF s = "captured" THEN amount ELSE 0]
=============================================================================

--------------------------- MODULE StripeWebhook ---------------------------
(***************************************************************************)
(* verify_webhook_signature of stripe/client.py between Stripe, which      *)
(* delivers each event until it is acknowledged and signs every attempt    *)
(* anew, and a product that handles what verifies and acknowledges it.     *)
(* Attempts are delayed, damaged, lost and received more than once; the    *)
(* product is configured late, its secret is rolled while deliveries are   *)
(* under way, and its clock differs from Stripe's.                         *)
(*                                                                         *)
(* Events do not influence each other and the library keeps nothing of     *)
(* them, so time is kept as the age of what is on the network.             *)
(***************************************************************************)
EXTENDS Integers

CONSTANTS Events,     \* the events Stripe has to report
          Slots,      \* bound on the attempts of an event on the network
          Tolerance,  \* tolerance_seconds, in ticks
          Skew,       \* how far the product's clock may be from Stripe's
          None        \* a slot that holds no attempt

ASSUME SkewAssumption == Tolerance \in Nat /\ Skew \in 0 .. Tolerance

VARIABLES net,       \* per event and slot: an attempt on the network
          acked,     \* Stripe: the events whose acknowledgement arrived
          quiet,     \* per event: the time since then
          signing,   \* Stripe: the secrets it signs with
          secret,    \* the product's STRIPE_WEBHOOK_SECRET, "" when not set
          offset,    \* the product's clock minus Stripe's
          handled    \* the event and body of what the product has handled

vars == <<net, acked, quiet, signing, secret, offset, handled>>

OldAge == Tolerance + Skew + 1   \* what is older is not told apart

Attempt == [body : {"sent", "damaged"}, secrets : SUBSET {"old", "new"},
            age : 0 .. OldAge]
-----------------------------------------------------------------------------
(* stripe.Webhook.construct_event: some signature of the header is of this *)
(* body under this secret, and its time is not before the tolerance, which *)
(* is not looked at when it is 0.  A time to come is not refused.          *)
construct_event(a) ==
  /\ secret \in a.secrets /\ a.body = "sent"
  /\ Tolerance = 0 \/ a.age + offset <= Tolerance

(* Fault: without a secret there is nothing to verify.                     *)
verify_if_configured(a) == secret = "" \/ construct_event(a)

(* Fault: the tolerance is not passed on.                                  *)
verify_whatever_age(a) == secret \in a.secrets /\ a.body = "sent"

(* Fault: of the signatures of a header only the first is looked at.       *)
verify_first_signature(a) ==
  construct_event(a) /\ (secret = "new" => "old" \notin a.secrets)

(* Returns the event; otherwise it raises StripeOperationError.            *)
verify_webhook_signature(a) == secret # "" /\ construct_event(a)
-----------------------------------------------------------------------------
Init ==
  /\ net = [e \in Events |-> [s \in Slots |-> None]]
  /\ acked = {} /\ handled = {}
  /\ quiet = [e \in Events |-> 0]
  /\ signing = {"old"} /\ secret = ""
  /\ offset \in -Skew .. Skew

(* Stripe signs an attempt; what the slot held before is lost.             *)
Deliver(e, s) ==
  /\ e \notin acked
  /\ net' = [net EXCEPT ![e][s] = [body |-> "sent", secrets |-> signing, age |-> 0]]
  /\ UNCHANGED <<acked, quiet, signing, secret, offset, handled>>

(* A proxy that parses and prints the body again, or cuts it off.          *)
Damage(e, s) ==
  /\ net[e][s] # None
  /\ net' = [net EXCEPT ![e][s].body = "damaged"]
  /\ UNCHANGED <<acked, quiet, signing, secret, offset, handled>>

Verifies(e, s) == net[e][s] # None /\ verify_webhook_signature(net[e][s])

(* The product receives an attempt, perhaps not for the last time, handles *)
(* the event it returns, and acknowledges it, perhaps in vain.             *)
Handle(e, s) ==
  /\ Verifies(e, s)
  /\ handled' = handled \cup {<<e, net[e][s].body>>}
  /\ acked' \in {acked, acked \cup {e}}
  /\ UNCHANGED <<net, quiet, signing, secret, offset>>

Settle(e) == \E s \in Slots : Handle(e, s) /\ e \in acked'

Older(n) == IF n < OldAge THEN n + 1 ELSE n

Tick ==
  /\ net' = [e \in Events |-> [s \in Slots |->
               IF net[e][s] = None THEN None
               ELSE [net[e][s] EXCEPT !.age = Older(@)]]]
  /\ quiet' = [e \in Events |-> IF e \in acked THEN Older(quiet[e]) ELSE 0]
  /\ UNCHANGED <<acked, signing, secret, offset, handled>>

(* Rolling the secret: for a while Stripe signs with both.                 *)
RollSecret ==
  /\ \/ signing = {"old"} /\ signing' = {"old", "new"}
     \/ signing = {"old", "new"} /\ signing' = {"new"}
  /\ UNCHANGED <<net, acked, quiet, secret, offset, handled>>

(* The product restarts with a secret that Stripe signs with.              *)
Redeploy ==
  /\ secret # "new"
  /\ secret' \in signing \ {secret}
  /\ UNCHANGED <<net, acked, quiet, signing, offset, handled>>

Next == \/ \E e \in Events, s \in Slots : Deliver(e, s) \/ Damage(e, s) \/ Handle(e, s)
        \/ Tick \/ RollSecret \/ Redeploy

Spec == Init /\ [][Next]_vars

(* Stripe tries again until it is acknowledged, the product is redeployed  *)
(* when its secret is not Stripe's, and of infinitely many attempts that   *)
(* could be handled and acknowledged one is: not all are late or damaged.  *)
FairSpec == /\ Spec
            /\ WF_vars(Redeploy)
            /\ \A e \in Events : /\ WF_vars(\E s \in Slots : Deliver(e, s))
                                 /\ SF_vars(Settle(e))
-----------------------------------------------------------------------------
TypeOK ==
  /\ net \in [Events -> [Slots -> Attempt \cup {None}]]
  /\ acked \subseteq Events
  /\ quiet \in [Events -> 0 .. OldAge]
  /\ signing \in {{"old"}, {"old", "new"}, {"new"}}
  /\ secret \in {"", "old", "new"}
  /\ offset \in -Skew .. Skew
  /\ handled \subseteq Events \X {"sent", "damaged"}

(* What the product handles is what Stripe sent, also before it has been   *)
(* configured, and Stripe never takes for settled what was not handled.    *)
HandledIsWhatWasSent ==
  /\ \A h \in handled : h[2] = "sent"
  /\ \A e \in acked : <<e, "sent">> \in handled

(* "replay protection": attempts and copies of an event can be handled for *)
(* the tolerance after Stripe has stopped signing it, plus what the clocks *)
(* differ, and never again.                                                *)
DuplicatesDieOut ==
  \A e \in acked : \A s \in Slots :
    Tolerance > 0 /\ Verifies(e, s) => quiet[e] <= Tolerance + Skew

(* No event is lost for good: neither a product that starts without its    *)
(* secret, nor a rolled secret, nor clocks that differ, nor lost answers   *)
(* keep an event from being handled and acknowledged in the end.           *)
EveryEventSettles == \A e \in Events : <>(e \in acked)
-----------------------------------------------------------------------------
(* The inductive invariant behind the properties above.                    *)

(* What is on the network of a settled event was signed before it settled. *)
AttemptsPrecedeTheAck ==
  \A e \in Events : /\ e \notin acked => quiet[e] = 0
                    /\ \A s \in Slots : net[e][s] # None => net[e][s].age >= quiet[e]

IInv == TypeOK /\ HandledIsWhatWasSent /\ AttemptsPrecedeTheAck
=============================================================================

------------------------ MODULE StripeWebhook_proofs ------------------------
(***************************************************************************)
(* Theorems about StripeWebhook for any events, any number of attempts on  *)
(* the network, any tolerance and any difference of clocks.                *)
(***************************************************************************)
EXTENDS StripeWebhook, TLAPS

LEMMA OldAgeType == OldAge \in Nat \ {0}
BY SkewAssumption DEF OldAge

LEMMA OlderType ==
  ASSUME NEW n \in 0 .. OldAge
  PROVE  Older(n) \in 0 .. OldAge /\ Older(n) >= n
BY OldAgeType DEF Older

(* An attempt in a slot is one.                                            *)
LEMMA AttemptsAreTyped ==
  ASSUME TypeOK, NEW e \in Events, NEW s \in Slots, net[e][s] # None
  PROVE  /\ net[e][s] \in Attempt
         /\ net[e][s].age \in 0 .. OldAge
         /\ net[e][s].body \in {"sent", "damaged"}
BY DEF TypeOK, Attempt

LEMMA InitIInv == Init => IInv
<1> SUFFICES ASSUME Init PROVE IInv
  OBVIOUS
<1>1. 0 \in 0 .. OldAge
  BY OldAgeType
<1>2. TypeOK
  BY <1>1 DEF Init, TypeOK
<1>3. HandledIsWhatWasSent /\ AttemptsPrecedeTheAck
  BY DEF Init, HandledIsWhatWasSent, AttemptsPrecedeTheAck
<1> QED
  BY <1>2, <1>3 DEF IInv

LEMMA DeliverKeepsIInv ==
  ASSUME IInv, NEW e \in Events, NEW s \in Slots, Deliver(e, s) PROVE IInv'
<1> DEFINE a == [body |-> "sent", secrets |-> signing, age |-> 0]
<1>1. a \in Attempt /\ a.age = 0
  <2>1. signing \in {{"old"}, {"old", "new"}, {"new"}}
    BY DEF IInv, TypeOK
  <2>2. signing \subseteq {"old", "new"}
    BY <2>1
  <2>3. 0 \in 0 .. OldAge
    BY OldAgeType
  <2> QED
    BY <2>2, <2>3 DEF Attempt
<1> HIDE DEF a
<1>2. net' = [net EXCEPT ![e][s] = a] /\ e \notin acked
      /\ UNCHANGED <<acked, quiet, signing, secret, offset, handled>>
  BY DEF Deliver, a
<1>3. TypeOK'
  BY <1>1, <1>2 DEF IInv, TypeOK
<1>4. quiet[e] = 0
  BY <1>2 DEF IInv, AttemptsPrecedeTheAck
<1>5. AttemptsPrecedeTheAck'
  <2> SUFFICES ASSUME NEW f \in Events
               PROVE  /\ f \notin acked => quiet[f] = 0
                      /\ \A t \in Slots : net'[f][t] # None => net'[f][t].age >= quiet[f]
    BY <1>2 DEF AttemptsPrecedeTheAck
  <2>1. f \notin acked => quiet[f] = 0
    BY DEF IInv, AttemptsPrecedeTheAck
  <2>2. ASSUME NEW t \in Slots, net'[f][t] # None
        PROVE  net'[f][t].age >= quiet[f]
    <3>1. CASE f = e /\ t = s
      <4>1. net'[f][t] = a
        BY <1>2, <3>1 DEF IInv, TypeOK
      <4> QED
        BY <1>1, <1>4, <3>1, <4>1
    <3>2. CASE ~(f = e /\ t = s)
      <4>1. net'[f][t] = net[f][t]
        BY <1>2, <3>2 DEF IInv, TypeOK
      <4> QED
        BY <2>2, <4>1 DEF IInv, AttemptsPrecedeTheAck
    <3> QED
      BY <3>1, <3>2
  <2> QED
    BY <2>1, <2>2
<1> QED
  BY <1>2, <1>3, <1>5 DEF IInv, HandledIsWhatWasSent

LEMMA DamageKeepsIInv ==
  ASSUME IInv, NEW e \in Events, NEW s \in Slots, Damage(e, s) PROVE IInv'
<1> DEFINE a == [net[e][s] EXCEPT !.body = "damaged"]
<1>1. net[e][s] \in Attempt /\ net[e][s] # None
  BY AttemptsAreTyped DEF Damage, IInv
<1>2. a \in Attempt /\ a.age = net[e][s].age
  BY <1>1 DEF Attempt
<1> HIDE DEF a
<1>3. net' = [net EXCEPT ![e][s] = a]
      /\ UNCHANGED <<acked, quiet, signing, secret, offset, handled>>
  BY DEF Damage, a
<1>4. TypeOK'
  BY <1>2, <1>3 DEF IInv, TypeOK
<1>5. AttemptsPrecedeTheAck'
  BY <1>1, <1>2, <1>3 DEF IInv, TypeOK, AttemptsPrecedeTheAck
<1> QED
  BY <1>3, <1>4, <1>5 DEF IInv, HandledIsWhatWasSent

LEMMA HandleKeepsIInv ==
  ASSUME IInv, NEW e \in Events, NEW s \in Slots, Handle(e, s) PROVE IInv'
<1>1. net[e][s] # None /\ net[e][s].body = "sent"
  BY DEF Handle, Verifies, verify_webhook_signature, construct_event
<1>2. /\ handled' = handled \cup {<<e, "sent">>}
      /\ acked' \in {acked, acked \cup {e}}
      /\ UNCHANGED <<net, quiet, signing, secret, offset>>
  BY <1>1 DEF Handle
<1>3. TypeOK'
  <2>1. TypeOK /\ acked \subseteq Events /\ handled \subseteq Events \X {"sent", "damaged"}
    BY DEF IInv, TypeOK
  <2>2. acked' \subseteq Events
    BY <1>2, <2>1
  <2>3. <<e, "sent">> \in Events \X {"sent", "damaged"}
    OBVIOUS
  <2>4. handled' \subseteq Events \X {"sent", "damaged"}
    BY <1>2, <2>1, <2>3
  <2> QED
    BY <1>2, <2>1, <2>2, <2>4 DEF TypeOK
<1>4. HandledIsWhatWasSent'
  BY <1>2 DEF IInv, HandledIsWhatWasSent
<1>5. AttemptsPrecedeTheAck'
  BY <1>2 DEF IInv, AttemptsPrecedeTheAck
<1> QED
  BY <1>3, <1>4, <1>5 DEF IInv

LEMMA TickKeepsIInv ==
  ASSUME IInv, Tick PROVE IInv'
<1>1. /\ TypeOK /\ AttemptsPrecedeTheAck /\ HandledIsWhatWasSent
      /\ UNCHANGED <<acked, signing, secret, offset, handled>>
  BY DEF IInv, Tick
<1>2. ASSUME NEW e \in Events, NEW s \in Slots
      PROVE  /\ net[e][s] = None => net'[e][s] = None
             /\ net[e][s] # None => /\ net'[e][s] \in Attempt
                                    /\ net'[e][s].age = Older(net[e][s].age)
  <2>1. net[e][s] = None => net'[e][s] = None
    BY DEF Tick
  <2>2. SUFFICES ASSUME net[e][s] # None
                 PROVE  /\ net'[e][s] \in Attempt
                        /\ net'[e][s].age = Older(net[e][s].age)
    BY <2>1
  <2>3. net[e][s] \in Attempt /\ Older(net[e][s].age) \in 0 .. OldAge
    BY <1>1, <2>2, AttemptsAreTyped, OlderType
  <2>4. net'[e][s] = [net[e][s] EXCEPT !.age = Older(@)]
    BY <2>2 DEF Tick
  <2> QED
    BY <2>3, <2>4 DEF Attempt
<1>3. ASSUME NEW e \in Events
      PROVE  quiet'[e] = IF e \in acked THEN Older(quiet[e]) ELSE 0
  BY DEF Tick
<1>4. TypeOK'
  <2>1. net' \in [Events -> [Slots -> Attempt \cup {None}]]
    <3>1. net' = [e \in Events |-> [s \in Slots |-> net'[e][s]]]
      BY DEF Tick
    <3> QED
      BY <1>2, <3>1
  <2>2. quiet' \in [Events -> 0 .. OldAge]
    <3>1. quiet' = [e \in Events |-> quiet'[e]]
      BY DEF Tick
    <3>2. ASSUME NEW e \in Events PROVE quiet'[e] \in 0 .. OldAge
      <4>1. quiet \in [Events -> 0 .. OldAge]
        BY <1>1 DEF TypeOK
      <4>2. 0 \in 0 .. OldAge
        BY OldAgeType
      <4>3. Older(quiet[e]) \in 0 .. OldAge
        BY <4>1, OlderType
      <4> QED
        BY <1>3, <4>2, <4>3
    <3> QED
      BY <3>1, <3>2
  <2> QED
    BY <1>1, <2>1, <2>2 DEF TypeOK
<1>5. AttemptsPrecedeTheAck'
  <2> SUFFICES ASSUME NEW e \in Events
               PROVE  /\ e \notin acked => quiet'[e] = 0
                      /\ \A s \in Slots : net'[e][s] # None => net'[e][s].age >= quiet'[e]
    BY <1>1 DEF AttemptsPrecedeTheAck
  <2>1. e \notin acked => quiet'[e] = 0
    BY <1>3
  <2>2. ASSUME NEW s \in Slots, net'[e][s] # None
        PROVE  net'[e][s].age >= quiet'[e]
    <3>1. /\ net[e][s] # None /\ net'[e][s].age = Older(net[e][s].age)
          /\ net[e][s].age \in 0 .. OldAge /\ quiet[e] \in 0 .. OldAge
          /\ net[e][s].age >= quiet[e]
      BY <1>1, <1>2, <2>2, AttemptsAreTyped DEF AttemptsPrecedeTheAck, TypeOK
    <3> QED
      BY <1>3, <3>1, OldAgeType DEF Older
  <2> QED
    BY <2>1, <2>2
<1> QED
  BY <1>1, <1>4, <1>5 DEF IInv, HandledIsWhatWasSent

LEMMA NextIInv == IInv /\ [Next]_vars => IInv'
<1> SUFFICES ASSUME IInv, [Next]_vars PROVE IInv'
  OBVIOUS
<1>1. CASE RollSecret
  BY <1>1 DEF RollSecret, IInv, TypeOK, HandledIsWhatWasSent, AttemptsPrecedeTheAck
<1>2. CASE Redeploy
  BY <1>2 DEF Redeploy, IInv, TypeOK, HandledIsWhatWasSent, AttemptsPrecedeTheAck
<1>3. CASE UNCHANGED vars
  BY <1>3 DEF vars, IInv, TypeOK, HandledIsWhatWasSent, AttemptsPrecedeTheAck
<1> QED
  BY <1>1, <1>2, <1>3, DeliverKeepsIInv, DamageKeepsIInv, HandleKeepsIInv,
     TickKeepsIInv DEF Next

(* Nothing unsigned is handled, nothing unhandled is settled, and what is  *)
(* on the network of a settled event is as old as the settlement.          *)
THEOREM WebhookInvariant == Spec => []IInv
BY InitIInv, NextIInv, PTL DEF Spec

(* A product never handles what Stripe did not send, configured or not.    *)
THEOREM HandledWasSent == Spec => []HandledIsWhatWasSent
<1>1. IInv => HandledIsWhatWasSent
  BY DEF IInv
<1> QED
  BY <1>1, WebhookInvariant, PTL

(* A settled event can be handled again for the tolerance and the clocks'  *)
(* difference, and no longer.                                              *)
THEOREM RepetitionIsBounded == Spec => []DuplicatesDieOut
<1>1. IInv => DuplicatesDieOut
  <2> SUFFICES ASSUME IInv, NEW e \in acked, NEW s \in Slots,
                      Tolerance > 0, Verifies(e, s)
               PROVE  quiet[e] <= Tolerance + Skew
    BY DEF DuplicatesDieOut
  <2>1. /\ e \in Events /\ net[e][s] # None /\ net[e][s].age >= quiet[e]
        /\ quiet[e] \in 0 .. OldAge /\ offset \in -Skew .. Skew
        /\ net[e][s].age \in 0 .. OldAge
    BY AttemptsAreTyped DEF IInv, TypeOK, AttemptsPrecedeTheAck, Verifies
  <2>2. Tolerance # 0
    OBVIOUS
  <2>3. construct_event(net[e][s])
    BY DEF Verifies, verify_webhook_signature
  <2>4. net[e][s].age + offset <= Tolerance
    BY <2>2, <2>3 DEF construct_event
  <2> QED
    BY <2>1, <2>4, SkewAssumption
<1> QED
  BY <1>1, WebhookInvariant, PTL
=============================================================================

------------------------- MODULE StripeWrites_proofs -------------------------
(***************************************************************************)
(* For every set of writes, accounts and products and every window: a      *)
(* write is carried out once in a window, and when no two writes to one    *)
(* account share a key, every answer tells of the write it answers, so     *)
(* that the retries implement IdempotentWrites.                            *)
(***************************************************************************)
EXTENDS StripeWrites, TLAPS

(* Every attempt of a write has the same key.                              *)
LEMMA KeyOutlivesAttempts ==
  ASSUME NEW w, NEW m, NEW n PROVE idempotency_key_for(w, m) = idempotency_key_for(w, n)
BY DEF idempotency_key_for

LEMMA RequestFields ==
  ASSUME NEW w, NEW n, NEW a
  PROVE  /\ Request(w, n, a).write = w /\ Request(w, n, a).attempt = n
         /\ Request(w, n, a).amount = a
         /\ Request(w, n, a).account = StripeAccount(w)
         /\ Request(w, n, a).key = idempotency_key_for(w, n)
BY DEF Request

LEMMA InitialState == Init => IInv
BY DEF Init, IInv, TypeOK, RequestsAreFaithful, OnlyClientsWrite, KeysGuardCharges,
   KeptAnswersAreCharges, ChargesAreOnTheirAccount, AnswersFitThePhase,
   ChargedOncePerWindow

(* The steps that leave Stripe alone.                                      *)
LEMMA BackendSteps ==
  ASSUME IInv, NEW w \in Writes, Unavailable(w) \/ Send(w) \/ Receive(w) \/ Forget(w)
  PROVE  IInv'
<1>1. UNCHANGED <<kept, charges, now>>
  BY DEF Unavailable, Send, Receive, Forget
<1>2. TypeOK'
  <2>1. CASE Unavailable(w)
    BY <2>1 DEF Unavailable, IInv, TypeOK
  <2>2. CASE Send(w)
    BY <2>2, RequestFields DEF Send, HasClient, StripeAccount, IInv, TypeOK
  <2>3. CASE Receive(w)
    BY <2>3 DEF Receive, IInv, TypeOK
  <2>4. CASE Forget(w)
    BY <2>4 DEF Forget, IInv, TypeOK
  <2> QED
    BY <2>1, <2>2, <2>3, <2>4
<1>3. RequestsAreFaithful'
  <2>1. CASE Unavailable(w) \/ Receive(w) \/ Forget(w)
    BY <2>1 DEF Unavailable, Receive, Forget, IInv, RequestsAreFaithful
  <2>2. CASE Send(w)
    BY <2>2, RequestFields DEF Send, IInv, TypeOK, RequestsAreFaithful
  <2> QED
    BY <2>1, <2>2
<1>4. AnswersFitThePhase'
  BY DEF Unavailable, Send, Receive, Forget, IInv, TypeOK, AnswersFitThePhase
<1>5. OnlyClientsWrite'
  <2>1. CASE Unavailable(w)
    BY <2>1 DEF Unavailable, IInv, TypeOK, OnlyClientsWrite, HasClient
  <2>2. CASE Send(w)
    <3>1. \A m \in net' : m \in net \/ m.write = w
      BY <2>2, RequestFields DEF Send
    <3>2. charges' = charges /\ answer' = answer /\ HasClient(w)
      BY <2>2 DEF Send
    <3> QED
      BY <3>1, <3>2 DEF IInv, OnlyClientsWrite, HasClient
  <2>3. CASE Receive(w)
    BY <2>3 DEF Receive, IInv, TypeOK, OnlyClientsWrite, HasClient
  <2>4. CASE Forget(w)
    BY <2>4 DEF Forget, IInv, TypeOK, OnlyClientsWrite, HasClient
  <2> QED
    BY <2>1, <2>2, <2>3, <2>4
<1> QED
  BY <1>1, <1>2, <1>3, <1>4, <1>5 DEF IInv, KeysGuardCharges, KeptAnswersAreCharges,
     ChargesAreOnTheirAccount, ChargedOncePerWindow

(* A request that finds no kept key is the first of its write in a window. *)
LEMMA CarriedOutOnce ==
  ASSUME IInv, NEW m \in net, CarryOut(m),
         NEW d \in charges, d.write = m.write, now < d.at + Window
  PROVE  FALSE
<1>1. PICK k \in kept : /\ k.account = StripeAccount(d.write)
                        /\ k.key = idempotency_key_for(d.write, d.attempt)
  BY DEF IInv, KeysGuardCharges
<1>2. m.account = StripeAccount(m.write) /\ m.key = idempotency_key_for(m.write, m.attempt)
  BY RequestFields DEF IInv, RequestsAreFaithful
<1>3. k \in Known(m)
  BY <1>1, <1>2, KeyOutlivesAttempts DEF Known
<1> QED
  BY <1>3 DEF CarryOut

LEMMA CarryOutStep == ASSUME IInv, NEW m \in net, CarryOut(m) PROVE IInv'
<1> DEFINE c == [write |-> m.write, attempt |-> m.attempt, account |-> m.account,
                 amount |-> m.amount, at |-> now]
           k == [account |-> m.account, key |-> m.key, amount |-> m.amount, at |-> now]
<1>1. charges' = charges \cup {c} /\ kept' = kept \cup {k}
  BY DEF CarryOut
<1>2. UNCHANGED <<pc, attempt, amount, answer, now>> /\ net' = net \ {m}
  BY DEF CarryOut, Reply
<1>3. m.account = StripeAccount(m.write) /\ m.key = idempotency_key_for(m.write, m.attempt)
  BY RequestFields DEF IInv, RequestsAreFaithful
<1>4. m.write \in Writes /\ m.amount \in Amounts /\ now \in Nat
  BY DEF IInv, TypeOK
<1>5. TypeOK'
  BY <1>1, <1>2, <1>4 DEF CarryOut, Reply, IInv, TypeOK
<1>6. RequestsAreFaithful'
  BY <1>2 DEF IInv, RequestsAreFaithful, Request
<1>7. KeysGuardCharges'
  <2> SUFFICES ASSUME NEW d \in charges \cup {c}, now < d.at + Window
               PROVE  \E l \in kept \cup {k} : /\ l.account = StripeAccount(d.write)
                                               /\ l.key = idempotency_key_for(d.write, d.attempt)
                                               /\ l.at = d.at
    BY <1>1, <1>2 DEF KeysGuardCharges, StripeAccount, idempotency_key_for
  <2>1. CASE d \in charges
    BY <2>1 DEF IInv, KeysGuardCharges
  <2>2. CASE d = c
    <3>1. /\ k.account = StripeAccount(d.write)
          /\ k.key = idempotency_key_for(d.write, d.attempt)
          /\ k.at = d.at
      BY <1>3, <2>2
    <3> QED
      BY <3>1
  <2> QED
    BY <2>1, <2>2
<1>8. KeptAnswersAreCharges'
  <2> SUFFICES ASSUME NEW l \in kept \cup {k}
               PROVE  \E d \in charges \cup {c} :
                        /\ l.account = StripeAccount(d.write)
                        /\ l.key = idempotency_key_for(d.write, d.attempt)
                        /\ l.amount = d.amount /\ l.at = d.at
    BY <1>1 DEF KeptAnswersAreCharges, StripeAccount, idempotency_key_for
  <2>1. CASE l \in kept
    BY <2>1 DEF IInv, KeptAnswersAreCharges
  <2>2. CASE l = k
    <3>1. /\ l.account = StripeAccount(c.write)
          /\ l.key = idempotency_key_for(c.write, c.attempt)
          /\ l.amount = c.amount /\ l.at = c.at
      BY <1>3, <2>2
    <3> QED
      BY <3>1
  <2> QED
    BY <2>1, <2>2
<1>9. ChargesAreOnTheirAccount'
  BY <1>1, <1>3 DEF IInv, ChargesAreOnTheirAccount
<1>10. AnswersFitThePhase'
  BY <1>2 DEF CarryOut, Reply, IInv, TypeOK, AnswersFitThePhase
<1>11. ChargedOncePerWindow'
  BY <1>1, CarriedOutOnce DEF IInv, ChargedOncePerWindow
<1>12. OnlyClientsWrite'
  BY <1>1, <1>2 DEF IInv, OnlyClientsWrite, HasClient
<1> QED
  BY <1>5, <1>6, <1>7, <1>8, <1>9, <1>10, <1>11, <1>12 DEF IInv

LEMMA ReplayStep == ASSUME IInv, NEW m \in net, Replay(m) PROVE IInv'
<1>1. UNCHANGED <<pc, attempt, amount, answer, kept, charges, now>> /\ net' = net \ {m}
  BY DEF Replay, Reply
<1>2. TypeOK'
  BY <1>1 DEF Replay, Reply, IInv, TypeOK
<1>3. RequestsAreFaithful'
  BY <1>1 DEF IInv, RequestsAreFaithful, Request
<1>4. AnswersFitThePhase'
  BY <1>1 DEF Replay, Reply, IInv, TypeOK, AnswersFitThePhase
<1>5. OnlyClientsWrite'
  BY <1>1 DEF IInv, OnlyClientsWrite, HasClient
<1> QED
  BY <1>1, <1>2, <1>3, <1>4, <1>5 DEF IInv, KeysGuardCharges, KeptAnswersAreCharges,
     ChargesAreOnTheirAccount, ChargedOncePerWindow

LEMMA ExpireStep == ASSUME IInv, NEW k \in kept, Expire(k) PROVE IInv'
<1>1. UNCHANGED <<pc, attempt, amount, answer, net, reply, charges, now>>
      /\ kept' = kept \ {k} /\ now - k.at >= Window
  BY DEF Expire
<1>2. KeysGuardCharges'
  <2> SUFFICES ASSUME NEW c \in charges, now < c.at + Window
               PROVE  \E l \in kept \ {k} : /\ l.account = StripeAccount(c.write)
                                            /\ l.key = idempotency_key_for(c.write, c.attempt)
                                            /\ l.at = c.at
    BY <1>1 DEF KeysGuardCharges
  <2>1. PICK l \in kept : /\ l.account = StripeAccount(c.write)
                          /\ l.key = idempotency_key_for(c.write, c.attempt)
                          /\ l.at = c.at
    BY DEF IInv, KeysGuardCharges
  <2>2. l # k
    BY <1>1, <2>1, WindowAssumption DEF IInv, TypeOK
  <2> QED
    BY <2>1, <2>2
<1>3. TypeOK'
  BY <1>1 DEF IInv, TypeOK
<1> QED
  BY <1>1, <1>2, <1>3 DEF IInv, RequestsAreFaithful, KeptAnswersAreCharges,
     ChargesAreOnTheirAccount, AnswersFitThePhase, ChargedOncePerWindow,
     OnlyClientsWrite, HasClient

LEMMA TickStep == ASSUME IInv, Tick PROVE IInv'
<1>1. now \in Nat /\ now' = now + 1
      /\ UNCHANGED <<pc, attempt, amount, answer, net, reply, kept, charges>>
  BY DEF Tick, IInv, TypeOK
<1>2. TypeOK'
  BY <1>1 DEF Tick, IInv, TypeOK
<1>3. KeysGuardCharges'
  BY <1>1, WindowAssumption DEF IInv, TypeOK, KeysGuardCharges
<1> QED
  BY <1>1, <1>2, <1>3 DEF IInv, RequestsAreFaithful, KeptAnswersAreCharges,
     ChargesAreOnTheirAccount, AnswersFitThePhase, ChargedOncePerWindow,
     OnlyClientsWrite, HasClient

LEMMA Inductive == IInv /\ [Next]_vars => IInv'
<1> SUFFICES ASSUME IInv, [Next]_vars PROVE IInv'
  OBVIOUS
<1>1. CASE UNCHANGED vars
  BY <1>1 DEF vars, IInv, TypeOK, RequestsAreFaithful, KeysGuardCharges,
     KeptAnswersAreCharges, ChargesAreOnTheirAccount, AnswersFitThePhase,
     ChargedOncePerWindow, OnlyClientsWrite, HasClient
<1>2. CASE Next
  BY <1>2, BackendSteps, CarryOutStep, ReplayStep, ExpireStep, TickStep DEF Next
<1> QED
  BY <1>1, <1>2

(* The inductive invariant holds in every reachable state.                 *)
THEOREM KeysAreGuarded == Spec => []IInv
BY InitialState, Inductive, PTL DEF Spec

(* However often it is retried, a write is carried out once in a window.   *)
THEOREM RetriesChargeOnce == Spec => []ChargedOncePerWindow
<1>1. IInv => ChargedOncePerWindow
  BY DEF IInv
<1> QED
  BY <1>1, KeysAreGuarded, PTL
-----------------------------------------------------------------------------
(* What the answers mean, when the keys are distinct.                      *)
Carried(w)      == \E c \in charges : c.write = w /\ c.account = w.account
                                      /\ c.amount = amount[w]
CarriedOther(w) == \E c \in charges : c.write = w /\ c.amount # amount[w]

(* What has been or is about to be told to a write is true of that write.  *)
AnswersAreOwn ==
  \A w \in Writes : /\ "ok" \in {reply[w], answer[w]} => Carried(w)
                    /\ "mismatch" \in {reply[w], answer[w]} => CarriedOther(w)

(* A kept answer under the key of a request is of that request's write.    *)
LEMMA ReplaysAreOwn ==
  ASSUME IInv, DistinctKeys, NEW m \in net, NEW k \in Known(m)
  PROVE  \E c \in charges : c.write = m.write /\ c.account = m.write.account
                            /\ c.amount = k.amount
<1>1. PICK c \in charges : /\ k.account = StripeAccount(c.write)
                           /\ k.key = idempotency_key_for(c.write, c.attempt)
                           /\ k.amount = c.amount
  BY DEF IInv, KeptAnswersAreCharges, Known
<1>2. m.account = StripeAccount(m.write) /\ m.key = idempotency_key_for(m.write, m.attempt)
  BY RequestFields DEF IInv, RequestsAreFaithful
<1>3. c.write \in Writes /\ m.write \in Writes
  BY DEF IInv, TypeOK
<1>4. c.write = m.write
  BY <1>1, <1>2, <1>3, KeyOutlivesAttempts DEF Known, DistinctKeys
<1> QED
  BY <1>1, <1>4 DEF StripeAccount, IInv, ChargesAreOnTheirAccount

LEMMA AnswersStayOwn ==
  ASSUME IInv, DistinctKeys, AnswersAreOwn, [Next]_vars PROVE AnswersAreOwn'
<1> SUFFICES ASSUME NEW v \in Writes
             PROVE  /\ "ok" \in {reply'[v], answer'[v]} => Carried(v)'
                    /\ "mismatch" \in {reply'[v], answer'[v]} => CarriedOther(v)'
  BY DEF AnswersAreOwn
<1>1. \A w \in Writes : /\ reply \in [Writes -> {"none", "ok", "mismatch"}]
                        /\ answer \in [Writes -> {"none", "ok", "mismatch", "unconfigured"}]
                        /\ amount \in [Writes -> Amounts \cup {0}]
  BY DEF IInv, TypeOK
<1>2. charges \subseteq charges'
  BY DEF Next, vars, Unavailable, Send, Receive, Forget, CarryOut, Replay, Expire, Tick
<1>3. ASSUME amount'[v] = amount[v], {reply'[v], answer'[v]} \subseteq {reply[v], answer[v], "none", "unconfigured"}
      PROVE  /\ "ok" \in {reply'[v], answer'[v]} => Carried(v)'
             /\ "mismatch" \in {reply'[v], answer'[v]} => CarriedOther(v)'
  BY <1>2, <1>3 DEF AnswersAreOwn, Carried, CarriedOther
<1>4. CASE UNCHANGED vars
  BY <1>3, <1>4 DEF vars
<1>5. ASSUME NEW w \in Writes, Unavailable(w) \/ Receive(w) \/ Forget(w)
      PROVE  /\ amount'[v] = amount[v]
             /\ {reply'[v], answer'[v]} \subseteq {reply[v], answer[v], "none", "unconfigured"}
  BY <1>1, <1>5 DEF Unavailable, Receive, Forget
<1>6. ASSUME NEW w \in Writes, Send(w)
      PROVE  /\ "ok" \in {reply'[v], answer'[v]} => Carried(v)'
             /\ "mismatch" \in {reply'[v], answer'[v]} => CarriedOther(v)'
  <2>1. CASE v = w
    <3>1. reply'[v] = "none" /\ answer'[v] = "none"
      BY <1>6, <2>1 DEF Send, IInv, AnswersFitThePhase
    <3> QED
      BY <3>1
  <2>2. CASE v # w
    BY <1>1, <1>3, <1>6, <2>2 DEF Send
  <2> QED
    BY <2>1, <2>2
<1>7. ASSUME NEW m \in net, NEW what, Reply(m, what), reply'[v] # reply[v]
      PROVE  m.write = v /\ reply'[v] = what /\ m.amount = amount[v]
  <2>1. m.write = v /\ m.attempt = attempt[v] /\ reply'[v] = what
    BY <1>1, <1>7 DEF Reply
  <2> QED
    BY <2>1 DEF IInv, RequestsAreFaithful
<1>8. ASSUME NEW m \in net, CarryOut(m)
      PROVE  /\ "ok" \in {reply'[v], answer'[v]} => Carried(v)'
             /\ "mismatch" \in {reply'[v], answer'[v]} => CarriedOther(v)'
  <2>1. amount' = amount /\ answer' = answer /\ Reply(m, "ok")
    BY <1>8 DEF CarryOut
  <2>2. CASE reply'[v] = reply[v]
    BY <1>3, <2>1, <2>2
  <2>3. CASE reply'[v] # reply[v]
    <3>1. m.write = v /\ reply'[v] = "ok" /\ m.amount = amount[v]
      BY <1>7, <2>1, <2>3
    <3>2. m.account = v.account
      BY <3>1, RequestFields DEF IInv, RequestsAreFaithful, StripeAccount
    <3>3. Carried(v)'
      <4> DEFINE c == [write |-> m.write, attempt |-> m.attempt, account |-> m.account,
                       amount |-> m.amount, at |-> now]
      <4>1. c \in charges'
        BY <1>8 DEF CarryOut
      <4>2. c.write = v /\ c.account = v.account /\ c.amount = amount'[v]
        BY <2>1, <3>1, <3>2
      <4> QED
        BY <4>1, <4>2 DEF Carried
    <3>4. "mismatch" = answer[v] => CarriedOther(v)'
      BY <1>2, <2>1 DEF AnswersAreOwn, CarriedOther
    <3> QED
      BY <2>1, <3>1, <3>3, <3>4
  <2> QED
    BY <2>2, <2>3
<1>9. ASSUME NEW m \in net, Replay(m)
      PROVE  /\ "ok" \in {reply'[v], answer'[v]} => Carried(v)'
             /\ "mismatch" \in {reply'[v], answer'[v]} => CarriedOther(v)'
  <2>1. PICK k \in Known(m) : Reply(m, IF k.amount = m.amount THEN "ok" ELSE "mismatch")
    BY <1>9 DEF Replay
  <2>2. amount' = amount /\ answer' = answer /\ charges' = charges
    BY <1>9 DEF Replay
  <2>3. CASE reply'[v] = reply[v]
    BY <1>3, <2>2, <2>3
  <2>4. CASE reply'[v] # reply[v]
    <3>1. /\ m.write = v /\ m.amount = amount[v]
          /\ reply'[v] = IF k.amount = m.amount THEN "ok" ELSE "mismatch"
      BY <1>7, <2>1, <2>4
    <3>2. PICK c \in charges : c.write = v /\ c.account = v.account /\ c.amount = k.amount
      BY <3>1, ReplaysAreOwn
    <3>3. reply'[v] = "ok" => Carried(v)'
      BY <2>2, <3>1, <3>2 DEF Carried
    <3>4. reply'[v] = "mismatch" => CarriedOther(v)'
      BY <2>2, <3>1, <3>2 DEF CarriedOther
    <3>5. /\ answer[v] = "ok" => Carried(v)'
          /\ answer[v] = "mismatch" => CarriedOther(v)'
      BY <2>2 DEF AnswersAreOwn, Carried, CarriedOther
    <3> QED
      BY <2>2, <3>3, <3>4, <3>5
  <2> QED
    BY <2>3, <2>4
<1>10. ASSUME Tick \/ \E k \in kept : Expire(k)
       PROVE  /\ amount'[v] = amount[v]
              /\ {reply'[v], answer'[v]} \subseteq {reply[v], answer[v], "none", "unconfigured"}
  BY <1>10 DEF Tick, Expire
<1> QED
  BY <1>3, <1>4, <1>5, <1>6, <1>8, <1>9, <1>10 DEF Next

LEMMA OwnAnswers == DistinctKeys => (Spec => []AnswersAreOwn)
<1> SUFFICES ASSUME DistinctKeys PROVE Spec => []AnswersAreOwn
  OBVIOUS
<1>1. Init => AnswersAreOwn
  BY DEF Init, AnswersAreOwn
<1>2. IInv /\ AnswersAreOwn /\ [Next]_vars => AnswersAreOwn'
  BY AnswersStayOwn
<1> QED
  BY <1>1, <1>2, KeysAreGuarded, PTL DEF Spec

(* If no two writes to one account have the same key, success means that   *)
(* this write was carried out: SuccessIsOwnCharge.                         *)
THEOREM AnswersTellOfTheirWrite == DistinctKeys => (Spec => []SuccessIsOwnCharge)
<1> SUFFICES ASSUME DistinctKeys PROVE Spec => []SuccessIsOwnCharge
  OBVIOUS
<1>1. AnswersAreOwn => SuccessIsOwnCharge
  BY DEF AnswersAreOwn, Carried, SuccessIsOwnCharge
<1> QED
  BY <1>1, OwnAnswers, PTL

(* A refusal means that it was, for another amount: MismatchIsOwnDoing.    *)
THEOREM RefusalsTellOfTheirWrite == DistinctKeys => (Spec => []MismatchIsOwnDoing)
<1> SUFFICES ASSUME DistinctKeys PROVE Spec => []MismatchIsOwnDoing
  OBVIOUS
<1>1. AnswersAreOwn => MismatchIsOwnDoing
  BY DEF AnswersAreOwn, CarriedOther, MismatchIsOwnDoing
<1> QED
  BY <1>1, OwnAnswers, PTL

(* What a key is made of.                                                  *)
Parts == {"bos"} \cup {w[part][1] : w \in Writes,
                                   part \in {"operation", "entity_type", "entity_id", "suffix"}}

(* A part put after a sequence makes it one longer.                        *)
LEMMA LongerByOne ==
  ASSUME NEW s \in Seq(Parts), NEW a \in Parts
  PROVE  s \o <<a>> \in Seq(Parts) /\ Len(s \o <<a>>) = Len(s) + 1
OBVIOUS

(* Sequences that agree with a part put after each agree without it.       *)
LEMMA LastPartsCancel ==
  ASSUME NEW s \in Seq(Parts), NEW t \in Seq(Parts), NEW a \in Parts, NEW b \in Parts,
         s \o <<a>> = t \o <<b>>
  PROVE  s = t /\ a = b
<1>1. Len(s) = Len(t)
  <2>1. Len(s \o <<a>>) = Len(s) + 1 /\ Len(t \o <<b>>) = Len(t) + 1
    BY LongerByOne
  <2> QED
    BY <2>1
<1>2. a = b
  <2>1. (s \o <<a>>)[Len(s) + 1] = a
    OBVIOUS
  <2>2. (t \o <<b>>)[Len(t) + 1] = b
    OBVIOUS
  <2> QED
    BY <1>1, <2>1, <2>2
<1>3. \A j \in 1 .. Len(s) : s[j] = t[j]
  <2> SUFFICES ASSUME NEW j \in 1 .. Len(s) PROVE s[j] = t[j]
    OBVIOUS
  <2>1. (s \o <<a>>)[j] = s[j]
    OBVIOUS
  <2>2. j \in 1 .. Len(t)
    BY <1>1
  <2>3. (t \o <<b>>)[j] = t[j]
    BY <2>2
  <2> QED
    BY <2>1, <2>3
<1> QED
  BY <1>1, <1>2, <1>3

(* What stands before the suffix of a key.                                 *)
Front(o, t, i) == <<"bos">> \o <<o>> \o <<t>> \o <<i>>

LEMMA FrontIsOfFour ==
  ASSUME NEW o \in Parts, NEW t \in Parts, NEW i \in Parts
  PROVE  Front(o, t, i) \in Seq(Parts) /\ Len(Front(o, t, i)) = 4
<1>0. "bos" \in Parts
  BY DEF Parts
<1>1. <<"bos">> \in Seq(Parts) /\ Len(<<"bos">>) = 1
  BY <1>0
<1>2. <<"bos">> \o <<o>> \in Seq(Parts) /\ Len(<<"bos">> \o <<o>>) = 2
  BY <1>1, LongerByOne
<1>3. <<"bos">> \o <<o>> \o <<t>> \in Seq(Parts) /\ Len(<<"bos">> \o <<o>> \o <<t>>) = 3
  BY <1>2, LongerByOne
<1>4. /\ <<"bos">> \o <<o>> \o <<t>> \o <<i>> \in Seq(Parts)
      /\ Len(<<"bos">> \o <<o>> \o <<t>> \o <<i>>) = 4
  BY <1>3, LongerByOne
<1> QED
  BY <1>4 DEF Front

(* Its parts can be read off it.                                           *)
LEMMA FrontParts ==
  ASSUME NEW o \in Parts, NEW t \in Parts, NEW i \in Parts
  PROVE  /\ Front(o, t, i)[2] = o
         /\ Front(o, t, i)[3] = t
         /\ Front(o, t, i)[4] = i
BY DEF Front

(* So do sequences as long as each other that may or may not have one.     *)
LEMMA SuffixesCancel ==
  ASSUME NEW s \in Seq(Parts), NEW t \in Seq(Parts), Len(s) = Len(t),
         NEW a \in Parts, NEW b \in Parts,
         NEW u, u = <<>> \/ u = <<a>>, NEW w, w = <<>> \/ w = <<b>>,
         s \o u = t \o w
  PROVE  s = t /\ u = w
<1>1. s \o <<>> = s /\ t \o <<>> = t
  OBVIOUS
<1>2. Len(s \o <<a>>) = Len(s) + 1 /\ Len(t \o <<b>>) = Len(t) + 1
  BY LongerByOne
<1>3. CASE u = <<>> /\ w = <<>>
  BY <1>1, <1>3
<1>4. CASE u = <<a>> /\ w = <<b>>
  <2>1. s \o <<a>> = t \o <<b>>
    BY <1>4
  <2>2. s = t /\ a = b
    BY ONLY <2>1, LastPartsCancel, s \in Seq(Parts), t \in Seq(Parts), a \in Parts, b \in Parts
  <2> QED
    BY <1>4, <2>2
<1>5. CASE u = <<>> /\ w = <<b>>
  <2>1. s = t \o <<b>>
    BY <1>1, <1>5
  <2> QED
    BY <1>2, <2>1
<1>6. CASE u = <<a>> /\ w = <<>>
  <2>1. s \o <<a>> = t
    BY <1>1, <1>6
  <2> QED
    BY <1>2, <2>1
<1> QED
  BY <1>3, <1>4, <1>5, <1>6

(* Parts without a colon, none of them empty but the suffix, make keys of  *)
(* their own.                                                              *)
THEOREM PlainPartsMakeKeysDistinct == PlainParts => DistinctKeys
<1> SUFFICES ASSUME PlainParts, NEW v \in Writes, NEW w \in Writes, v.account = w.account,
                    idempotency_key_for(v, 1) = idempotency_key_for(w, 1)
             PROVE  v = w
  BY DEF DistinctKeys, StripeAccount
<1>1. PICK ov, tv, iv, sv : /\ v.operation = <<ov>> /\ v.entity_type = <<tv>>
                            /\ v.entity_id = <<iv>>
                            /\ v.suffix = <<>> \/ v.suffix = <<sv>>
  BY DEF PlainParts
<1>2. PICK ow, tw, iw, sw : /\ w.operation = <<ow>> /\ w.entity_type = <<tw>>
                            /\ w.entity_id = <<iw>>
                            /\ w.suffix = <<>> \/ w.suffix = <<sw>>
  BY DEF PlainParts
<1>3. v.operation = w.operation /\ v.entity_type = w.entity_type
      /\ v.entity_id = w.entity_id /\ v.suffix = w.suffix
  <2>1. /\ "bos" \in Parts /\ ov \in Parts /\ tv \in Parts /\ iv \in Parts
        /\ ow \in Parts /\ tw \in Parts /\ iw \in Parts
    <3>1. /\ ov = v["operation"][1] /\ tv = v["entity_type"][1] /\ iv = v["entity_id"][1]
          /\ ow = w["operation"][1] /\ tw = w["entity_type"][1] /\ iw = w["entity_id"][1]
      BY <1>1, <1>2
    <3> QED
      BY <3>1 DEF Parts
  <2>2. Front(ov, tv, iv) \o v.suffix = Front(ow, tw, iw) \o w.suffix
    BY <1>1, <1>2 DEF idempotency_key_for, Front
  <2>3. ov = ow /\ tv = tw /\ iv = iw /\ v.suffix = w.suffix
    <3>1. PICK s1 \in Parts : v.suffix = <<>> \/ v.suffix = <<s1>>
      <4>1. v.suffix = <<sv>> => sv = v["suffix"][1]
        OBVIOUS
      <4>2. v.suffix = <<sv>> => sv \in Parts
        BY <4>1 DEF Parts
      <4> QED
        BY <1>1, <2>1, <4>2
    <3>2. PICK s2 \in Parts : w.suffix = <<>> \/ w.suffix = <<s2>>
      <4>1. w.suffix = <<sw>> => sw = w["suffix"][1]
        OBVIOUS
      <4>2. w.suffix = <<sw>> => sw \in Parts
        BY <4>1 DEF Parts
      <4> QED
        BY <1>2, <2>1, <4>2
    <3>3. Len(Front(ov, tv, iv)) = Len(Front(ow, tw, iw))
      BY <2>1, FrontIsOfFour
    <3>4. Front(ov, tv, iv) \in Seq(Parts) /\ Front(ow, tw, iw) \in Seq(Parts)
      BY <2>1, FrontIsOfFour
    <3>5. Front(ov, tv, iv) = Front(ow, tw, iw) /\ v.suffix = w.suffix
      BY ONLY <2>2, <3>1, <3>2, <3>3, <3>4, SuffixesCancel, s1 \in Parts, s2 \in Parts
    <3>6. /\ Front(ov, tv, iv)[2] = ov /\ Front(ow, tw, iw)[2] = ow
          /\ Front(ov, tv, iv)[3] = tv /\ Front(ow, tw, iw)[3] = tw
          /\ Front(ov, tv, iv)[4] = iv /\ Front(ow, tw, iw)[4] = iw
      BY <2>1, FrontParts
    <3> QED
      BY <3>5, <3>6
  <2> QED
    BY <1>1, <1>2, <2>3
<1>4. v.product = w.product
  BY DEF PlainParts
<1>5. \A field \in Fields : v[field] = w[field]
  BY <1>3, <1>4 DEF Fields
<1>6. v = [field \in Fields |-> v[field]] /\ w = [field \in Fields |-> w[field]]
  BY DEF PlainParts
<1> QED
  BY <1>5, <1>6

-----------------------------------------------------------------------------
(* The retries implement the promise, step by step.                        *)
Seen == {[write |-> c.write, account |-> c.account, amount |-> c.amount,
          at |-> c.at] : c \in charges}

LEMMA ChargesAreSeen ==
  ASSUME NEW c \in charges PROVE Promise!CarriedFor(c.write, c.amount)
<1> DEFINE s == [write |-> c.write, account |-> c.account, amount |-> c.amount, at |-> c.at]
<1>1. s \in Seen
  BY DEF Seen
<1>2. s.write = c.write /\ s.amount = c.amount
  OBVIOUS
<1> HIDE DEF s
<1> QED
  BY <1>1, <1>2 DEF Promise!CarriedFor, Seen

LEMMA PromisedInit == Init => Promise!Init
BY DEF Init, Promise!Init

(* Nothing has been carried out for a write that has no client.            *)
LEMMA UnconfiguredIsTrue ==
  ASSUME IInv, NEW w \in Writes, ~HasClient(w)
  PROVE  "unconfigured" \in Promise!Truths(w)
<1>1. \A c \in Seen : c.write # w
  BY DEF Seen, IInv, OnlyClientsWrite
<1> QED
  BY <1>1 DEF Promise!Truths, Promise!CarriedFor, Seen

LEMMA AnswersAreTrue ==
  ASSUME IInv, AnswersAreOwn, NEW w \in Writes, reply[w] # "none"
  PROVE  reply[w] \in Promise!Truths(w)
<1>1. reply[w] \in {"ok", "mismatch"}
  BY DEF IInv, TypeOK
<1>2. CASE reply[w] = "ok"
  <2>1. PICK c \in charges : c.write = w /\ c.amount = amount[w]
    BY <1>2 DEF AnswersAreOwn, Carried
  <2>2. Promise!CarriedFor(w, amount[w])
    BY <2>1, ChargesAreSeen
  <2> QED
    BY <1>2, <2>2 DEF Promise!Truths
<1>3. CASE reply[w] = "mismatch"
  <2>1. PICK c \in charges : c.write = w /\ c.amount # amount[w]
    BY <1>3 DEF AnswersAreOwn, CarriedOther
  <2>2. c.amount \in Amounts \ {amount[w]}
    BY <2>1 DEF IInv, TypeOK
  <2>3. Promise!CarriedFor(w, c.amount)
    BY <2>1, ChargesAreSeen
  <2> QED
    BY <1>3, <2>2, <2>3 DEF Promise!Truths
<1> QED
  BY <1>1, <1>2, <1>3

LEMMA CarryOutIsPromised ==
  ASSUME IInv, NEW m \in net, CarryOut(m) PROVE Promise!CarryOut(m.write)
<1>1. /\ m.write \in Writes /\ m.amount \in Amounts /\ HasClient(m.write)
      /\ m.account = m.write.account /\ now \in Nat
  BY RequestFields DEF IInv, TypeOK, OnlyClientsWrite, RequestsAreFaithful, StripeAccount
<1>2. answer[m.write] # "unconfigured"
  BY <1>1 DEF IInv, OnlyClientsWrite
<1>3. ASSUME NEW c \in charges, c.write = m.write PROVE c.at + Window <= now
  <2>1. c.at \in Nat /\ Window \in Nat
    BY <1>1, WindowAssumption DEF IInv, TypeOK
  <2> QED
    BY <1>1, <1>3, <2>1, CarriedOutOnce
<1>4. \A s \in Seen : s.write = m.write => s.at + Window <= now
  BY <1>3 DEF Seen
<1> DEFINE c == [write |-> m.write, attempt |-> m.attempt, account |-> m.account,
                 amount |-> m.amount, at |-> now]
           s == [write |-> m.write, account |-> m.write.account, amount |-> m.amount,
                 at |-> now]
<1>5. charges' = charges \cup {c} /\ UNCHANGED <<amount, answer, now>>
  BY DEF CarryOut
<1>6. Seen' = Seen \cup {s}
  <2>1. s = [write |-> c.write, account |-> c.account, amount |-> c.amount, at |-> c.at]
    BY <1>1
  <2> HIDE DEF c, s
  <2> QED
    BY <1>5, <2>1 DEF Seen
<1>7. s = [write |-> m.write, account |-> [w \in Writes |-> w.account][m.write],
           amount |-> m.amount, at |-> now]
  BY <1>1
<1> HIDE DEF s
<1> QED
  BY <1>1, <1>2, <1>4, <1>5, <1>6, <1>7 DEF Promise!CarryOut, Seen

LEMMA NextIsPromised ==
  ASSUME IInv, AnswersAreOwn, [Next]_vars PROVE [Promise!Next]_Promise!vars
<1>1. CASE UNCHANGED vars
  BY <1>1 DEF vars, Promise!vars
<1>2. ASSUME NEW w \in Writes, Unavailable(w) PROVE Promise!Tell(w)
  <2>1. /\ answer[w] = "none" /\ answer' = [answer EXCEPT ![w] = "unconfigured"]
        /\ UNCHANGED <<amount, charges, now>> /\ ~HasClient(w)
    BY <1>2 DEF Unavailable, IInv, AnswersFitThePhase
  <2> QED
    BY <2>1, UnconfiguredIsTrue DEF Promise!Tell
<1>3. ASSUME NEW w \in Writes, Send(w) PROVE Promise!Ask(w)
  <2>1. answer[w] = "none" /\ UNCHANGED <<answer, charges, now>>
    BY <1>3 DEF Send, IInv, AnswersFitThePhase
  <2>2. \E a \in Amounts : amount' = [amount EXCEPT ![w] = a]
    BY <1>3 DEF Send
  <2> QED
    BY <2>1, <2>2 DEF Promise!Ask
<1>4. ASSUME NEW w \in Writes, Receive(w) PROVE Promise!Tell(w)
  <2>1. /\ answer[w] = "none" /\ answer' = [answer EXCEPT ![w] = reply[w]]
        /\ reply[w] # "none" /\ UNCHANGED <<amount, charges, now>>
    BY <1>4 DEF Receive, IInv, AnswersFitThePhase
  <2> QED
    BY <2>1, AnswersAreTrue DEF Promise!Tell
<1>5. ASSUME NEW w \in Writes, Forget(w)
      PROVE  Promise!Forget(w) \/ UNCHANGED Promise!vars
  <2>1. /\ answer' = [answer EXCEPT ![w] = "none"]
        /\ UNCHANGED <<amount, charges, now>>
        /\ pc[w] = "waiting" \/ answer[w] = "ok"
    BY <1>5 DEF Forget
  <2>2. CASE answer[w] = "ok"
    BY <2>1, <2>2 DEF Promise!Forget
  <2>3. CASE answer[w] # "ok"
    <3>1. answer[w] = "none"
      BY <2>1, <2>3 DEF IInv, AnswersFitThePhase
    <3>2. answer' = answer
      BY <2>1, <3>1 DEF IInv, TypeOK
    <3> QED
      BY <2>1, <3>2 DEF Promise!vars
  <2> QED
    BY <2>2, <2>3
<1>6. ASSUME NEW m \in net, CarryOut(m) PROVE m.write \in Writes /\ Promise!CarryOut(m.write)
  BY <1>6, CarryOutIsPromised DEF IInv, TypeOK
<1>7. ASSUME NEW m \in net, Replay(m) PROVE UNCHANGED Promise!vars
  BY <1>7 DEF Replay, Promise!vars
<1>8. ASSUME NEW k \in kept, Expire(k) PROVE UNCHANGED Promise!vars
  BY <1>8 DEF Expire, Promise!vars
<1>9. CASE Tick
  BY <1>9 DEF Tick, Promise!Tick, Promise!Next
<1> QED
  BY <1>1, <1>2, <1>3, <1>4, <1>5, <1>6, <1>7, <1>8, <1>9 DEF Next, Promise!Next

(* With distinct keys, retries under any losses, delays and restarts do    *)
(* what IdempotentWrites promises.                                         *)
THEOREM RetriesImplementPromise == DistinctKeys => (Spec => RetriesAreIdempotent)
<1> SUFFICES ASSUME DistinctKeys PROVE Spec => RetriesAreIdempotent
  OBVIOUS
<1>1. Init => Promise!Init
  BY PromisedInit
<1>2. IInv /\ AnswersAreOwn /\ [Next]_vars => [Promise!Next]_Promise!vars
  BY NextIsPromised
<1> QED
  BY <1>1, <1>2, KeysAreGuarded, OwnAnswers, PTL DEF Spec, RetriesAreIdempotent, Promise!Spec
=============================================================================

-------------------------- MODULE AiGateway_proofs --------------------------
(***************************************************************************)
(* What AiGateway promises for any number of concurrent calls, any         *)
(* arguments and any environments an operator switches between: what is    *)
(* posted is redacted and whole, the usage log agrees with the results,    *)
(* and no HTTP client stays open.                                          *)
(***************************************************************************)
EXTENDS AiGateway, NaturalsInduction, WellFoundedInduction, TLAPS

Phases   == {"start", "posting", "answered", "done"}
Outcomes == {"none", "result", "unavailable", "rate_limited", "bad_response",
             "untyped", "cancelled"}

(* No body is taken for a status.                                          *)
LEMMA BodiesAreNoStatus == \A body \in Bodies : body \notin {"none", "429", "error"}
BY BodiesAssumption DEF BodyKinds

(* The catalogue has a model for each provider.                            *)
LEMMA DefaultModelType ==
  ASSUME NEW p \in Providers PROVE default_model(p) \in DOMAIN Models
<1>1. \E m \in DOMAIN Models : Models[m] = p
  <2>1. DOMAIN Models = {"gpt", "llama", "claude"}
    BY DEF Models
  <2>2. Models["gpt"] = "openai" /\ Models["llama"] = "groq" /\ Models["claude"] = "anthropic"
    BY DEF Models
  <2> QED
    BY <2>1, <2>2 DEF Providers
<1> QED
  BY <1>1 DEF default_model

LEMMA InitIInv == Init => IInv
<1> SUFFICES ASSUME Init PROVE IInv
  OBVIOUS
<1>1. TypeOK
  BY DEF Init, TypeOK, NoRequest, NoResult
<1>2. AnsweredIsBilled /\ CallsEndOnce /\ PostedIsResolved
  BY DEF Init, AnsweredIsBilled, CallsEndOnce, PostedIsResolved
<1>3. UsageIsAccounted /\ NoClientStaysOpen
  BY DEF Init, UsageIsAccounted, NoClientStaysOpen
<1> QED
  BY <1>1, <1>2, <1>3 DEF IInv
-----------------------------------------------------------------------------
(* The parts of UsageIsAccounted: what an entry says, what a result needs. *)
EntryIsOfServed(e) ==
  /\ e.call \in billed
  /\ e.provider = sent[e.call].provider /\ e.model = sent[e.call].model
  /\ \/ outcome[e.call] = "result"
     \/ outcome[e.call] = "untyped" /\ e.tokens = Garbage

ResultIsLogged(c) ==
  \E e \in log : /\ {f \in log : f.call = c} = {e}
                 /\ AsInt(e.tokens) = result[c].tokens

(* What the end of a call is: it is done, with its outcome, and the others *)
(* are where they were.                                                    *)
LEMMA EndOfOne ==
  ASSUME TypeOK, NEW c \in Calls, NEW what \in Outcomes, End(c, what)
  PROVE  /\ pc' \in [Calls -> Phases] /\ outcome' \in [Calls -> Outcomes]
         /\ pc'[c] = "done" /\ outcome'[c] = what
         /\ \A d \in Calls \ {c} : pc'[d] = pc[d] /\ outcome'[d] = outcome[d]
BY DEF TypeOK, End, Phases, Outcomes

(* A call that ends before its usage is logged leaves no trace in the log. *)
LEMMA FailureKeepsIInv ==
  ASSUME IInv, NEW c \in Calls, NEW what \in Outcomes \ {"none", "result"},
         what = "untyped" => reply[c] # "garbage_count",
         pc[c] # "done", End(c, what), open' = open \ {c},
         billed' \in {billed, billed \cup {c}},
         UNCHANGED <<env, args, sent, reply, result, log>>
  PROVE  IInv'
<1>1. TypeOK'
  BY EndOfOne DEF IInv, TypeOK, Phases, Outcomes
<1>2. AnsweredIsBilled'
  BY EndOfOne DEF IInv, AnsweredIsBilled
<1>3. CallsEndOnce'
  BY EndOfOne DEF IInv, CallsEndOnce
<1>4. PostedIsResolved'
  BY EndOfOne DEF IInv, PostedIsResolved
<1>5. outcome[c] = "none"
  BY DEF IInv, CallsEndOnce
<1>6. UsageIsAccounted'
  <2>1. \A e \in log : e.call \in Calls /\ e.call # c
    BY <1>5 DEF IInv, TypeOK, UsageIsAccounted
  <2>2. \A e \in log' : EntryIsOfServed(e)'
    BY <2>1, EndOfOne DEF IInv, UsageIsAccounted, EntryIsOfServed
  <2>3. \A d \in Calls : outcome'[d] = "result" => ResultIsLogged(d)'
    BY EndOfOne DEF IInv, UsageIsAccounted, ResultIsLogged
  <2>4. \A d \in Calls : outcome'[d] = "untyped" /\ reply'[d] = "garbage_count" =>
          \E e \in log' : e.call = d
    BY EndOfOne DEF IInv, UsageIsAccounted
  <2> QED
    BY <2>2, <2>3, <2>4 DEF UsageIsAccounted, EntryIsOfServed, ResultIsLogged
<1>7. NoClientStaysOpen'
  BY EndOfOne DEF IInv, NoClientStaysOpen
<1> QED
  BY <1>1, <1>2, <1>3, <1>4, <1>6, <1>7 DEF IInv

(* The call that starts is one whose provider has a key.                   *)
LEMMA PostKeepsIInv == ASSUME IInv, NEW c \in Calls, Post(c) PROVE IInv'
<1> DEFINE p == chosen(args[c])
           b == Body(p, payload_messages(args[c]))
           request == [provider |-> p, model |-> chosen_model(args[c]),
                       system |-> b.system, messages |-> b.messages]
<1>1. /\ pc[c] = "start" /\ Resolvable(args[c]) /\ sent' = [sent EXCEPT ![c] = request]
      /\ open' = open \cup {c} /\ pc' = [pc EXCEPT ![c] = "posting"]
      /\ UNCHANGED <<env, args, reply, billed, outcome, result, log>>
  BY DEF Post
<1>2. p \in Providers
  BY <1>1, EnvironmentsAssumption DEF Resolvable, IInv, TypeOK, Environment
<1>3. chosen_model(args[c]) \in DOMAIN Models
  BY <1>2, DefaultModelType, ArgumentsAssumption, EnvironmentsAssumption
  DEF chosen_model, IInv, TypeOK, Environment, Arguments
<1>4. request.provider \in Providers /\ request.model \in DOMAIN Models
  BY <1>2, <1>3
<1> HIDE DEF request
<1>5. TypeOK'
  BY <1>1, <1>4 DEF IInv, TypeOK
<1>6. AnsweredIsBilled'
  BY <1>1 DEF IInv, TypeOK, AnsweredIsBilled
<1>7. CallsEndOnce'
  BY <1>1 DEF IInv, TypeOK, CallsEndOnce
<1>8. PostedIsResolved'
  BY <1>1, <1>4 DEF IInv, TypeOK, PostedIsResolved
<1>9. outcome[c] = "none"
  BY <1>1 DEF IInv, CallsEndOnce
<1>10. UsageIsAccounted'
  BY <1>1, <1>9 DEF IInv, TypeOK, UsageIsAccounted
<1>11. NoClientStaysOpen'
  BY <1>1 DEF IInv, TypeOK, NoClientStaysOpen
<1> QED
  BY <1>5, <1>6, <1>7, <1>8, <1>10, <1>11 DEF IInv

LEMMA ServeKeepsIInv == ASSUME IInv, NEW c \in Calls, Serve(c) PROVE IInv'
<1>1. /\ pc[c] = "posting" /\ pc' = [pc EXCEPT ![c] = "answered"]
      /\ UNCHANGED <<env, args, sent, open, outcome, result, log>>
  BY DEF Serve
<1>2. PICK what \in Bodies \cup {"429", "error"} :
        /\ reply' = [reply EXCEPT ![c] = what]
        /\ billed' = IF what \in Bodies THEN billed \cup {c} ELSE billed
  BY DEF Serve
<1>3. TypeOK'
  BY <1>1, <1>2 DEF IInv, TypeOK
<1>4. AnsweredIsBilled'
  BY <1>1, <1>2 DEF IInv, TypeOK, AnsweredIsBilled
<1>5. CallsEndOnce'
  BY <1>1 DEF IInv, TypeOK, CallsEndOnce
<1>6. PostedIsResolved'
  BY <1>1 DEF IInv, TypeOK, PostedIsResolved
<1>7. UsageIsAccounted'
  <2>1. outcome[c] = "none" /\ \A d \in Calls \ {c} : reply'[d] = reply[d]
    BY <1>1, <1>2 DEF IInv, TypeOK, CallsEndOnce
  <2> QED
    BY <1>1, <1>2, <2>1 DEF IInv, UsageIsAccounted
<1>8. NoClientStaysOpen'
  BY <1>1 DEF IInv, TypeOK, NoClientStaysOpen
<1> QED
  BY <1>3, <1>4, <1>5, <1>6, <1>7, <1>8 DEF IInv

(* int() makes a number of every raw count it does not raise at.           *)
LEMMA CountTypes ==
  ASSUME NEW body
  PROVE  /\ Raw(body) \in RawCounts
         /\ Raw(body) # Garbage => AsInt(Raw(body)) \in {0, Tokens}
         /\ Raw(body) = Garbage <=> body = "garbage_count"
BY RawCountsAssumption DEF Raw, RawCounts, AsInt

(* The call whose answer can be read logs it, once, as it was sent and as  *)
(* it came, whether int() then raises or gives its result.                 *)
LEMMA LoggingKeepsIInv ==
  ASSUME IInv, NEW c \in Calls, pc[c] = "answered", reply[c] \in Bodies, c \in billed,
         log' = log \cup {Entry(c, reply[c])},
         NEW what \in {"result", "untyped"}, End(c, what), open' = open \ {c},
         what = "untyped" => Raw(reply[c]) = Garbage,
         what = "result" => result'[c].tokens = AsInt(Raw(reply[c])),
         result' \in [Calls -> [text : {"none", "some", "null"}, tokens : {0, Tokens}]],
         \A d \in Calls \ {c} : result'[d] = result[d],
         UNCHANGED <<env, args, sent, reply, billed>>
  PROVE  IInv'
<1> DEFINE entry == [call |-> c, provider |-> sent[c].provider,
                     model |-> sent[c].model, tokens |-> Raw(reply[c])]
<1>1. log' = log \cup {entry}
  BY DEF Entry
<1>2. entry \in [call : Calls, provider : Providers, model : DOMAIN Models,
                 tokens : RawCounts]
  BY CountTypes DEF IInv, PostedIsResolved
<1>3. /\ entry.call = c /\ entry.tokens = Raw(reply[c])
      /\ entry.provider = sent[c].provider /\ entry.model = sent[c].model
  OBVIOUS
<1> HIDE DEF entry
<1>4. what \in Outcomes /\ TypeOK
  BY DEF Outcomes, IInv
<1>5. TypeOK'
  <2>1. pc' \in [Calls -> Phases] /\ outcome' \in [Calls -> Outcomes]
    BY <1>4, EndOfOne
  <2> QED
    BY <1>1, <1>2, <2>1 DEF IInv, TypeOK, Phases, Outcomes
<1>6. AnsweredIsBilled'
  BY <1>4, EndOfOne DEF IInv, AnsweredIsBilled
<1>7. CallsEndOnce'
  BY <1>4, EndOfOne DEF IInv, CallsEndOnce
<1>8. PostedIsResolved'
  BY <1>4, EndOfOne DEF IInv, PostedIsResolved
<1>9. NoClientStaysOpen'
  BY <1>4, EndOfOne DEF IInv, NoClientStaysOpen
<1>10. \A e \in log : e.call \in Calls /\ e.call # c /\ EntryIsOfServed(e)
  <2>1. outcome[c] = "none"
    BY DEF IInv, CallsEndOnce
  <2> QED
    BY <2>1 DEF IInv, TypeOK, UsageIsAccounted, EntryIsOfServed
<1>11. ASSUME NEW e \in log' PROVE EntryIsOfServed(e)'
  <2>1. CASE e \in log
    BY <1>4, <1>10, <2>1, EndOfOne DEF EntryIsOfServed
  <2>2. CASE e = entry
    BY <1>3, <1>4, <2>2, EndOfOne DEF EntryIsOfServed
  <2> QED
    BY <1>1, <1>11, <2>1, <2>2
<1>12. ASSUME NEW d \in Calls, outcome'[d] = "result" PROVE ResultIsLogged(d)'
  <2>1. CASE d = c
    <3>1. {e \in log' : e.call = c} = {entry}
      BY <1>1, <1>3, <1>10
    <3>2. what = "result"
      BY <1>4, <1>12, <2>1, EndOfOne
    <3> QED
      BY <1>1, <1>3, <2>1, <3>1, <3>2 DEF ResultIsLogged
  <2>2. CASE d # c
    <3>1. {e \in log' : e.call = d} = {e \in log : e.call = d}
      BY <1>1, <1>3, <2>2
    <3>2. outcome[d] = "result" /\ result'[d] = result[d]
      BY <1>4, <1>12, <2>2, EndOfOne
    <3>3. ResultIsLogged(d)
      BY <3>2 DEF IInv, UsageIsAccounted, ResultIsLogged
    <3> QED
      BY <1>1, <3>1, <3>2, <3>3 DEF ResultIsLogged
  <2> QED
    BY <2>1, <2>2
<1>13. ASSUME NEW d \in Calls, outcome'[d] = "untyped", reply'[d] = "garbage_count"
       PROVE  \E e \in log' : e.call = d
  <2>1. CASE d = c
    BY <1>1, <1>3, <2>1
  <2>2. CASE d # c
    <3>1. outcome[d] = "untyped" /\ reply[d] = "garbage_count"
      BY <1>4, <1>13, <2>2, EndOfOne
    <3> QED
      BY <1>1, <3>1 DEF IInv, UsageIsAccounted
  <2> QED
    BY <2>1, <2>2
<1>14. UsageIsAccounted'
  BY <1>11, <1>12, <1>13 DEF UsageIsAccounted, EntryIsOfServed, ResultIsLogged
<1> QED
  BY <1>5, <1>6, <1>7, <1>8, <1>9, <1>14 DEF IInv

LEMMA FinishKeepsIInv == ASSUME IInv, NEW c \in Calls, Finish(c) PROVE IInv'
<1> DEFINE what == CASE reply[c] = "429"   -> "rate_limited"
                     [] reply[c] = "error" -> "bad_response"
                     [] OTHER              -> Reading(sent[c].provider, reply[c])
           count == Raw(reply[c])
           text == IF reply[c] = "null_text" THEN "null" ELSE "some"
<1>1. /\ pc[c] = "answered" /\ open' = open \ {c}
      /\ UNCHANGED <<env, args, sent, reply, billed>>
      /\ IF what # "parsed" THEN End(c, what) /\ UNCHANGED <<log, result>>
         ELSE /\ log' = log \cup {Entry(c, reply[c])}
              /\ IF count = Garbage THEN End(c, "untyped") /\ UNCHANGED result
                 ELSE /\ End(c, "result")
                      /\ result' = [result EXCEPT ![c] =
                                      [text |-> text, tokens |-> AsInt(count)]]
  BY DEF Finish
<1>2. /\ what \in {"rate_limited", "bad_response", "untyped", "parsed"}
      /\ what = "parsed" => reply[c] \notin {"429", "error"}
      /\ reply[c] = "garbage_count" => what = "parsed"
  BY DEF Reading
<1>3. CASE what = "parsed"
  <2>1. reply[c] \in Bodies /\ c \in billed
    BY <1>1, <1>2, <1>3 DEF IInv, AnsweredIsBilled
  <2>2. text \in {"some", "null"} /\ TypeOK
    BY DEF IInv
  <2> HIDE DEF what, text
  <2>3. CASE count = Garbage
    BY <1>1, <1>3, <2>1, <2>2, <2>3, LoggingKeepsIInv DEF TypeOK
  <2>4. CASE count # Garbage
    <3>1. /\ log' = log \cup {Entry(c, reply[c])} /\ End(c, "result")
          /\ result' = [result EXCEPT ![c] = [text |-> text, tokens |-> AsInt(count)]]
      BY <1>1, <1>3, <2>4
    <3>2. /\ result' \in [Calls -> [text : {"none", "some", "null"}, tokens : {0, Tokens}]]
          /\ result'[c].tokens = AsInt(count)
          /\ \A d \in Calls \ {c} : result'[d] = result[d]
      BY <2>2, <2>4, <3>1, CountTypes DEF TypeOK
    <3> QED
      BY <1>1, <2>1, <3>1, <3>2, LoggingKeepsIInv
  <2> QED
    BY <2>3, <2>4
<1>4. CASE what # "parsed"
  <2>1. what \in Outcomes \ {"none", "result"} /\ reply[c] # "garbage_count"
    BY <1>2, <1>4 DEF Outcomes
  <2> HIDE DEF what, text, count
  <2> QED
    BY <1>1, <1>4, <2>1, FailureKeepsIInv
<1> QED
  BY <1>3, <1>4

(* The environment matters to no call that has been posted.                *)
LEMMA ReconfigureKeepsIInv ==
  ASSUME IInv, env' \in Environments,
         UNCHANGED <<args, pc, sent, reply, open, billed, outcome, result, log>>
  PROVE  IInv'
<1>1. TypeOK'
  BY DEF IInv, TypeOK
<1> QED
  BY <1>1 DEF IInv, AnsweredIsBilled, CallsEndOnce, PostedIsResolved, UsageIsAccounted,
     NoClientStaysOpen

LEMMA NextIInv == IInv /\ [Next]_vars => IInv'
<1> SUFFICES ASSUME IInv, [Next]_vars PROVE IInv'
  OBVIOUS
<1> USE DEF Outcomes
<1>1. ASSUME NEW c \in Calls, Unconfigured(c) PROVE IInv'
  <2>1. open' = open \ {c}
    BY <1>1 DEF Unconfigured, IInv, NoClientStaysOpen
  <2> QED
    BY <1>1, <2>1, FailureKeepsIInv DEF Unconfigured
<1>2. ASSUME NEW c \in Calls, Post(c) PROVE IInv'
  BY <1>2, PostKeepsIInv
<1>3. ASSUME NEW c \in Calls, Serve(c) PROVE IInv'
  BY <1>3, ServeKeepsIInv
<1>4. ASSUME NEW c \in Calls, TransportError(c) PROVE IInv'
  BY <1>4, FailureKeepsIInv DEF TransportError
<1>5. ASSUME NEW c \in Calls, Cancel(c) PROVE IInv'
  BY <1>5, FailureKeepsIInv DEF Cancel
<1>6. ASSUME NEW c \in Calls, Finish(c) PROVE IInv'
  BY <1>6, FinishKeepsIInv
<1>7. CASE Reconfigure \/ UNCHANGED vars
  BY <1>7, ReconfigureKeepsIInv DEF Reconfigure, vars, IInv, TypeOK
<1> QED
  BY <1>1, <1>2, <1>3, <1>4, <1>5, <1>6, <1>7 DEF Next

(* The invariant, for any number of calls under any environments.          *)
THEOREM GatewayInvariant == Spec => []IInv
BY InitIInv, NextIInv, PTL DEF Spec

(* Every result is logged once, as what was called and with the number it  *)
(* is the int of, and what is logged without a result raised at that       *)
(* number: UsageIsAccounted.                                               *)
THEOREM UsageAgrees == Spec => []UsageIsAccounted
<1>1. IInv => UsageIsAccounted
  BY DEF IInv
<1> QED
  BY <1>1, GatewayInvariant, PTL

(* Answers, errors and cancellations close the client: NoClientStaysOpen.  *)
THEOREM ClientsAreClosed == Spec => []NoClientStaysOpen
<1>1. IInv => NoClientStaysOpen
  BY DEF IInv
<1> QED
  BY <1>1, GatewayInvariant, PTL
-----------------------------------------------------------------------------
(* The loop over the messages, turn by turn.                               *)

LEMMA LeastNumber ==
  ASSUME NEW S, S \subseteq Nat, S # {}
  PROVE  \E n \in S : \A m \in S : ~(m < n)
<1> DEFINE less == OpToRel(<, Nat)
<1>1. IsWellFoundedOn(less, Nat)
  BY NatLessThanWellFounded
<1>2. \A m, n \in Nat : <<m, n>> \in less <=> m < n
  BY DEF OpToRel
<1> HIDE DEF less
<1>3. PICK n \in S : \A m \in S : ~(<<m, n>> \in less)
  BY <1>1, WFMin
<1> QED
  BY <1>2, <1>3

(* g records the loop's first n turns.                                     *)
Records(g, ms, n) ==
  g = [k \in 0 .. n |-> IF k = 0 THEN Unsplit ELSE Take(g[k - 1], ms[k])]

LEMMA LoopRuns ==
  ASSUME NEW ms, NEW n \in Nat PROVE \E g : Records(g, ms, n)
<1> DEFINE Fails == {k \in Nat : ~ \E g : Records(g, ms, k)}
<1> SUFFICES ASSUME Fails # {} PROVE FALSE
  OBVIOUS
<1>1. PICK k \in Fails : \A l \in Fails : ~(l < k)
  BY LeastNumber
<1>2. CASE k = 0
  <2> DEFINE g == [l \in 0 .. 0 |-> Unsplit]
  <2>1. g = [l \in 0 .. 0 |-> IF l = 0 THEN Unsplit ELSE Take(g[l - 1], ms[l])]
    OBVIOUS
  <2>2. Records(g, ms, 0)
    BY <2>1 DEF Records
  <2> QED
    BY <1>1, <1>2, <2>2
<1>3. CASE k # 0
  <2>1. k - 1 \in Nat /\ k \in Nat /\ k - 1 < k
    BY <1>3
  <2>2. k - 1 \notin Fails
    BY <1>1, <2>1
  <2>3. PICK g : Records(g, ms, k - 1)
    BY <2>1, <2>2
  <2> DEFINE h == [l \in 0 .. k |-> IF l = k THEN Take(g[k - 1], ms[k]) ELSE g[l]]
  <2>4. \A l \in 0 .. k - 1 : g[l] = IF l = 0 THEN Unsplit ELSE Take(g[l - 1], ms[l])
    BY <2>3 DEF Records
  <2>5. ASSUME NEW l \in 0 .. k
        PROVE  h[l] = IF l = 0 THEN Unsplit ELSE Take(h[l - 1], ms[l])
    <3>1. CASE l = k
      BY <2>1, <3>1
    <3>2. CASE l # k
      <4>1. l \in 0 .. k - 1 /\ (l # 0 => l - 1 \in 0 .. k - 1)
        BY <2>1, <3>2
      <4>2. h[l] = g[l] /\ (l # 0 => h[l - 1] = g[l - 1])
        BY <2>1, <3>2, <4>1
      <4> HIDE DEF h
      <4> QED
        BY <2>4, <4>1, <4>2
    <3> QED
      BY <3>1, <3>2
  <2>6. h = [l \in 0 .. k |-> h[l]]
    OBVIOUS
  <2> HIDE DEF h
  <2>7. Records(h, ms, k)
    BY <2>5, <2>6 DEF Records
  <2> QED
    BY <1>1, <2>7
<1> QED
  BY <1>2, <1>3

LEMMA SplitIsRecorded ==
  ASSUME NEW ms \in Seq(Message)
  PROVE  \E g : /\ Split(ms) = g[Len(ms)] /\ g[0] = Unsplit
                /\ \A k \in 1 .. Len(ms) : g[k] = Take(g[k - 1], ms[k])
<1> DEFINE loop == CHOOSE g : g = [k \in 0 .. Len(ms) |->
                     IF k = 0 THEN Unsplit ELSE Take(g[k - 1], ms[k])]
<1>1. Len(ms) \in Nat
  OBVIOUS
<1>2. \E g : g = [k \in 0 .. Len(ms) |-> IF k = 0 THEN Unsplit ELSE Take(g[k - 1], ms[k])]
  BY <1>1, LoopRuns DEF Records
<1>3. loop = [k \in 0 .. Len(ms) |-> IF k = 0 THEN Unsplit ELSE Take(loop[k - 1], ms[k])]
  BY <1>2
<1>4. Split(ms) = loop[Len(ms)]
  BY DEF Split
<1> HIDE DEF loop
<1>5. \A k \in 0 .. Len(ms) : loop[k] = IF k = 0 THEN Unsplit ELSE Take(loop[k - 1], ms[k])
  BY <1>3
<1>6. loop[0] = Unsplit /\ \A k \in 1 .. Len(ms) : loop[k] = Take(loop[k - 1], ms[k])
  BY <1>1, <1>5
<1> QED
  BY <1>4, <1>6

(* What the loop has made of the first n messages.                         *)
TurnsUpTo(ms, n) == {i \in 1 .. n : ~IsSystem(ms[i])}

InOrder(place, ms, n, kept) ==
  /\ place \in Surjection(TurnsUpTo(ms, n), DOMAIN kept)
  /\ \A i, j \in TurnsUpTo(ms, n) : i < j => place[i] < place[j]
  /\ \A i \in TurnsUpTo(ms, n) : kept[place[i]] = ms[i]

SplitSoFar(split, ms, n) ==
  /\ split \in [system : Texts, messages : Seq(Message)]
  /\ split.system = "empty" \/ \E i \in 1 .. n : split.system = ms[i].content
  /\ \E place : InOrder(place, ms, n, split.messages)

LEMMA LoopKeepsOrder ==
  ASSUME NEW ms \in Seq(Message), NEW n \in 1 .. Len(ms), NEW split,
         SplitSoFar(split, ms, n - 1)
  PROVE  SplitSoFar(Take(split, ms[n]), ms, n)
<1>1. ms[n] \in Message /\ n \in Nat /\ n - 1 \in Nat
  OBVIOUS
<1>2. PICK place : InOrder(place, ms, n - 1, split.messages)
  BY DEF SplitSoFar
<1>3. /\ split \in [system : Texts, messages : Seq(Message)]
      /\ split.system = "empty" \/ \E i \in 1 .. n - 1 : split.system = ms[i].content
      /\ split.messages \in Seq(Message)
  BY DEF SplitSoFar
<1>4. CASE IsSystem(ms[n])
  <2>1. Take(split, ms[n]) = [split EXCEPT !.system = ms[n].content]
    BY <1>4 DEF Take
  <2>2. /\ Take(split, ms[n]) \in [system : Texts, messages : Seq(Message)]
        /\ Take(split, ms[n]).system = ms[n].content
        /\ Take(split, ms[n]).messages = split.messages
    BY <1>1, <1>3, <2>1 DEF Message
  <2>3. TurnsUpTo(ms, n) = TurnsUpTo(ms, n - 1)
    BY <1>1, <1>4 DEF TurnsUpTo
  <2>4. InOrder(place, ms, n, split.messages)
    BY <1>2, <2>3 DEF InOrder
  <2> QED
    BY <1>1, <2>2, <2>4 DEF SplitSoFar
<1>5. CASE ~IsSystem(ms[n])
  <2> DEFINE kept == Append(split.messages, ms[n])
             last == Len(split.messages) + 1
             next == [i \in TurnsUpTo(ms, n) |-> IF i = n THEN last ELSE place[i]]
  <2>1. /\ Take(split, ms[n]) \in [system : Texts, messages : Seq(Message)]
        /\ Take(split, ms[n]).system = split.system
        /\ Take(split, ms[n]).messages = kept
    <3>1. kept \in Seq(Message) /\ split.messages \in Seq(Message)
      BY <1>1, <1>3
    <3>2. Take(split, ms[n]) = [split EXCEPT !.messages = kept]
      BY <1>5 DEF Take
    <3> HIDE DEF kept
    <3> QED
      BY <1>3, <3>1, <3>2
  <2>2. TurnsUpTo(ms, n) = TurnsUpTo(ms, n - 1) \cup {n} /\ n \notin TurnsUpTo(ms, n - 1)
    BY <1>1, <1>5 DEF TurnsUpTo
  <2>3. /\ DOMAIN split.messages = 1 .. last - 1 /\ DOMAIN kept = 1 .. last
        /\ last \in Nat \ {0} /\ kept[last] = ms[n]
        /\ \A i \in 1 .. last - 1 : kept[i] = split.messages[i]
    BY <1>1, <1>3
  <2>4. /\ place \in [TurnsUpTo(ms, n - 1) -> 1 .. last - 1]
        /\ \A j \in 1 .. last - 1 : \E i \in TurnsUpTo(ms, n - 1) : place[i] = j
        /\ \A i, j \in TurnsUpTo(ms, n - 1) : i < j => place[i] < place[j]
        /\ \A i \in TurnsUpTo(ms, n - 1) : split.messages[place[i]] = ms[i]
    BY <1>2, <2>3 DEF InOrder, Surjection
  <2>5. \A i \in TurnsUpTo(ms, n - 1) : i \in Nat /\ i < n
    BY <1>1 DEF TurnsUpTo
  <2> HIDE DEF kept, last
  <2>6. /\ next[n] = last
        /\ \A i \in TurnsUpTo(ms, n - 1) : next[i] = place[i] /\ place[i] \in 1 .. last - 1
    BY <2>2, <2>4
  <2>7. next \in [TurnsUpTo(ms, n) -> 1 .. last]
    BY <2>2, <2>3, <2>4
  <2> HIDE DEF next
  <2>8. \A j \in 1 .. last : \E i \in TurnsUpTo(ms, n) : next[i] = j
    <3> SUFFICES ASSUME NEW j \in 1 .. last PROVE \E i \in TurnsUpTo(ms, n) : next[i] = j
      OBVIOUS
    <3>1. CASE j = last
      BY <2>2, <2>6, <3>1
    <3>2. CASE j # last
      <4>1. j \in 1 .. last - 1
        BY <2>3, <3>2
      <4>2. PICK i \in TurnsUpTo(ms, n - 1) : place[i] = j
        BY <2>4, <4>1
      <4> QED
        BY <2>2, <2>6, <4>2
    <3> QED
      BY <3>1, <3>2
  <2>9. \A i, j \in TurnsUpTo(ms, n) : i < j => next[i] < next[j]
    <3> SUFFICES ASSUME NEW i \in TurnsUpTo(ms, n), NEW j \in TurnsUpTo(ms, n), i < j
                 PROVE  next[i] < next[j]
      OBVIOUS
    <3>1. i \in TurnsUpTo(ms, n - 1)
      BY <1>1, <2>2, <2>5
    <3>2. CASE j = n
      <4>1. next[i] \in 1 .. last - 1 /\ next[j] = last
        BY <2>6, <3>1, <3>2
      <4> QED
        BY <2>3, <4>1
    <3>3. CASE j # n
      BY <2>2, <2>4, <2>6, <3>1, <3>3
    <3> QED
      BY <3>2, <3>3
  <2>10. \A i \in TurnsUpTo(ms, n) : kept[next[i]] = ms[i]
    BY <2>2, <2>3, <2>4, <2>6
  <2>11. InOrder(next, ms, n, kept)
    BY <2>3, <2>7, <2>8, <2>9, <2>10 DEF InOrder, Surjection
  <2>12. split.system = "empty" \/ \E i \in 1 .. n : split.system = ms[i].content
    BY <1>1, <1>3
  <2> QED
    BY <2>1, <2>11, <2>12 DEF SplitSoFar
<1> QED
  BY <1>4, <1>5

LEMMA SplitKeepsOrder ==
  ASSUME NEW ms \in Seq(Message) PROVE SplitSoFar(Split(ms), ms, Len(ms))
<1>1. PICK g : /\ Split(ms) = g[Len(ms)] /\ g[0] = Unsplit
               /\ \A k \in 1 .. Len(ms) : g[k] = Take(g[k - 1], ms[k])
  BY SplitIsRecorded
<1>2. Len(ms) \in Nat
  OBVIOUS
<1> DEFINE Fails == {k \in 0 .. Len(ms) : ~SplitSoFar(g[k], ms, k)}
<1>3. Fails = {}
  <2> SUFFICES ASSUME Fails # {} PROVE FALSE
    OBVIOUS
  <2>1. Fails \subseteq Nat
    BY <1>2
  <2>2. PICK k \in Fails : \A l \in Fails : ~(l < k)
    BY <2>1, LeastNumber
  <2>3. CASE k = 0
    <3>1. TurnsUpTo(ms, 0) = {} /\ DOMAIN Unsplit.messages = {}
      BY DEF TurnsUpTo, Unsplit
    <3>2. InOrder(<<>>, ms, 0, Unsplit.messages)
      BY <3>1 DEF InOrder, Surjection
    <3>3. Unsplit \in [system : Texts, messages : Seq(Message)] /\ Unsplit.system = "empty"
      BY DEF Unsplit, Texts
    <3> QED
      BY <1>1, <2>2, <2>3, <3>2, <3>3 DEF SplitSoFar
  <2>4. CASE k # 0
    <3>1. k \in 1 .. Len(ms) /\ k - 1 \in 0 .. Len(ms) /\ k - 1 < k
      BY <1>2, <2>2, <2>4
    <3>2. SplitSoFar(g[k - 1], ms, k - 1)
      BY <2>2, <3>1
    <3> QED
      BY <1>1, <2>2, <3>1, <3>2, LoopKeepsOrder
  <2> QED
    BY <2>3, <2>4
<1> QED
  BY <1>1, <1>2, <1>3

-----------------------------------------------------------------------------
(* What is posted.                                                         *)

Redacted(a) == [i \in DOMAIN a.messages |->
                  [a.messages[i] EXCEPT !.content = redacted(a, @)]]

LEMMA RedactedType ==
  ASSUME NEW a \in Arguments
  PROVE  /\ \A t \in Texts : redacted(a, t) \in Texts /\ (a.redact => redacted(a, t) # "pii")
         /\ a.messages \in Seq(Message) /\ Redacted(a) \in Seq(Message)
         /\ Len(Redacted(a)) = Len(a.messages)
         /\ \A i \in 1 .. Len(a.messages) :
              /\ Redacted(a)[i] = [a.messages[i] EXCEPT !.content = redacted(a, @)]
              /\ Redacted(a)[i].role = a.messages[i].role
              /\ a.redact => Redacted(a)[i].content # "pii"
<1>1. \A t \in Texts : redacted(a, t) \in Texts /\ (a.redact => redacted(a, t) # "pii")
  BY DEF redacted, Texts
<1>2. a.messages \in Seq(Message)
  BY ConversationsAssumption DEF Arguments
<1>3. ASSUME NEW i \in 1 .. Len(a.messages)
      PROVE  /\ a.messages[i] \in Message
             /\ [a.messages[i] EXCEPT !.content = redacted(a, @)] \in Message
             /\ [a.messages[i] EXCEPT !.content = redacted(a, @)].role = a.messages[i].role
             /\ a.redact => [a.messages[i] EXCEPT !.content = redacted(a, @)].content # "pii"
  <2>1. a.messages[i] \in Message
    BY <1>2
  <2> QED
    BY <1>1, <2>1 DEF Message
<1>4. Redacted(a) = [i \in 1 .. Len(a.messages) |->
                       [a.messages[i] EXCEPT !.content = redacted(a, @)]]
  BY <1>2 DEF Redacted
<1>5. Redacted(a) \in [1 .. Len(a.messages) -> Message]
  BY <1>3, <1>4
<1>6. Redacted(a) \in Seq(Message) /\ Len(Redacted(a)) = Len(a.messages)
  BY <1>2, <1>5
<1> QED
  BY <1>1, <1>2, <1>3, <1>4, <1>6

(* The system argument comes first, when there is one.                     *)
LEMMA PayloadIsShifted ==
  ASSUME NEW a \in Arguments
  PROVE  \E shift \in {0, 1} :
           /\ payload_messages(a) \in Seq(Message)
           /\ Len(payload_messages(a)) = Len(a.messages) + shift
           /\ shift = 1 => /\ IsSystem(payload_messages(a)[1])
                           /\ a.redact => payload_messages(a)[1].content # "pii"
           /\ \A i \in 1 .. Len(a.messages) : payload_messages(a)[i + shift] = Redacted(a)[i]
<1>1. /\ Redacted(a) \in Seq(Message) /\ Len(Redacted(a)) = Len(a.messages)
      /\ a.messages \in Seq(Message)
  BY RedactedType
<1>2. CASE a.system = "empty"
  <2>1. payload_messages(a) = <<>> \o Redacted(a)
    BY <1>2 DEF payload_messages, Redacted
  <2>2. payload_messages(a) = Redacted(a)
    BY <1>1, <2>1
  <2> QED
    BY <1>1, <2>2
<1>3. CASE a.system # "empty"
  <2> DEFINE first == [role |-> "system", content |-> redacted(a, a.system)]
  <2>1. payload_messages(a) = <<first>> \o Redacted(a)
    BY <1>3 DEF payload_messages, Redacted
  <2>2. first \in Message /\ IsSystem(first) /\ (a.redact => first.content # "pii")
    BY RedactedType, SystemTextsAssumption DEF Message, Arguments, IsSystem
  <2> HIDE DEF first
  <2>3. /\ payload_messages(a) \in Seq(Message)
        /\ Len(payload_messages(a)) = Len(a.messages) + 1
        /\ payload_messages(a)[1] = first
        /\ \A i \in 1 .. Len(a.messages) : payload_messages(a)[i + 1] = Redacted(a)[i]
    BY <1>1, <2>1, <2>2
  <2> QED
    BY <2>2, <2>3
<1> QED
  BY <1>2, <1>3

LEMMA PayloadIsRedacted ==
  ASSUME NEW a \in Arguments, a.redact, NEW i \in DOMAIN payload_messages(a)
  PROVE  payload_messages(a)[i].content # "pii"
<1>1. PICK shift \in {0, 1} :
        /\ payload_messages(a) \in Seq(Message)
        /\ Len(payload_messages(a)) = Len(a.messages) + shift
        /\ shift = 1 => payload_messages(a)[1].content # "pii"
        /\ \A k \in 1 .. Len(a.messages) : payload_messages(a)[k + shift] = Redacted(a)[k]
  BY PayloadIsShifted
<1>2. i \in 1 .. Len(a.messages) + shift /\ Len(a.messages) \in Nat
  BY <1>1, RedactedType
<1>3. CASE shift = 1 /\ i = 1
  BY <1>1, <1>3
<1>4. CASE ~(shift = 1 /\ i = 1)
  <2>1. i - shift \in 1 .. Len(a.messages) /\ i = (i - shift) + shift
    BY <1>2, <1>4
  <2>2. payload_messages(a)[i] = Redacted(a)[i - shift]
    BY <1>1, <2>1
  <2>3. Redacted(a)[i - shift].content # "pii"
    BY <2>1, RedactedType
  <2> QED
    BY <2>2, <2>3
<1> QED
  BY <1>3, <1>4

TextsOf(body) == {body.system} \cup {m.content : m \in ToSet(body.messages)}

LEMMA BodyIsRedacted ==
  ASSUME NEW a \in Arguments, a.redact, NEW p
  PROVE  "pii" \notin TextsOf(Body(p, payload_messages(a)))
<1> DEFINE ms == payload_messages(a)
<1>1. ms \in Seq(Message) /\ \A i \in DOMAIN ms : ms[i].content # "pii"
  BY PayloadIsShifted, PayloadIsRedacted
<1> SUFFICES "pii" \notin TextsOf(Body(p, ms))
  OBVIOUS
<1> HIDE DEF ms
<1>2. CASE shape(p) = "openai"
  BY <1>1, <1>2 DEF Body, TextsOf, ToSet
<1>3. CASE shape(p) # "openai"
  <2>1. Body(p, ms) = Split(ms)
    BY <1>3 DEF Body
  <2>2. SplitSoFar(Split(ms), ms, Len(ms))
    BY <1>1, SplitKeepsOrder
  <2>3. Split(ms).system # "pii"
    BY <1>1, <2>2 DEF SplitSoFar
  <2>4. PICK place : InOrder(place, ms, Len(ms), Split(ms).messages)
    BY <2>2 DEF SplitSoFar
  <2>5. ASSUME NEW j \in DOMAIN Split(ms).messages
        PROVE  Split(ms).messages[j].content # "pii"
    <3>1. PICK i \in TurnsUpTo(ms, Len(ms)) : place[i] = j
      BY <2>4 DEF InOrder, Surjection
    <3>2. Split(ms).messages[j] = ms[i] /\ i \in DOMAIN ms
      BY <1>1, <2>4, <3>1 DEF InOrder, TurnsUpTo
    <3> QED
      BY <1>1, <3>2
  <2> QED
    BY <2>1, <2>3, <2>5 DEF TextsOf, ToSet
<1> QED
  BY <1>2, <1>3

(* In the payload the turns have moved by one place, or by none; the split *)
(* for Anthropic keeps their order.                                        *)
Arrived(place, a, is) ==
  /\ place \in Surjection(Turns(a.messages), Turns(is))
  /\ \A i, j \in Turns(a.messages) : i < j => place[i] < place[j]
  /\ \A i \in Turns(a.messages) :
       is[place[i]] = [a.messages[i] EXCEPT !.content = redacted(a, @)]

LEMMA PayloadArrives ==
  ASSUME NEW a \in Arguments
  PROVE  \E place : Arrived(place, a, payload_messages(a))
<1>1. PICK shift \in {0, 1} :
        /\ payload_messages(a) \in Seq(Message)
        /\ Len(payload_messages(a)) = Len(a.messages) + shift
        /\ shift = 1 => IsSystem(payload_messages(a)[1])
        /\ \A k \in 1 .. Len(a.messages) : payload_messages(a)[k + shift] = Redacted(a)[k]
  BY PayloadIsShifted
<1> DEFINE ms == payload_messages(a)
           was == a.messages
           place == [i \in Turns(was) |-> i + shift]
<1>2. /\ DOMAIN was = 1 .. Len(was) /\ Len(was) \in Nat
      /\ DOMAIN ms = 1 .. Len(was) + shift
  BY <1>1, RedactedType
<1>3. \A i \in 1 .. Len(was) :
        /\ ms[i + shift] = [was[i] EXCEPT !.content = redacted(a, @)]
        /\ IsSystem(ms[i + shift]) <=> IsSystem(was[i])
  BY <1>1, RedactedType DEF IsSystem
<1> HIDE DEF ms, was
<1>4. ASSUME NEW i \in Turns(was) PROVE i \in 1 .. Len(was) /\ i + shift \in Turns(ms)
  <2>1. i \in 1 .. Len(was) /\ ~IsSystem(was[i])
    BY <1>2 DEF Turns
  <2>2. i + shift \in 1 .. Len(was) + shift
    BY <1>2, <2>1
  <2>3. ~IsSystem(ms[i + shift])
    BY <1>3, <2>1
  <2> QED
    BY <1>2, <2>1, <2>2, <2>3 DEF Turns
<1>5. ASSUME NEW j \in Turns(ms) PROVE \E i \in Turns(was) : i + shift = j
  <2>1. j \in 1 .. Len(was) + shift /\ ~IsSystem(ms[j])
    BY <1>2 DEF Turns
  <2>2. ~(shift = 1 /\ j = 1)
    BY <1>1, <2>1 DEF ms
  <2>3. j - shift \in 1 .. Len(was) /\ (j - shift) + shift = j
    BY <1>2, <2>1, <2>2
  <2>4. j - shift \in Turns(was)
    BY <1>2, <1>3, <2>1, <2>3 DEF Turns
  <2> QED
    BY <2>3, <2>4
<1>6. place \in Surjection(Turns(was), Turns(ms))
  BY <1>4, <1>5 DEF Surjection
<1>7. \A i, j \in Turns(was) : i < j => place[i] < place[j]
  BY <1>4
<1>8. \A i \in Turns(was) : ms[place[i]] = [was[i] EXCEPT !.content = redacted(a, @)]
  BY <1>3, <1>4
<1>9. Arrived(place, a, ms)
  BY <1>6, <1>7, <1>8 DEF Arrived, was
<1> QED
  BY <1>9 DEF ms

LEMMA BodyArrives ==
  ASSUME NEW a \in Arguments, NEW p
  PROVE  \E place : Arrived(place, a, Body(p, payload_messages(a)).messages)
<1> DEFINE ms == payload_messages(a)
           is == Split(ms).messages
<1>1. PICK sent1 : Arrived(sent1, a, ms)
  BY PayloadArrives
<1>2. ms \in Seq(Message)
  BY PayloadIsShifted
<1> SUFFICES \E place : Arrived(place, a, Body(p, ms).messages)
  OBVIOUS
<1> HIDE DEF ms
<1>3. CASE shape(p) = "openai"
  BY <1>1, <1>3 DEF Body
<1>4. CASE shape(p) # "openai"
  <2>1. Body(p, ms).messages = is
    BY <1>4 DEF Body
  <2>2. PICK split1 : InOrder(split1, ms, Len(ms), is)
    BY <1>2, SplitKeepsOrder DEF SplitSoFar
  <2> HIDE DEF is
  <2>3. TurnsUpTo(ms, Len(ms)) = Turns(ms)
    BY <1>2 DEF TurnsUpTo, Turns
  <2>4. /\ split1 \in [Turns(ms) -> DOMAIN is]
        /\ \A j \in DOMAIN is : \E i \in Turns(ms) : split1[i] = j
        /\ \A i, j \in Turns(ms) : i < j => split1[i] < split1[j]
        /\ \A i \in Turns(ms) : is[split1[i]] = ms[i]
    BY <2>2, <2>3 DEF InOrder, Surjection
  <2>5. Turns(is) = DOMAIN is
    <3>1. ASSUME NEW j \in DOMAIN is PROVE ~IsSystem(is[j])
      <4>1. PICK i \in Turns(ms) : split1[i] = j
        BY <2>4
      <4>2. ~IsSystem(ms[i]) /\ is[j] = ms[i]
        BY <2>4, <4>1 DEF Turns
      <4> QED
        BY <4>2
    <3> QED
      BY <3>1 DEF Turns
  <2>6. /\ sent1 \in [Turns(a.messages) -> Turns(ms)]
        /\ \A j \in Turns(ms) : \E i \in Turns(a.messages) : sent1[i] = j
        /\ \A i, j \in Turns(a.messages) : i < j => sent1[i] < sent1[j]
        /\ \A i \in Turns(a.messages) :
             ms[sent1[i]] = [a.messages[i] EXCEPT !.content = redacted(a, @)]
    BY <1>1 DEF Arrived, Surjection
  <2> DEFINE place == [i \in Turns(a.messages) |-> split1[sent1[i]]]
  <2>7. place \in [Turns(a.messages) -> Turns(is)]
    BY <2>4, <2>5, <2>6
  <2>8. \A j \in Turns(is) : \E i \in Turns(a.messages) : place[i] = j
    <3> SUFFICES ASSUME NEW j \in Turns(is) PROVE \E i \in Turns(a.messages) : place[i] = j
      OBVIOUS
    <3>1. PICK k \in Turns(ms) : split1[k] = j
      BY <2>4, <2>5
    <3>2. PICK i \in Turns(a.messages) : sent1[i] = k
      BY <2>6
    <3> QED
      BY <3>1, <3>2
  <2>9. \A i, j \in Turns(a.messages) : i < j => place[i] < place[j]
    BY <2>4, <2>6
  <2>10. \A i \in Turns(a.messages) :
           is[place[i]] = [a.messages[i] EXCEPT !.content = redacted(a, @)]
    BY <2>4, <2>6
  <2>11. Arrived(place, a, is)
    BY <2>7, <2>8, <2>9, <2>10 DEF Arrived, Surjection
  <2> QED
    BY <2>1, <2>11
<1> QED
  BY <1>3, <1>4

-----------------------------------------------------------------------------
(* A request is built when it is posted, and never after.                  *)
LEMMA RequestsAreBuiltOnce ==
  ASSUME IInv, [Next]_vars, NEW c \in Calls
  PROVE  /\ args' = args
         /\ \/ sent'[c] = sent[c] /\ (pc'[c] \in {"posting", "answered"} =>
                                      pc[c] \in {"posting", "answered"})
            \/ \E p : LET b == Body(p, payload_messages(args[c]))
                      IN  sent'[c].system = b.system /\ sent'[c].messages = b.messages
<1> DEFINE Kept == /\ args' = args
                   /\ sent'[c] = sent[c]
                   /\ pc'[c] \in {"posting", "answered"} => pc[c] \in {"posting", "answered"}
<1> USE DEF IInv, TypeOK
<1>1. ASSUME NEW d \in Calls, Post(d)
      PROVE  \/ Kept
             \/ /\ args' = args
                /\ LET b == Body(chosen(args[c]), payload_messages(args[c]))
                   IN  sent'[c].system = b.system /\ sent'[c].messages = b.messages
  BY <1>1 DEF Post
<1>2. ASSUME NEW d \in Calls,
             Unconfigured(d) \/ Serve(d) \/ TransportError(d) \/ Cancel(d) \/ Finish(d)
      PROVE  Kept
  BY <1>2 DEF Unconfigured, Serve, TransportError, Cancel, Finish, End
<1>3. CASE Reconfigure \/ UNCHANGED vars
  BY <1>3 DEF Reconfigure, vars
<1> QED
  BY <1>1, <1>2, <1>3 DEF Next

(* Whatever the arguments are and whichever provider is called, nothing    *)
(* with personal data is posted when it should be redacted.                *)
THEOREM RedactionIsComplete == Spec => []RedactedTextLeaves
<1>1. Init => RedactedTextLeaves
  <2> SUFFICES ASSUME Init, NEW c \in Calls PROVE "pii" \notin SentTexts(c)
    BY DEF RedactedTextLeaves
  <2> QED
    BY DEF Init, NoRequest, SentTexts, ToSet
<1>2. IInv /\ [Next]_vars /\ RedactedTextLeaves => RedactedTextLeaves'
  <2> SUFFICES ASSUME IInv, [Next]_vars, RedactedTextLeaves, NEW c \in Calls, args'[c].redact
               PROVE  "pii" \notin SentTexts(c)'
    BY DEF RedactedTextLeaves
  <2>1. args' = args /\ args[c] \in Arguments
    BY RequestsAreBuiltOnce DEF IInv, TypeOK
  <2>2. CASE sent'[c] = sent[c]
    BY <2>1, <2>2 DEF RedactedTextLeaves, SentTexts
  <2>3. ASSUME NEW p, LET b == Body(p, payload_messages(args[c]))
                      IN  sent'[c].system = b.system /\ sent'[c].messages = b.messages
        PROVE  "pii" \notin SentTexts(c)'
    BY <2>1, <2>3, BodyIsRedacted DEF SentTexts, TextsOf
  <2> QED
    BY <2>2, <2>3, RequestsAreBuiltOnce
<1> QED
  BY <1>1, <1>2, GatewayInvariant, PTL DEF Spec

(* The conversation is posted whole and in order, to every provider.       *)
THEOREM ConversationsArrive == Spec => []ConversationArrives
<1>1. Init => ConversationArrives
  BY DEF Init, ConversationArrives
<1>2. IInv /\ [Next]_vars /\ ConversationArrives => ConversationArrives'
  <2> SUFFICES ASSUME IInv, [Next]_vars, ConversationArrives, NEW c \in Calls,
                      pc'[c] \in {"posting", "answered"}
               PROVE  \E place : Arrived(place, args'[c], sent'[c].messages)
    BY DEF ConversationArrives, Arrived
  <2>1. args' = args /\ args[c] \in Arguments
    BY RequestsAreBuiltOnce DEF IInv, TypeOK
  <2>2. CASE sent'[c] = sent[c] /\ pc[c] \in {"posting", "answered"}
    <3>1. \E place : Arrived(place, args[c], sent[c].messages)
      BY <2>2 DEF ConversationArrives, Arrived
    <3> QED
      BY <2>1, <2>2, <3>1
  <2>3. ASSUME NEW p, sent'[c].messages = Body(p, payload_messages(args[c])).messages
        PROVE  \E place : Arrived(place, args[c], sent'[c].messages)
    BY <2>1, <2>3, BodyArrives
  <2> QED
    BY <2>1, <2>2, <2>3, RequestsAreBuiltOnce
<1> QED
  BY <1>1, <1>2, GatewayInvariant, PTL DEF Spec
=============================================================================

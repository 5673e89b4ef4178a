----------------------------- MODULE AiGateway -----------------------------
(***************************************************************************)
(* ai/gateway.py: concurrent calls of chat_completion_with_usage.  A call  *)
(* resolves provider, key and model from its arguments and from the        *)
(* environment, which an operator may change at any time, builds the       *)
(* messages, redacted on request, posts them through a client of its own,  *)
(* waits, and makes a ChatResult or an error of what comes back.           *)
(*                                                                         *)
(* Texts are abstract: "pii" is a text with personal data, "parts" a list  *)
(* of content parts with personal data, "empty" the falsy text.  A         *)
(* provider counts Tokens for every call it serves.                        *)
(***************************************************************************)
EXTENDS Naturals, FiniteSets, Sequences, SequencesExt

CONSTANTS Calls,         \* calls of chat_completion_with_usage
          Conversations, \* what the messages argument may be
          SystemTexts,   \* what the system argument may be; "empty" for None
          ModelArgs,     \* what the model argument may be; "unset" for None
          ProviderArgs,  \* what the provider argument may be; "unset" for None
          Environments,  \* what os.environ may say
          Bodies,        \* the bodies a 200 answer may have
          Tokens,        \* what a provider reports for a call
          None,          \* null where a number of tokens belongs
          Numeral,       \* no int, but one int() reads: "7", 7.5
          Garbage        \* a value int() raises at: "seven", [7], Infinity

Providers == {"openai", "groq", "anthropic"}
shape(p)  == IF p = "anthropic" THEN "anthropic" ELSE "openai"

(* Model names, by the catalogue they are from.                            *)
Models == [gpt |-> "openai", llama |-> "groq", claude |-> "anthropic"]
default_model(p) == CHOOSE m \in DOMAIN Models : Models[m] = p

Texts   == {"text", "pii", "parts", "empty", "redacted"}
Message == [role : {"system", "user", "assistant"}, content : Texts]

Arguments == [messages : Conversations, system : SystemTexts, model : ModelArgs,
              provider : ProviderArgs, redact : BOOLEAN]

Environment == [AI_PROVIDER : Providers \cup {"unset", "unknown"},
                AI_MODEL_DEFAULT : DOMAIN Models \cup {"unset"},
                keys : SUBSET Providers]     \* whose API key is configured

(* A 200 answer: complete, without usage, with "usage": null, with a null  *)
(* text, with a null, odd or unreadable number of tokens, with null where  *)
(* an object or a list belongs, with a missing key or an empty list, not   *)
(* JSON at all, or not even UTF-8.                                         *)
BodyKinds == {"whole", "no_usage", "null_usage", "null_text", "null_count",
              "odd_count", "garbage_count", "null_node", "hollow", "not_json",
              "not_utf8"}

(* What may stand where a number of tokens belongs.                        *)
RawCounts == {0, Tokens, None, Numeral, Garbage}

ASSUME TokensAssumption == Tokens \in Nat \ {0}
ASSUME RawCountsAssumption ==
  /\ {None, Numeral, Garbage} \cap {0, Tokens} = {}
  /\ None # Numeral /\ None # Garbage /\ Numeral # Garbage
ASSUME ConversationsAssumption == Conversations \subseteq Seq(Message)
ASSUME SystemTextsAssumption == SystemTexts \subseteq Texts
ASSUME ArgumentsAssumption == /\ ModelArgs \subseteq DOMAIN Models \cup {"unset"}
                              /\ ProviderArgs \subseteq Providers \cup {"unset"}
ASSUME EnvironmentsAssumption == Environments \subseteq Environment
ASSUME BodiesAssumption == Bodies \subseteq BodyKinds

VARIABLES env,     \* os.environ
          args,    \* per call: its arguments
          pc,      \* per call: "start", "posting", "answered", "done"
          sent,    \* per call: the request it posted
          reply,   \* per call: "none", "429", "error", or the body of a 200
          open,    \* the calls whose HTTP client is open
          billed,  \* history: the calls a provider has served
          outcome, \* per call: "none", "result", or the error it ended with
          result,  \* per call: its ChatResult
          log      \* the usage log

vars == <<env, args, pc, sent, reply, open, billed, outcome, result, log>>
-----------------------------------------------------------------------------
(* AISettings.resolve: the argument, else the environment, else a default. *)
chosen(a) == IF a.provider # "unset" THEN a.provider
             ELSE IF env.AI_PROVIDER # "unset" THEN env.AI_PROVIDER ELSE "openai"

chosen_model(a) == IF a.model # "unset" THEN a.model
                   ELSE IF env.AI_MODEL_DEFAULT # "unset" THEN env.AI_MODEL_DEFAULT
                   ELSE default_model(chosen(a))

(* An unknown provider has no key either.                                  *)
Resolvable(a) == chosen(a) \in env.keys

(* redact_pii on a text; a list of parts is no str and is left alone.      *)
redacted(a, c) == IF a.redact /\ c = "pii" THEN "redacted" ELSE c

(* Fault: the system argument is passed on unredacted.                     *)
payload_messages_raw_system(a) ==
  (IF a.system = "empty" THEN <<>>
   ELSE <<[role |-> "system", content |-> a.system]>>)
  \o [i \in DOMAIN a.messages |->
        [a.messages[i] EXCEPT !.content = redacted(a, @)]]

(* The system argument, when there is one, then the messages in order.     *)
payload_messages(a) ==
  (IF a.system = "empty" THEN <<>>
   ELSE <<[role |-> "system", content |-> redacted(a, a.system)]>>)
  \o [i \in DOMAIN a.messages |->
        [a.messages[i] EXCEPT !.content = redacted(a, @)]]

IsSystem(m) == m.role = "system"

(* Fault: only the user's messages are passed on to Anthropic.             *)
BodyOfUsers(p, ms) ==
  [system |-> "empty",
   messages |-> IF shape(p) = "openai" THEN ms
                ELSE LET IsUser(m) == m.role = "user" IN SelectSeq(ms, IsUser)]

(* Anthropic's system prompt stands beside the messages: the last one of a *)
(* conversation that has many.                                             *)
Unsplit == [system |-> "empty", messages |-> <<>>]

Take(split, m) ==
  IF IsSystem(m) THEN [split EXCEPT !.system = m.content]
  ELSE [split EXCEPT !.messages = Append(@, m)]

Split(ms) ==
  LET upto[n \in 0 .. Len(ms)] == IF n = 0 THEN Unsplit ELSE Take(upto[n - 1], ms[n])
  IN  upto[Len(ms)]

(* What is posted.                                                         *)
Body(p, ms) ==
  IF shape(p) = "openai" THEN [system |-> "empty", messages |-> ms] ELSE Split(ms)

(* Reading a 200 answer: what json and the lookups catch is AIBadResponse; *)
(* a lookup on None and bytes that are no UTF-8 raise what nobody catches. *)
Reading(p, body) ==
  IF body \in {"not_json", "hollow"} THEN "bad_response"
  ELSE IF \/ body \in {"null_node", "not_utf8"}
          \/ body = "null_usage" /\ shape(p) = "anthropic" THEN "untyped"
  ELSE "parsed"

(* usage.get: the number of tokens as it stands in the answer, 0 when there*)
(* is no such key.                                                         *)
Raw(body) == CASE body \in {"whole", "null_text"} -> Tokens
               [] body = "null_count"    -> None
               [] body = "odd_count"     -> Numeral
               [] body = "garbage_count" -> Garbage
               [] OTHER                  -> 0

(* int(count or 0), where int() does not raise.                            *)
AsInt(count) == IF count = None THEN 0 ELSE IF count = Numeral THEN Tokens ELSE count

(* Fault: the entry is made of the environment's provider of the day.      *)
EntryFromEnvironment(c, body) ==
  [call |-> c, provider |-> chosen(args[c]), model |-> chosen_model(args[c]),
   tokens |-> Raw(body)]

(* _log_usage: one entry, of the settings the call was resolved with and   *)
(* of the number as it came.                                               *)
Entry(c, body) ==
  [call |-> c, provider |-> sent[c].provider, model |-> sent[c].model,
   tokens |-> Raw(body)]
-----------------------------------------------------------------------------
NoRequest == [provider |-> "unset", model |-> "unset", system |-> "empty",
              messages |-> <<>>]
NoResult  == [text |-> "none", tokens |-> 0]

Init ==
  /\ env \in Environments
  /\ args \in [Calls -> Arguments]
  /\ pc = [c \in Calls |-> "start"]
  /\ sent = [c \in Calls |-> NoRequest]
  /\ reply = [c \in Calls |-> "none"]
  /\ open = {} /\ billed = {} /\ log = {}
  /\ outcome = [c \in Calls |-> "none"]
  /\ result = [c \in Calls |-> NoResult]

End(c, what) == /\ pc' = [pc EXCEPT ![c] = "done"]
                /\ outcome' = [outcome EXCEPT ![c] = what]

(* resolve raises: no provider of that name, or no key for it.             *)
Unconfigured(c) ==
  /\ pc[c] = "start"
  /\ ~Resolvable(args[c])
  /\ End(c, "unavailable")
  /\ UNCHANGED <<env, args, sent, reply, open, billed, result, log>>

(* From resolve to client.post there is no await.                          *)
Post(c) ==
  /\ pc[c] = "start"
  /\ Resolvable(args[c])
  /\ LET p == chosen(args[c])
         b == Body(p, payload_messages(args[c]))
     IN  sent' = [sent EXCEPT ![c] =
                    [provider |-> p, model |-> chosen_model(args[c]),
                     system |-> b.system, messages |-> b.messages]]
  /\ open' = open \cup {c}
  /\ pc' = [pc EXCEPT ![c] = "posting"]
  /\ UNCHANGED <<env, args, reply, billed, outcome, result, log>>

(* The provider answers: 200 with some body, 429, or another status.       *)
Serve(c) ==
  /\ pc[c] = "posting"
  /\ \E what \in Bodies \cup {"429", "error"} :
       /\ reply' = [reply EXCEPT ![c] = what]
       /\ billed' = IF what \in Bodies THEN billed \cup {c} ELSE billed
  /\ pc' = [pc EXCEPT ![c] = "answered"]
  /\ UNCHANGED <<env, args, sent, open, outcome, result, log>>

(* httpx.HTTPError: no connection, or a timeout.  The provider may have    *)
(* served the call all the same.                                           *)
TransportError(c) ==
  /\ pc[c] = "posting"
  /\ billed' \in {billed, billed \cup {c}}
  /\ open' = open \ {c}
  /\ End(c, "unavailable")
  /\ UNCHANGED <<env, args, sent, reply, result, log>>

(* Fault: the client is closed after an answer or an error only.           *)
CancelLeavesClient(c) ==
  /\ pc[c] \in {"posting", "answered"}
  /\ End(c, "cancelled")
  /\ UNCHANGED <<env, args, sent, reply, open, billed, result, log>>

(* The caller is cancelled while it waits; async with closes the client.   *)
Cancel(c) ==
  /\ pc[c] \in {"posting", "answered"}
  /\ open' = open \ {c}
  /\ End(c, "cancelled")
  /\ UNCHANGED <<env, args, sent, reply, billed, result, log>>

(* The client is closed, the status is tested, the body is read, the usage *)
(* is logged as it came, and only then made a number for the ChatResult,   *)
(* which may raise.                                                        *)
Finish(c) ==
  /\ pc[c] = "answered"
  /\ open' = open \ {c}
  /\ LET what  == CASE reply[c] = "429"   -> "rate_limited"
                    [] reply[c] = "error" -> "bad_response"
                    [] OTHER              -> Reading(sent[c].provider, reply[c])
         count == Raw(reply[c])
     IN  IF what # "parsed" THEN End(c, what) /\ UNCHANGED <<log, result>>
         ELSE /\ log' = log \cup {Entry(c, reply[c])}
              /\ IF count = Garbage THEN End(c, "untyped") /\ UNCHANGED result
                 ELSE /\ End(c, "result")
                      /\ result' = [result EXCEPT ![c] =
                           [text |-> IF reply[c] = "null_text" THEN "null" ELSE "some",
                            tokens |-> AsInt(count)]]
  /\ UNCHANGED <<env, args, sent, reply, billed>>

(* The operator changes the environment, or a test patches it.             *)
Reconfigure ==
  /\ env' \in Environments \ {env}
  /\ UNCHANGED <<args, pc, sent, reply, open, billed, outcome, result, log>>

Next == \/ \E c \in Calls : \/ Unconfigured(c) \/ Post(c) \/ Serve(c)
                            \/ TransportError(c) \/ Cancel(c) \/ Finish(c)
        \/ Reconfigure

Spec == Init /\ [][Next]_vars
-----------------------------------------------------------------------------
TypeOK ==
  /\ env \in Environments /\ args \in [Calls -> Arguments]
  /\ pc \in [Calls -> {"start", "posting", "answered", "done"}]
  /\ DOMAIN sent = Calls
  /\ \A c \in Calls : /\ sent[c].provider \in Providers \cup {"unset"}
                      /\ sent[c].model \in DOMAIN Models \cup {"unset"}
  /\ reply \in [Calls -> Bodies \cup {"none", "429", "error"}]
  /\ open \subseteq Calls /\ billed \subseteq Calls
  /\ outcome \in [Calls -> {"none", "result", "unavailable", "rate_limited",
                            "bad_response", "untyped", "cancelled"}]
  /\ result \in [Calls -> [text : {"none", "some", "null"}, tokens : {0, Tokens}]]
  /\ log \subseteq [call : Calls, provider : Providers, model : DOMAIN Models,
                    tokens : RawCounts]

SentTexts(c) == {sent[c].system} \cup {m.content : m \in ToSet(sent[c].messages)}

(* With redact_pii, no text with personal data is posted, whichever way it *)
(* travels: the system argument, a system message moved beside the others  *)
(* for Anthropic, or any message of the conversation.                      *)
RedactedTextLeaves ==
  \A c \in Calls : args[c].redact => "pii" \notin SentTexts(c)

Turns(ms) == {i \in DOMAIN ms : ~IsSystem(ms[i])}

(* The conversation reaches the provider whole and in order, redacted when *)
(* that is asked for and otherwise as it was: the system messages, which   *)
(* Anthropic takes no place for, are the only ones set apart, and none but *)
(* a system message is added.                                              *)
ConversationArrives ==
  \A c \in Calls : pc[c] \in {"posting", "answered"} =>
    LET was == args[c].messages
        is  == sent[c].messages
    IN  \E place \in Surjection(Turns(was), Turns(is)) :
          /\ \A i, j \in Turns(was) : i < j => place[i] < place[j]
          /\ \A i \in Turns(was) :
               is[place[i]] = [was[i] EXCEPT !.content = redacted(args[c], @)]

(* The usage log and the callers' records agree.  An entry is of a call a  *)
(* provider served, under the provider and the model that were called,     *)
(* whatever the environment says by then, and the call gave a ChatResult,  *)
(* or raised at the very number that was logged.  A ChatResult has exactly *)
(* one entry, and its tokens are the int of the logged number; an answer   *)
(* that fails at that int is on the log as well.                           *)
UsageIsAccounted ==
  /\ \A e \in log :
       /\ e.call \in billed
       /\ e.provider = sent[e.call].provider /\ e.model = sent[e.call].model
       /\ \/ outcome[e.call] = "result"
          \/ outcome[e.call] = "untyped" /\ e.tokens = Garbage
  /\ \A c \in Calls : outcome[c] = "result" =>
       \E e \in log : /\ {f \in log : f.call = c} = {e}
                      /\ AsInt(e.tokens) = result[c].tokens
  /\ \A c \in Calls : outcome[c] = "untyped" /\ reply[c] = "garbage_count" =>
       \E e \in log : e.call = c

(* A call keeps its HTTP client open exactly while it waits for it: an     *)
(* answer, an error and a cancellation all close it.                       *)
NoClientStaysOpen ==
  open = {c \in Calls : pc[c] \in {"posting", "answered"}}
-----------------------------------------------------------------------------
(* The inductive invariant behind UsageIsAccounted.                        *)

(* An answer that is not an error is one a provider has counted.           *)
AnsweredIsBilled ==
  \A c \in Calls : pc[c] = "answered" =>
    reply[c] \in {"429", "error"} \/ (reply[c] \in Bodies /\ c \in billed)

CallsEndOnce == \A c \in Calls : pc[c] = "done" <=> outcome[c] # "none"

(* What is posted is what the catalogue and the keys allow.                *)
PostedIsResolved ==
  \A c \in Calls : pc[c] \in {"posting", "answered"} =>
    sent[c].provider \in Providers /\ sent[c].model \in DOMAIN Models

IInv == /\ TypeOK /\ AnsweredIsBilled /\ CallsEndOnce /\ PostedIsResolved
        /\ UsageIsAccounted /\ NoClientStaysOpen
=============================================================================

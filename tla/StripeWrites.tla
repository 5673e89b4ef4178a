---------------------------- MODULE StripeWrites ----------------------------
(***************************************************************************)
(* stripe/client.py: the writes of the product backends to Stripe, retried *)
(* after a timeout or a restart under the idempotency key the library      *)
(* derives from the operation and its entity.  Backends keep no record of  *)
(* an attempt: what they know of it is the key, and the key is computed    *)
(* anew each time.                                                         *)
(*                                                                         *)
(* A str is the sequence of its parts between colons, so that joining with *)
(* ":" is concatenation.  Stripe is external: it keeps the answer to each  *)
(* key of an account for at least a window, replays it to the same         *)
(* request, and refuses another request under that key.                    *)
(***************************************************************************)
EXTENDS Naturals, Sequences, Functions

CONSTANTS Writes,      \* the business operations, see Fields
          Accounts,    \* connected accounts: ids that start with acct_
          Platform,    \* the platform's own account, behind get_client
          Configured,  \* the products whose STRIPE_SECRET_KEY is set
          Amounts,     \* what an attempt may ask for
          MaxAttempts, \* bound on the attempts of all writes together
          Window,      \* ticks for which Stripe keeps a key, the 24 hours
          MaxTime      \* bound on the clock

Fields == {"product", "account", "operation", "entity_type", "entity_id", "suffix"}

ASSUME WritesAssumption == \A w \in Writes : DOMAIN w = Fields
ASSUME WindowAssumption == Window \in Nat \ {0}
ASSUME PlatformAssumption == Platform \notin Accounts

VARIABLES pc,       \* per write: "idle", "waiting", "done"
          attempt,  \* per write: how often it was sent
          amount,   \* per write: what its last attempt asked for
          answer,   \* per write: "none", "ok", "mismatch", "unconfigured"
          net,      \* requests on their way, those given up on included
          reply,    \* per write: the answer on its way to the open attempt
          kept,     \* Stripe: what it answered to which key
          charges,  \* Stripe: the writes it carried out
          now       \* the clock

vars == <<pc, attempt, amount, answer, net, reply, kept, charges, now>>
-----------------------------------------------------------------------------
(* Fault: the suffix is left out of the key.                               *)
key_without_suffix(w, n) ==
  <<"bos">> \o w.operation \o w.entity_type \o w.entity_id

(* Fault: each attempt has a key of its own.                               *)
key_per_attempt(w, n) ==
  <<"bos">> \o w.operation \o w.entity_type \o w.entity_id \o w.suffix \o <<n>>

(* idempotency_key_for; a suffix that is None or "" is the empty sequence. *)
(* Nothing of the n-th attempt enters the key.                             *)
idempotency_key_for(w, n) ==
  <<"bos">> \o w.operation \o w.entity_type \o w.entity_id \o w.suffix

(* Fault: the connected account is not named in the request.               *)
PlatformOnly(w) == Platform

(* The account a client speaks for: the one in its Stripe-Account header.  *)
StripeAccount(w) == w.account

(* Fault: the account id and the secret key are not looked at.             *)
HasClientUnchecked(w) == TRUE

(* get_client and get_connected_client raise StripeOperationError unless   *)
(* the account id is one and the secret key is set.                        *)
HasClient(w) == w.account \in Accounts \cup {Platform} /\ w.product \in Configured

Request(w, n, a) == [write |-> w, attempt |-> n, amount |-> a,
                     account |-> StripeAccount(w),
                     key |-> idempotency_key_for(w, n)]
-----------------------------------------------------------------------------
Init ==
  /\ pc = [w \in Writes |-> "idle"]
  /\ attempt = [w \in Writes |-> 0]
  /\ amount = [w \in Writes |-> 0]
  /\ answer = [w \in Writes |-> "none"]
  /\ reply = [w \in Writes |-> "none"]
  /\ net = {} /\ kept = {} /\ charges = {}
  /\ now = 0

(* No client for the write: StripeOperationError, and nothing is sent.     *)
Unavailable(w) ==
  /\ pc[w] = "idle"
  /\ ~HasClient(w)
  /\ pc' = [pc EXCEPT ![w] = "done"]
  /\ answer' = [answer EXCEPT ![w] = "unconfigured"]
  /\ UNCHANGED <<attempt, amount, net, reply, kept, charges, now>>

TotalAttempts == FoldFunction(+, 0, attempt)

(* An attempt: a client, the key, the request.  A retry reads the amount   *)
(* again, which may have changed.                                          *)
Send(w) ==
  /\ pc[w] = "idle"
  /\ HasClient(w)
  /\ TotalAttempts < MaxAttempts
  /\ attempt' = [attempt EXCEPT ![w] = @ + 1]
  /\ \E a \in Amounts : /\ amount' = [amount EXCEPT ![w] = a]
                        /\ net' = net \cup {Request(w, attempt[w] + 1, a)}
  /\ pc' = [pc EXCEPT ![w] = "waiting"]
  /\ UNCHANGED <<answer, reply, kept, charges, now>>

(* Stripe takes a request from the network, where it may stay forever, and *)
(* answers it; nobody listens to the answer of an attempt given up on.     *)
Reply(m, what) ==
  /\ net' = net \ {m}
  /\ reply' = IF pc[m.write] = "waiting" /\ attempt[m.write] = m.attempt
              THEN [reply EXCEPT ![m.write] = what] ELSE reply

Known(m) == {k \in kept : k.account = m.account /\ k.key = m.key}

(* The first request under a key is carried out and its answer is kept.    *)
CarryOut(m) ==
  /\ Known(m) = {}
  /\ charges' = charges \cup {[write |-> m.write, attempt |-> m.attempt,
                               account |-> m.account, amount |-> m.amount,
                               at |-> now]}
  /\ kept' = kept \cup {[account |-> m.account, key |-> m.key,
                         amount |-> m.amount, at |-> now]}
  /\ Reply(m, "ok")
  /\ UNCHANGED <<pc, attempt, amount, answer, now>>

(* A later one is given the first answer when it asks for the same, and an *)
(* idempotency error when it does not.                                     *)
Replay(m) ==
  /\ \E k \in Known(m) : Reply(m, IF k.amount = m.amount THEN "ok" ELSE "mismatch")
  /\ UNCHANGED <<pc, attempt, amount, answer, kept, charges, now>>

Receive(w) ==
  /\ reply[w] # "none"
  /\ answer' = [answer EXCEPT ![w] = reply[w]]
  /\ reply' = [reply EXCEPT ![w] = "none"]
  /\ pc' = [pc EXCEPT ![w] = "done"]
  /\ UNCHANGED <<attempt, amount, net, kept, charges, now>>

(* The backend times out, its answer lost or late, or it dies while it     *)
(* waits or before it has recorded the answer: it will try again.          *)
Forget(w) ==
  /\ pc[w] = "waiting" \/ answer[w] = "ok"
  /\ pc' = [pc EXCEPT ![w] = "idle"]
  /\ answer' = [answer EXCEPT ![w] = "none"]
  /\ reply' = [reply EXCEPT ![w] = "none"]
  /\ UNCHANGED <<attempt, amount, net, kept, charges, now>>

(* A key that is as old as the window may be dropped.                      *)
Expire(k) ==
  /\ now - k.at >= Window
  /\ kept' = kept \ {k}
  /\ UNCHANGED <<pc, attempt, amount, answer, net, reply, charges, now>>

Tick ==
  /\ now < MaxTime
  /\ now' = now + 1
  /\ UNCHANGED <<pc, attempt, amount, answer, net, reply, kept, charges>>

Next == \/ \E w \in Writes : Unavailable(w) \/ Send(w) \/ Receive(w) \/ Forget(w)
        \/ \E m \in net : CarryOut(m) \/ Replay(m)
        \/ \E k \in kept : Expire(k)
        \/ Tick

Spec == Init /\ [][Next]_vars
-----------------------------------------------------------------------------
TypeOK ==
  /\ pc \in [Writes -> {"idle", "waiting", "done"}]
  /\ attempt \in [Writes -> Nat]
  /\ amount \in [Writes -> Amounts \cup {0}]
  /\ answer \in [Writes -> {"none", "ok", "mismatch", "unconfigured"}]
  /\ \A m \in net : /\ m.write \in Writes /\ m.attempt \in Nat
                     /\ m.amount \in Amounts
                     /\ m.account \in Accounts \cup {Platform}
  /\ reply \in [Writes -> {"none", "ok", "mismatch"}]
  /\ \A k \in kept : k.amount \in Amounts /\ k.at \in 0 .. now
  /\ \A c \in charges : /\ c.write \in Writes /\ c.amount \in Amounts
                         /\ c.at \in 0 .. now
  /\ now \in Nat

(* "retrying the same conceptual write produces the same key (and Stripe   *)
(* returns the cached response instead of re-charging)": however requests  *)
(* are lost, delayed past their retry or sent by a restarted backend, and  *)
(* whatever amount they carry, a write is carried out once in a window.    *)
ChargedOncePerWindow ==
  \A c, d \in charges :
    c.write = d.write /\ c.at < d.at + Window /\ d.at < c.at + Window => c = d

(* Success means that this very write was carried out, on its own account  *)
(* and for the amount of the attempt that was answered, not that some      *)
(* other write of the same key was.                                        *)
SuccessIsOwnCharge ==
  \A w \in Writes : answer[w] = "ok" =>
    \E c \in charges : c.write = w /\ c.account = w.account /\ c.amount = amount[w]

(* A write is refused only for what it asked for itself before: it has     *)
(* been carried out, for another amount.                                   *)
MismatchIsOwnDoing ==
  \A w \in Writes : answer[w] = "mismatch" =>
    \E c \in charges : c.write = w /\ c.amount # amount[w]
-----------------------------------------------------------------------------
(* The inductive invariant behind the properties above.                    *)

(* What travels is what its write sent, and the request of the attempt     *)
(* that is open asks for the amount on record.                             *)
RequestsAreFaithful ==
  \A m \in net : /\ m = Request(m.write, m.attempt, m.amount)
                 /\ m.attempt <= attempt[m.write]
                 /\ m.attempt = attempt[m.write] => m.amount = amount[m.write]

(* The key of a charge is kept as long as the charge is inside the window. *)
KeysGuardCharges ==
  \A c \in charges :
    now < c.at + Window =>
      \E k \in kept : /\ k.account = StripeAccount(c.write)
                      /\ k.key = idempotency_key_for(c.write, c.attempt)
                      /\ k.at = c.at

(* What Stripe replays under a key it did carry out under that key.        *)
KeptAnswersAreCharges ==
  \A k \in kept :
    \E c \in charges : /\ k.account = StripeAccount(c.write)
                       /\ k.key = idempotency_key_for(c.write, c.attempt)
                       /\ k.amount = c.amount /\ k.at = c.at

ChargesAreOnTheirAccount ==
  \A c \in charges : c.account = StripeAccount(c.write)

(* An answer is on its way only to a write that waits for it, and is held  *)
(* only by one that is done.                                               *)
AnswersFitThePhase ==
  \A w \in Writes : /\ reply[w] # "none" => pc[w] = "waiting"
                    /\ answer[w] # "none" => pc[w] = "done"

(* No write travels, or is carried out, that there is no client for.       *)
OnlyClientsWrite ==
  /\ \A m \in net \cup charges : HasClient(m.write)
  /\ \A w \in Writes : answer[w] = "unconfigured" => ~HasClient(w)

IInv == /\ TypeOK
        /\ RequestsAreFaithful
        /\ OnlyClientsWrite
        /\ KeysGuardCharges
        /\ KeptAnswersAreCharges
        /\ ChargesAreOnTheirAccount
        /\ AnswersFitThePhase
        /\ ChargedOncePerWindow

(* Two writes to one account have keys of their own.  Nothing in the key   *)
(* tells two products, or a colon inside a part from one between parts.    *)
DistinctKeys ==
  \A v, w \in Writes :
    StripeAccount(v) = StripeAccount(w)
      /\ idempotency_key_for(v, 1) = idempotency_key_for(w, 1) => v = w

(* They have when every part is free of colons, the suffix included, and   *)
(* each account belongs to one product, which does not name two of its     *)
(* writes alike.                                                           *)
PlainParts ==
  /\ \A w \in Writes :
       /\ w = [field \in Fields |-> w[field]]
       /\ \A part \in {"operation", "entity_type", "entity_id"} :
            w[part] = <<w[part][1]>>
       /\ w.suffix = <<>> \/ w.suffix = <<w.suffix[1]>>
  /\ \A v, w \in Writes : v.account = w.account => v.product = w.product
-----------------------------------------------------------------------------
(* The retries implement the promise: "carried" is what Stripe carried     *)
(* out, whichever attempt asked for it, and "told" is the answer the       *)
(* backend has received.                                                   *)
Promise == INSTANCE IdempotentWrites WITH
  Home    <- [w \in Writes |-> w.account],
  asked   <- amount,
  carried <- {[write |-> c.write, account |-> c.account, amount |-> c.amount,
               at |-> c.at] : c \in charges},
  told    <- answer

(* However attempts are lost, delayed, repeated or forgotten, a write is   *)
(* carried out once in a window on its own account, and a backend is told  *)
(* what is true of it: what IdempotentWrites promises.                     *)
RetriesAreIdempotent == Promise!Spec
=============================================================================

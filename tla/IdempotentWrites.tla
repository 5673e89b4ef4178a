-------------------------- MODULE IdempotentWrites --------------------------
(***************************************************************************)
(* What a caller is promised of a write to Stripe, whatever is retried,    *)
(* lost or delayed on the way: it is carried out once in a window and on   *)
(* its own account, and what the caller is told in the end is true of this *)
(* write and no other.                                                     *)
(***************************************************************************)
EXTENDS Naturals

CONSTANTS Writes, Amounts,
          Home,    \* per write: the account it belongs to
          Window   \* for how long a write is carried out once

VARIABLES asked,   \* per write: the amount it asks for
          carried, \* what has been carried out, and when
          told,    \* per write: what its caller knows
          now      \* the clock

vars == <<asked, carried, told, now>>

Init == /\ asked = [w \in Writes |-> 0]
        /\ carried = {}
        /\ told = [w \in Writes |-> "none"]
        /\ now = 0

(* A caller that knows nothing of a write asks for it, again or anew.      *)
Ask(w) == /\ told[w] = "none"
          /\ \E a \in Amounts : asked' = [asked EXCEPT ![w] = a]
          /\ UNCHANGED <<carried, told, now>>

CarryOut(w) ==
  /\ told[w] # "unconfigured"
  /\ \A c \in carried : c.write = w => c.at + Window <= now
  /\ \E a \in Amounts :
       carried' = carried \cup
         {[write |-> w, account |-> Home[w], amount |-> a, at |-> now]}
  /\ UNCHANGED <<asked, told, now>>

CarriedFor(w, a) == \E c \in carried : c.write = w /\ c.amount = a

Truths(w) ==
  {what \in {"ok", "mismatch", "unconfigured"} :
     CASE what = "ok"       -> CarriedFor(w, asked[w])
       [] what = "mismatch" -> \E a \in Amounts \ {asked[w]} : CarriedFor(w, a)
       [] OTHER             -> \A a \in Amounts : ~CarriedFor(w, a)}

Tell(w) == /\ told[w] = "none"
           /\ \E what \in Truths(w) : told' = [told EXCEPT ![w] = what]
           /\ UNCHANGED <<asked, carried, now>>

(* A caller that dies has lost a success it did not record.                *)
Forget(w) == /\ told[w] = "ok"
             /\ told' = [told EXCEPT ![w] = "none"]
             /\ UNCHANGED <<asked, carried, now>>

Tick == /\ now' = now + 1
        /\ UNCHANGED <<asked, carried, told>>

Next == \/ \E w \in Writes : Ask(w) \/ CarryOut(w) \/ Tell(w) \/ Forget(w)
        \/ Tick

Spec == Init /\ [][Next]_vars
=============================================================================

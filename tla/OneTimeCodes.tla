---------------------------- MODULE OneTimeCodes ----------------------------
(***************************************************************************)
(* What a store of one-time codes promises: a code opens the door once, a  *)
(* code that was used or replaced never works again.                       *)
(***************************************************************************)
EXTENDS FiniteSets

CONSTANT Codes

VARIABLES live,    \* the codes that still work
          used,    \* the codes that opened the door
          issued   \* every code ever given out

vars == <<live, used, issued>>

Init == live = {} /\ used = {} /\ issued = {}

(* Codes are drawn afresh; the ones they replace stop working.             *)
Replace == \E fresh \in SUBSET (Codes \ issued) :
             /\ live' = fresh
             /\ issued' = issued \cup fresh
             /\ UNCHANGED used

Use(c) == /\ c \in live
          /\ live' = live \ {c}
          /\ used' = used \cup {c}
          /\ UNCHANGED issued

(* A code may be lost without opening the door, never the other way round. *)
Burn(c) == /\ c \in live
           /\ live' = live \ {c}
           /\ UNCHANGED <<used, issued>>

Next == Replace \/ \E c \in live : Use(c) \/ Burn(c)

Spec == Init /\ [][Next]_vars
=============================================================================

-------------------------- MODULE ErasureContract --------------------------
(***************************************************************************)
(* What account deletion promises, whatever the requests, sessions and     *)
(* transactions that carry it out: an account is erased at most once, for  *)
(* good, its token version only ever moves up and only by the erasure, it  *)
(* stays with its organisation, and the audit trail speaks of erased       *)
(* accounts alone, each under the organisation that owns it.               *)
(***************************************************************************)
EXTENDS Naturals

CONSTANTS Users, Orgs

VARIABLES status,   \* per account: "live", "disabled" by other means, "erased"
          version,  \* per account: the version its tokens must carry
          owner,    \* per account: the organisation it belongs to
          trail     \* the pairs <<account, organisation>> on the audit trail

vars == <<status, version, owner, trail>>

Init == /\ status \in [Users -> {"live", "disabled"}]
        /\ version \in [Users -> Nat]
        /\ owner \in [Users -> Orgs]
        /\ trail = {}

(* Erasing revokes every token issued so far: the version moves up. *)
Erase(u) == /\ status[u] = "live"
            /\ status' = [status EXCEPT ![u] = "erased"]
            /\ version' \in [Users -> Nat]
            /\ version'[u] > version[u]
            /\ \A v \in Users \ {u} : version'[v] = version[v]
            /\ UNCHANGED <<owner, trail>>

Record(u) == /\ status[u] = "erased"
             /\ trail' = trail \cup {<<u, owner[u]>>}
             /\ UNCHANGED <<status, version, owner>>

Next == \E u \in Users : Erase(u) \/ Record(u)

Spec == Init /\ [][Next]_vars
=============================================================================

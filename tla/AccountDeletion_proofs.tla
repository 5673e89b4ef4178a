----------------------- MODULE AccountDeletion_proofs -----------------------
(***************************************************************************)
(* Theorems about AccountDeletion for every set of accounts, organisations,*)
(* requests, columns and payloads, whatever the router was configured with.*)
(* IInv is inductive; each property is read off it.                        *)
(*                                                                         *)
(* The last section is about PooledDeletion, for a pool of any size.  Each *)
(* step of it is a step of AccountDeletion or leaves its variables alone,  *)
(* so what is proved of AccountDeletion carries over; about the pool itself*)
(* PoolIInv is inductive together with the IInv that carried over.         *)
(***************************************************************************)
EXTENDS PooledDeletion, FiniteSetTheorems, TLAPS

(* The token version after a deletion is above the one it was read at.     *)
LEMMA BumpVersionGrows ==
  ASSUME NEW v \in Nat
  PROVE  BumpVersion(v) \in Nat /\ BumpVersion(v) > v
BY DEF BumpVersion

(* What the assignments of delete_account_service make of a loaded object. *)
LEMMA ScrubbedAccount ==
  ASSUME NEW a \in Account
  PROVE  /\ Scrubbed(a) \in Account
         /\ Scrubbed(a).org = a.org
         /\ Scrubbed(a).active = FALSE
         /\ Scrubbed(a).version = BumpVersion(a.version)
<1>1. BumpVersion(a.version) \in Nat
  BY BumpVersionGrows DEF Account
<1>2. \A c : ScrubValue(c) \in Values
  BY DEF ScrubValue, Values
<1>3. [c \in PiiCols |-> IF c \in ScrubbedCols THEN ScrubValue(c) ELSE a.data[c]]
        \in [PiiCols -> Values]
  BY <1>2 DEF Account
<1> QED
  BY <1>1, <1>3 DEF Scrubbed, Account

(* What the payload of an update endpoint makes of a loaded object: it can *)
(* change neither the organisation nor the columns the deletion rests on.  *)
LEMMA EditedAccount ==
  ASSUME NEW a \in Account, NEW r \in Editors
  PROVE  /\ Edited(r, a) \in Account
         /\ Edited(r, a).org = a.org
         /\ Edited(r, a).active = a.active
         /\ Edited(r, a).version = a.version
<1> DEFINE cols == strip_protected_fields(req[r].cols)
<1>1. "organization_id" \notin cols
  BY DEF strip_protected_fields, PROTECTED_FIELDS
<1>2. [c \in PiiCols |-> IF c \in cols THEN r ELSE a.data[c]] \in [PiiCols -> Values]
  BY DEF Account, Values
<1>3. Edited(r, a) = [a EXCEPT !.org = a.org,
                      !.data = [c \in PiiCols |-> IF c \in cols THEN r ELSE a.data[c]]]
  BY <1>1 DEF Edited
<1> QED
  BY <1>2, <1>3 DEF Account

(* An UPDATE of a row yields a row.                                        *)
LEMMA UpdatedAccount ==
  ASSUME NEW cur \in Account, NEW old \in Account, NEW new \in Account
  PROVE  /\ Update(cur, old, new) \in Account
         /\ Update(cur, old, new).org = Net(cur.org, old.org, new.org)
         /\ Update(cur, old, new).active = Net(cur.active, old.active, new.active)
         /\ Update(cur, old, new).version = Net(cur.version, old.version, new.version)
<1>1. [c \in PiiCols |-> Net(cur.data[c], old.data[c], new.data[c])]
        \in [PiiCols -> Values]
  BY DEF Account, Net
<1> QED
  BY <1>1 DEF Update, Account, Net

(* The row a request's COMMIT leaves behind, when what it loaded can be    *)
(* stale only by an erasure: a deletion ends in an inactive row with the   *)
(* bumped version, an update endpoint leaves both as they are.             *)
LEMMA CommittedRow ==
  ASSUME TypeOK, LoadedRowIsStaleOnlyByErasure,
         NEW r \in Reqs, pc[r] = "updated"
  PROVE  LET u == req[r].id
             n == Update(row[u], snap[r], Wanted(r))
         IN  /\ u \in Users
             /\ n \in Account
             /\ n.org = row[u].org
             /\ r \in Deleters => /\ ~n.active
                                  /\ n.version = BumpVersion(snap[r].version)
             /\ r \notin Deleters => /\ n.active = row[u].active
                                     /\ n.version = row[u].version
<1> DEFINE u == req[r].id
           n == Update(row[u], snap[r], Wanted(r))
<1>1. /\ u \in Users /\ snap[r] \in Account /\ snap[r].active
      /\ snap[r].org = row[u].org
  BY DEF LoadedRowIsStaleOnlyByErasure
<1>2. row[u] \in Account
  BY <1>1 DEF TypeOK
<1>3. snap[r].version \in Nat
  BY <1>1 DEF Account
<1>4. Wanted(r) \in Account =>
        /\ n \in Account
        /\ n.org = Net(row[u].org, snap[r].org, Wanted(r).org)
        /\ n.active = Net(row[u].active, snap[r].active, Wanted(r).active)
        /\ n.version = Net(row[u].version, snap[r].version, Wanted(r).version)
  <2> HAVE Wanted(r) \in Account
  <2>1. snap[r] \in Account
    BY <1>1
  <2> QED
    BY <1>2, <2>1, UpdatedAccount, Zenon
<1>5. CASE r \in Deleters
  <2>1. Wanted(r) = Scrubbed(snap[r])
    BY <1>5 DEF Wanted
  <2>2. /\ Wanted(r) \in Account
        /\ Wanted(r).org = snap[r].org
        /\ Wanted(r).active = FALSE
        /\ Wanted(r).version = BumpVersion(snap[r].version)
    BY <2>1, <1>1, ScrubbedAccount
  <2>3. BumpVersion(snap[r].version) # snap[r].version
    BY <1>3, BumpVersionGrows
  <2> QED
    BY <1>1, <1>4, <1>5, <2>2, <2>3 DEF Net
<1>6. CASE r \notin Deleters
  <2>1. r \in Editors /\ Wanted(r) = Edited(r, snap[r])
    BY <1>6 DEF Wanted, Reqs
  <2>2. /\ Wanted(r) \in Account
        /\ Wanted(r).org = snap[r].org
        /\ Wanted(r).active = snap[r].active
        /\ Wanted(r).version = snap[r].version
    BY <2>1, <1>1, EditedAccount
  <2> QED
    BY <1>1, <1>4, <1>6, <2>2 DEF Net
<1> QED
  BY <1>1, <1>4, <1>5, <1>6
-----------------------------------------------------------------------------
LEMMA InitIInv == Init => IInv
<1> SUFFICES ASSUME Init PROVE IInv
  OBVIOUS
<1> DEFINE Fresh == [org : Orgs, active : BOOLEAN, version : InitVersions,
                     data : [PiiCols -> {"null", "pii"}]]
<1>1. TypeOK
  <2>1. \A d \in [PiiCols -> {"null", "pii"}] : d \in [PiiCols -> Values]
    BY DEF Values
  <2>2. ASSUME NEW a \in Fresh PROVE a \in Account
    <3>1. a.version \in Nat /\ a.data \in [PiiCols -> Values]
      BY <2>1, VersionsAssumption
    <3> QED
      BY <3>1 DEF Account
  <2>3. row \in [Users -> Account]
    <3>1. row \in [Users -> Fresh]
      BY DEF Init
    <3> HIDE DEF Fresh
    <3> QED
      BY <3>1, <2>2
  <2> QED
    BY <2>3 DEF Init, TypeOK
<1>2. LocksAreHeldByUpdates
  BY RequestsAssumption DEF Init, LocksAreHeldByUpdates
<1> QED
  BY <1>1, <1>2 DEF Init, IInv, LoadedRowIsStaleOnlyByErasure,
     AppliedRowsAreInactive, AuditingFollowsErasure, EventsFollowErasure

(* A SELECT gives the request a snapshot of a live row of its organisation.*)
LEMMA LoadKeepsIInv ==
  ASSUME IInv, NEW r \in Reqs, Load(r)
  PROVE  IInv'
<1> USE DEF IInv
<1>1. PICK u \in Selected(r) : row[u].active /\ snap' = [snap EXCEPT ![r] = row[u]]
  BY DEF Load
<1>2. u \in Users /\ u = req[r].id /\ row[u].org = req[r].org /\ row[u] \in Account
  BY DEF Selected, scope_query, TypeOK
<1>3. TypeOK'
  BY <1>1, <1>2 DEF Load, TypeOK
<1>4. LoadedRowIsStaleOnlyByErasure'
  <2> SUFFICES ASSUME NEW s \in Reqs, pc'[s] \in {"loaded", "updated"}
               PROVE  LET v == req[s].id IN
                      /\ v \in Users /\ snap'[s] \in Account /\ snap'[s].active
                      /\ snap'[s].org = req[s].org /\ row[v].org = req[s].org
                      /\ row[v].active => row[v].version = snap'[s].version
                      /\ ~row[v].active => /\ Erased(v)
                                           /\ row[v].version = BumpVersion(snap'[s].version)
    BY DEF Load, LoadedRowIsStaleOnlyByErasure, Erased
  <2>1. CASE s = r
    BY <1>1, <1>2, <2>1 DEF TypeOK
  <2>2. CASE s # r
    <3>1. pc[s] \in {"loaded", "updated"} /\ snap'[s] = snap[s]
      BY <1>1, <2>2 DEF Load, TypeOK
    <3> QED
      BY <3>1 DEF LoadedRowIsStaleOnlyByErasure
  <2> QED
    BY <2>1, <2>2
<1> QED
  BY <1>3, <1>4 DEF Load, TypeOK, AppliedRowsAreInactive, AuditingFollowsErasure,
     LocksAreHeldByUpdates, EventsFollowErasure, AuditEvent

(* A step that changes no row and no snapshot, and moves no request back to *)
(* a phase the invariant speaks of, needs only the invariant's other parts.*)
LEMMA QuietStepKeepsIInv ==
  ASSUME IInv,
         UNCHANGED <<row, req, snap, applied>>,
         TypeOK', LocksAreHeldByUpdates', EventsFollowErasure',
         \A s \in Reqs :
           /\ pc'[s] \in {"loaded", "updated"} => pc[s] \in {"loaded", "updated"}
           /\ pc'[s] \in {"erased", "auditing"} => pc[s] \in {"erased", "auditing"}
  PROVE  IInv'
BY DEF IInv, LoadedRowIsStaleOnlyByErasure, AppliedRowsAreInactive, Erased,
   AuditingFollowsErasure

LEMMA RefuseKeepsIInv ==
  ASSUME IInv, NEW r \in Reqs, Refuse(r)
  PROVE  IInv'
<1>1. TypeOK'
  BY DEF IInv, Refuse, Answer, TypeOK
<1>2. LocksAreHeldByUpdates'
  BY DEF IInv, Refuse, Answer, TypeOK, LocksAreHeldByUpdates
<1>3. EventsFollowErasure'
  BY DEF IInv, Refuse, EventsFollowErasure, AuditEvent
<1>4. \A s \in Reqs : pc'[s] \in {"loaded", "updated", "erased", "auditing"} => pc'[s] = pc[s]
  BY DEF IInv, Refuse, Answer, TypeOK
<1> QED
  BY <1>1, <1>2, <1>3, <1>4, QuietStepKeepsIInv DEF Refuse

LEMMA FlushKeepsIInv ==
  ASSUME IInv, NEW r \in Reqs, Flush(r)
  PROVE  IInv'
<1>0. req[r].id \in Users
  BY DEF IInv, Flush, LoadedRowIsStaleOnlyByErasure
<1>1. TypeOK'
  BY DEF IInv, Flush, TypeOK
<1>2. LocksAreHeldByUpdates'
  BY <1>0, RequestsAssumption DEF IInv, Flush, TypeOK, LocksAreHeldByUpdates
<1>3. EventsFollowErasure'
  BY DEF IInv, Flush, EventsFollowErasure, AuditEvent
<1>4. \A s \in Reqs : /\ pc'[s] \in {"loaded", "updated"} => pc[s] \in {"loaded", "updated"}
                      /\ pc'[s] \in {"erased", "auditing"} => pc'[s] = pc[s]
  BY DEF IInv, Flush, TypeOK
<1> QED
  BY <1>1, <1>2, <1>3, <1>4, QuietStepKeepsIInv DEF Flush

LEMMA AuditFlushKeepsIInv ==
  ASSUME IInv, NEW r \in Reqs, AuditFlush(r)
  PROVE  IInv'
<1>1. TypeOK'
  BY DEF IInv, AuditFlush, TypeOK
<1>2. LocksAreHeldByUpdates'
  BY DEF IInv, AuditFlush, TypeOK, LocksAreHeldByUpdates
<1>3. EventsFollowErasure'
  BY DEF IInv, AuditFlush, EventsFollowErasure, AuditEvent
<1>4. \A s \in Reqs : /\ pc'[s] \in {"loaded", "updated"} => pc'[s] = pc[s]
                      /\ pc'[s] \in {"erased", "auditing"} => pc[s] \in {"erased", "auditing"}
  BY DEF IInv, AuditFlush, TypeOK
<1> QED
  BY <1>1, <1>2, <1>3, <1>4, QuietStepKeepsIInv DEF AuditFlush

(* The event of a request that reached its second commit is well formed:   *)
(* the deletion is durable, so the token names an account.                 *)
LEMMA AuditCommitKeepsIInv ==
  ASSUME IInv, NEW r \in Reqs, NEW what \in {"ok", "error"}, AuditCommit(r, what)
  PROVE  IInv'
<1>0. r \in applied /\ r \in Deleters /\ req[r].id \in Users /\ req[r].org \in Orgs
  BY DEF IInv, AuditCommit, AuditingFollowsErasure, AppliedRowsAreInactive, TypeOK
<1>1. TypeOK'
  <2>1. AuditEvent(r) \in [request : Deleters, actor : Users, org : Orgs]
    BY <1>0 DEF AuditEvent
  <2> QED
    BY <2>1 DEF IInv, AuditCommit, Answer, TypeOK
<1>2. LocksAreHeldByUpdates'
  BY DEF IInv, AuditCommit, Answer, TypeOK, LocksAreHeldByUpdates
<1>3. EventsFollowErasure'
  BY <1>0 DEF IInv, AuditCommit, EventsFollowErasure, AuditEvent
<1>4. \A s \in Reqs : pc'[s] \in {"loaded", "updated", "erased", "auditing"} => pc'[s] = pc[s]
  BY DEF IInv, AuditCommit, Answer, TypeOK
<1> QED
  BY <1>1, <1>2, <1>3, <1>4, QuietStepKeepsIInv DEF AuditCommit

LEMMA AbortKeepsIInv ==
  ASSUME IInv, NEW r \in Reqs, Abort(r)
  PROVE  IInv'
<1>1. TypeOK'
  BY DEF IInv, Abort, Answer, Unlocked, TypeOK
<1>2. LocksAreHeldByUpdates'
  BY RequestsAssumption
     DEF IInv, Abort, Answer, Unlocked, TypeOK, LocksAreHeldByUpdates
<1>3. EventsFollowErasure'
  BY DEF IInv, Abort, EventsFollowErasure, AuditEvent
<1>4. \A s \in Reqs : pc'[s] \in {"loaded", "updated", "erased", "auditing"} => pc'[s] = pc[s]
  BY DEF IInv, Abort, Answer, TypeOK
<1> QED
  BY <1>1, <1>2, <1>3, <1>4, QuietStepKeepsIInv DEF Abort

LEMMA CrashKeepsIInv ==
  ASSUME IInv, Crash
  PROVE  IInv'
<1>1. TypeOK'
  BY DEF IInv, Crash, InFlight, Unlocked, TypeOK
<1>2. LocksAreHeldByUpdates'
  BY RequestsAssumption
     DEF IInv, Crash, InFlight, Unlocked, TypeOK, LocksAreHeldByUpdates
<1>3. EventsFollowErasure'
  BY DEF IInv, Crash, EventsFollowErasure, AuditEvent
<1>4. \A s \in Reqs : pc'[s] \in {"loaded", "updated", "erased", "auditing"} => pc'[s] = pc[s]
  BY DEF IInv, Crash, InFlight, TypeOK
<1> QED
  BY <1>1, <1>2, <1>3, <1>4, QuietStepKeepsIInv DEF Crash

(* The rows a COMMIT leaves, in terms of the invariant before it: in the   *)
(* other rows nothing changes; in its own the organisation stays, a live   *)
(* row gets the bumped version or none, an inactive one keeps its version. *)
LEMMA DurableRows ==
  ASSUME IInv, NEW r \in Reqs, Durable(r)
  PROVE  /\ row' \in [Users -> Account]
         /\ \A v \in Users : row'[v].org = row[v].org
         /\ \A v \in Users \ {req[r].id} : row'[v] = row[v]
         /\ LET u == req[r].id IN
            /\ u \in Users
            /\ row[u].org = req[r].org
            /\ lock[u] = r
            /\ r \in Deleters => /\ ~row'[u].active
                                 /\ row'[u].version = BumpVersion(snap[r].version)
            /\ r \notin Deleters => /\ row'[u].active = row[u].active
                                    /\ row'[u].version = row[u].version
            /\ row[u].active => row[u].version = snap[r].version
            /\ ~row[u].active => /\ Erased(u)
                                 /\ row[u].version = BumpVersion(snap[r].version)
<1> DEFINE u == req[r].id
           n == Update(row[u], snap[r], Wanted(r))
<1>1. pc[r] = "updated" /\ row' = [row EXCEPT ![u] = n]
  BY DEF Durable
<1>2. /\ u \in Users /\ n \in Account /\ n.org = row[u].org
      /\ r \in Deleters => ~n.active /\ n.version = BumpVersion(snap[r].version)
      /\ r \notin Deleters => n.active = row[u].active /\ n.version = row[u].version
  BY <1>1, CommittedRow DEF IInv
<1>3. row \in [Users -> Account]
  BY DEF IInv, TypeOK
<1> HIDE DEF n
<1>4. row'[u] = n /\ row' \in [Users -> Account]
      /\ \A v \in Users \ {u} : row'[v] = row[v]
  BY <1>1, <1>2, <1>3
<1>5. lock[u] = r
  BY <1>1, <1>2 DEF IInv, LocksAreHeldByUpdates
<1>6. /\ row[u].org = req[r].org
      /\ row[u].active => row[u].version = snap[r].version
      /\ ~row[u].active => Erased(u) /\ row[u].version = BumpVersion(snap[r].version)
  BY <1>1 DEF IInv, LoadedRowIsStaleOnlyByErasure
<1> QED
  BY <1>2, <1>4, <1>5, <1>6

LEMMA DurableKeepsIInv ==
  ASSUME IInv, NEW r \in Reqs, Durable(r), UNCHANGED <<audit, req, snap>>,
         NEW p \in {"erased", "done"}, pc' = [pc EXCEPT ![r] = p],
         p = "erased" => r \in Deleters,
         resp' \in [Reqs -> {"none", "ok", "not_found", "error"}]
  PROVE  IInv'
<1> DEFINE u == req[r].id
<1>1. applied' = applied \cup ({r} \cap Deleters) /\ lock' = Unlocked({r})
      /\ pc[r] = "updated"
  BY DEF Durable
<1>2. /\ row' \in [Users -> Account]
      /\ \A v \in Users : row'[v].org = row[v].org
      /\ \A v \in Users \ {u} : row'[v] = row[v]
      /\ u \in Users /\ row[u].org = req[r].org
      /\ r \in Deleters => ~row'[u].active /\ row'[u].version = BumpVersion(snap[r].version)
      /\ r \notin Deleters => row'[u].active = row[u].active /\ row'[u].version = row[u].version
      /\ row[u].active => row[u].version = snap[r].version
      /\ ~row[u].active => Erased(u) /\ row[u].version = BumpVersion(snap[r].version)
  BY DurableRows
<1>3. \A v \in Users : Erased(v) => Erased(v)'
  BY <1>1 DEF Erased
<1>4. r \in Deleters => Erased(u)'
  BY <1>1 DEF Erased
<1>5. TypeOK'
  BY <1>1, <1>2 DEF IInv, TypeOK, Unlocked
<1>6. LoadedRowIsStaleOnlyByErasure'
  <2> SUFFICES ASSUME NEW s \in Reqs, pc'[s] \in {"loaded", "updated"}
               PROVE  LET v == req[s].id IN
                      /\ v \in Users /\ snap[s] \in Account /\ snap[s].active
                      /\ snap[s].org = req[s].org /\ row'[v].org = req[s].org
                      /\ row'[v].active => row'[v].version = snap[s].version
                      /\ ~row'[v].active => /\ Erased(v)'
                                            /\ row'[v].version = BumpVersion(snap[s].version)
    BY DEF LoadedRowIsStaleOnlyByErasure
  <2> DEFINE v == req[s].id
  <2>1. pc[s] \in {"loaded", "updated"}
    BY DEF IInv, TypeOK
  <2>2. /\ v \in Users /\ snap[s] \in Account /\ snap[s].active
        /\ snap[s].org = req[s].org /\ row[v].org = req[s].org
        /\ row[v].active => row[v].version = snap[s].version
        /\ ~row[v].active => Erased(v) /\ row[v].version = BumpVersion(snap[s].version)
    BY <2>1 DEF IInv, LoadedRowIsStaleOnlyByErasure
  <2>3. CASE v # u
    BY <1>2, <1>3, <2>2, <2>3
  <2>4. CASE v = u /\ r \in Deleters
    BY <1>2, <1>4, <2>2, <2>4
  <2>5. CASE v = u /\ r \notin Deleters
    BY <1>2, <1>3, <2>2, <2>5
  <2> QED
    BY <2>3, <2>4, <2>5
<1>7. AppliedRowsAreInactive'
  <2> SUFFICES ASSUME NEW s \in applied'
               PROVE  req[s].id \in Users /\ ~row'[req[s].id].active
                      /\ row'[req[s].id].org = req[s].org
    BY DEF AppliedRowsAreInactive
  <2>1. CASE s \in applied
    <3>1. req[s].id \in Users /\ ~row[req[s].id].active /\ row[req[s].id].org = req[s].org
      BY <2>1 DEF IInv, AppliedRowsAreInactive
    <3> QED
      BY <3>1, <1>2
  <2>2. CASE s = r /\ r \in Deleters
    BY <1>2, <2>2
  <2> QED
    BY <1>1, <2>1, <2>2
<1>8. AuditingFollowsErasure'
  BY <1>1 DEF IInv, TypeOK, AuditingFollowsErasure
<1>9. LocksAreHeldByUpdates'
  BY <1>1, RequestsAssumption DEF IInv, TypeOK, LocksAreHeldByUpdates, Unlocked
<1>10. EventsFollowErasure'
  BY <1>1 DEF IInv, EventsFollowErasure, AuditEvent
<1> QED
  BY <1>5, <1>6, <1>7, <1>8, <1>9, <1>10 DEF IInv
-----------------------------------------------------------------------------
LEMMA NextIInv == IInv /\ [Next]_vars => IInv'
<1> SUFFICES ASSUME IInv, [Next]_vars PROVE IInv'
  OBVIOUS
<1>1. ASSUME NEW r \in Reqs, Load(r) PROVE IInv'
  BY <1>1, LoadKeepsIInv
<1>2. ASSUME NEW r \in Reqs, Refuse(r) PROVE IInv'
  BY <1>2, RefuseKeepsIInv
<1>3. ASSUME NEW r \in Reqs, Flush(r) PROVE IInv'
  BY <1>3, FlushKeepsIInv
<1>4. ASSUME NEW r \in Reqs, Commit(r) PROVE IInv'
  <2>1. Durable(r) /\ UNCHANGED <<audit, req, snap>>
    BY <1>4 DEF Commit
  <2>2. CASE r \in Deleters /\ AuditEnabled
    <3>1. pc' = [pc EXCEPT ![r] = "erased"] /\ resp' = resp
      BY <1>4, <2>2 DEF Commit
    <3> QED
      BY <2>1, <2>2, <3>1, DurableKeepsIInv DEF IInv, TypeOK
  <2>3. CASE ~(r \in Deleters /\ AuditEnabled)
    <3>1. pc' = [pc EXCEPT ![r] = "done"] /\ resp' = [resp EXCEPT ![r] = "ok"]
      BY <1>4, <2>3 DEF Commit, Answer
    <3> QED
      BY <2>1, <3>1, DurableKeepsIInv DEF IInv, TypeOK
  <2> QED
    BY <2>2, <2>3
<1>5. ASSUME NEW r \in Reqs, CommitUnknown(r) PROVE IInv'
  BY <1>5, DurableKeepsIInv DEF CommitUnknown, Answer, IInv, TypeOK
<1>6. ASSUME NEW r \in Reqs, AuditFlush(r) PROVE IInv'
  BY <1>6, AuditFlushKeepsIInv
<1>7. ASSUME NEW r \in Reqs, NEW what \in {"ok", "error"}, AuditCommit(r, what)
      PROVE IInv'
  BY <1>7, AuditCommitKeepsIInv
<1>8. ASSUME NEW r \in Reqs, Abort(r) PROVE IInv'
  BY <1>8, AbortKeepsIInv
<1>9. CASE Crash
  BY <1>9, CrashKeepsIInv
<1>10. CASE UNCHANGED vars
  <2>1. UNCHANGED <<row, lock, audit, req, pc, snap, resp, applied>>
    BY <1>10 DEF vars
  <2>2. TypeOK' /\ LocksAreHeldByUpdates' /\ EventsFollowErasure'
    BY <2>1 DEF IInv, TypeOK, LocksAreHeldByUpdates, EventsFollowErasure, AuditEvent
  <2> QED
    BY <2>1, <2>2, QuietStepKeepsIInv
<1> QED
  BY <1>1, <1>2, <1>3, <1>4, <1>5, <1>6, <1>7, <1>8, <1>9, <1>10 DEF Next, Progress

(* Every reachable state satisfies the inductive invariant.                *)
THEOREM InductiveInvariant == Spec => []IInv
BY InitIInv, NextIInv, PTL DEF Spec

(* Type correctness, for every configuration of the router.                *)
THEOREM TypeCorrect == Spec => []TypeOK
<1>1. IInv => TypeOK
  BY DEF IInv
<1> QED
  BY <1>1, InductiveInvariant, PTL

(* The trail names only erased accounts, under their own organisation.     *)
THEOREM TrailNamesErased == Spec => []AuditOnlyForErased
<1>1. IInv => AuditOnlyForErased
  <2> SUFFICES ASSUME IInv, NEW e \in audit
               PROVE  Erased(e.actor) /\ ~row[e.actor].active /\ row[e.actor].org = e.org
    BY DEF AuditOnlyForErased
  <2>1. e.request \in applied /\ e = AuditEvent(e.request)
    BY DEF IInv, EventsFollowErasure
  <2>2. e.actor = req[e.request].id /\ e.org = req[e.request].org
    BY <2>1 DEF AuditEvent
  <2> QED
    BY <2>1, <2>2 DEF IInv, AppliedRowsAreInactive, Erased
<1> QED
  BY <1>1, InductiveInvariant, PTL
-----------------------------------------------------------------------------
(* The only steps that change a row are the commits of an UPDATE.          *)
LEMMA RowsChangeByCommit ==
  ASSUME IInv, [Next]_vars
  PROVE  \/ UNCHANGED <<row, applied>>
         \/ \E r \in Reqs : Durable(r)
BY DEF Next, Progress, vars, Load, Refuse, Flush, Commit, CommitUnknown,
   AuditFlush, AuditCommit, Abort, Crash

(* The tokens' claims and the payloads are what they were.                 *)
LEMMA RequestsKeepTheirClaims ==
  ASSUME [Next]_vars PROVE req' = req
BY DEF Next, Progress, vars, Load, Refuse, Flush, Commit, CommitUnknown,
   AuditFlush, AuditCommit, Abort, Crash

(* What any step may do to a row: it never changes its organisation, never *)
(* makes an inactive row active, never moves the version of one, and makes *)
(* a live row inactive only by a deletion, which moves its version up.     *)
LEMMA RowsOnlyGoForward ==
  ASSUME IInv, [Next]_vars, NEW u \in Users
  PROVE  /\ row'[u].org = row[u].org
         /\ ~row[u].active => ~row'[u].active /\ row'[u].version = row[u].version
         /\ Erased(u) => Erased(u)' /\ ~row[u].active
         /\ row[u].active /\ row'[u].active => row'[u].version = row[u].version
         /\ row[u].active /\ ~row'[u].active => /\ Erased(u)'
                                               /\ row'[u].version > row[u].version
         /\ ~row[u].active /\ ~Erased(u) => ~Erased(u)'
<1>1. req' = req
  BY RequestsKeepTheirClaims
<1>2. Erased(u) => ~row[u].active
  BY DEF IInv, AppliedRowsAreInactive, Erased
<1>3. CASE UNCHANGED <<row, applied>>
  BY <1>1, <1>2, <1>3 DEF Erased
<1>4. CASE \E r \in Reqs : Durable(r)
  <2>1. PICK r \in Reqs : Durable(r)
    BY <1>4
  <2>2. applied' = applied \cup ({r} \cap Deleters)
    BY <2>1 DEF Durable
  <2>3. Erased(u) => Erased(u)'
    BY <1>1, <2>2 DEF Erased
  <2>4. CASE u # req[r].id
    <3>1. row'[u] = row[u] /\ row'[u].org = row[u].org
      BY <2>1, <2>4, DurableRows
    <3>2. Erased(u)' => Erased(u)
      BY <1>1, <2>2, <2>4 DEF Erased
    <3> QED
      BY <1>2, <2>3, <3>1, <3>2
  <2>5. CASE u = req[r].id
    <3>1. /\ row'[u].org = row[u].org
          /\ r \in Deleters => ~row'[u].active /\ row'[u].version = BumpVersion(snap[r].version)
          /\ r \notin Deleters => row'[u].active = row[u].active
                                 /\ row'[u].version = row[u].version
          /\ row[u].active => row[u].version = snap[r].version
          /\ ~row[u].active => Erased(u) /\ row[u].version = BumpVersion(snap[r].version)
      BY <2>1, <2>5, DurableRows
    <3>2. r \in Deleters => Erased(u)'
      BY <1>1, <2>2, <2>5 DEF Erased
    <3>3. row[u].version \in Nat
      BY DEF IInv, TypeOK, Account
    <3>4. row[u].active => BumpVersion(snap[r].version) > row[u].version
      BY <3>1, <3>3, BumpVersionGrows
    <3> QED
      BY <1>2, <2>3, <3>1, <3>2, <3>4
  <2> QED
    BY <2>4, <2>5
<1> QED
  BY <1>3, <1>4, RowsChangeByCommit

(* A committed deletion is never undone.                                   *)
THEOREM ErasureIsIrreversible == Spec => ErasureIsFinal
<1>1. IInv /\ [Next]_vars => [ErasedStaysErased]_vars
  BY RowsOnlyGoForward DEF ErasedStaysErased
<1> QED
  BY <1>1, InductiveInvariant, PTL DEF Spec, ErasureIsFinal

(* No transaction crosses an organisation's boundary.                      *)
THEOREM TenantsAreIsolated == Spec => TenantIsolation
<1>1. ASSUME IInv, [Next]_vars PROVE [RowsChangeInTheirTenant]_vars
  <2> SUFFICES ASSUME NEW u \in Users, row'[u] # row[u]
               PROVE  /\ row'[u].org = row[u].org
                      /\ \E r \in Reqs : lock[u] = r /\ req[r].org = row[u].org
    BY DEF RowsChangeInTheirTenant
  <2>1. PICK r \in Reqs : Durable(r)
    BY <1>1, RowsChangeByCommit
  <2>2. u = req[r].id /\ lock[u] = r /\ row[u].org = req[r].org
    BY <1>1, <2>1, DurableRows
  <2> QED
    BY <1>1, <2>2, RowsOnlyGoForward
<1> QED
  BY <1>1, InductiveInvariant, PTL DEF Spec, TenantIsolation
-----------------------------------------------------------------------------
(* What the answers mean.                                                  *)

(* A step answers "ok" to a deletion only when it is durable and, where an *)
(* audit model is given, together with the commit of its event.            *)
LEMMA OkIsAnsweredLast ==
  ASSUME IInv, [Next]_vars, NEW r \in Deleters, resp[r] # "ok", resp'[r] = "ok"
  PROVE  r \in applied' /\ (AuditEnabled => AuditEvent(r)' \in audit')
<1> r \in Reqs
  BY DEF Reqs
<1>1. req' = req /\ AuditEvent(r)' = AuditEvent(r)
  BY RequestsKeepTheirClaims DEF AuditEvent
<1>2. resp \in [Reqs -> {"none", "ok", "not_found", "error"}]
  BY DEF IInv, TypeOK
<1>3. ASSUME NEW s \in Reqs, NEW what, Answer(s, what) PROVE s = r /\ what = "ok"
  BY <1>2, <1>3 DEF Answer
<1>4. ASSUME NEW s \in Reqs, Commit(s) PROVE s = r /\ s \in applied' /\ ~AuditEnabled
  <2>1. Answer(s, "ok") /\ ~(s \in Deleters /\ AuditEnabled)
    BY <1>4 DEF Commit
  <2>2. s = r
    BY <1>3, <2>1
  <2>3. r \in applied'
    BY <1>4, <2>2 DEF Commit, Durable
  <2> QED
    BY <2>1, <2>2, <2>3
<1>5. ASSUME NEW s \in Reqs, NEW what \in {"ok", "error"}, AuditCommit(s, what)
      PROVE  s = r /\ s \in applied' /\ AuditEvent(s) \in audit'
  <2>1. s = r
    BY <1>3, <1>5 DEF AuditCommit
  <2>2. s \in applied /\ applied' = applied
    BY <1>5 DEF AuditCommit, IInv, AuditingFollowsErasure
  <2> QED
    BY <2>1, <2>2, <1>5 DEF AuditCommit
<1>6. ASSUME NEW s \in Reqs, Refuse(s) \/ CommitUnknown(s) \/ Abort(s) PROVE FALSE
  <2>1. Answer(s, "not_found") \/ Answer(s, "error")
    BY <1>6 DEF Refuse, CommitUnknown, Abort
  <2> QED
    BY <1>3, <2>1
<1>7. ASSUME NEW s \in Reqs, Load(s) \/ Flush(s) \/ AuditFlush(s) PROVE FALSE
  BY <1>7 DEF Load, Flush, AuditFlush
<1>8. ASSUME Crash \/ UNCHANGED vars PROVE FALSE
  BY <1>8 DEF Crash, vars
<1> QED
  BY <1>1, <1>4, <1>5, <1>6, <1>7, <1>8 DEF Next, Progress

(* An answer of success can be relied on: OkMeansErasedAndAudited.         *)
THEOREM OkIsReliable == Spec => []OkMeansErasedAndAudited
<1>1. Init => OkMeansErasedAndAudited
  BY DEF Init, OkMeansErasedAndAudited, Reqs
<1>2. IInv /\ IInv' /\ [Next]_vars /\ OkMeansErasedAndAudited => OkMeansErasedAndAudited'
  <2> SUFFICES ASSUME IInv, IInv', [Next]_vars, OkMeansErasedAndAudited,
                      NEW r \in Deleters, resp'[r] = "ok"
               PROVE  /\ r \in applied'
                      /\ ~row'[req'[r].id].active
                      /\ AuditEnabled => AuditEvent(r)' \in audit'
    BY DEF OkMeansErasedAndAudited
  <2>1. req' = req /\ applied \subseteq applied' /\ audit \subseteq audit'
    BY DEF Next, Progress, vars, Load, Refuse, Flush, Commit, CommitUnknown, Durable,
       AuditFlush, AuditCommit, Abort, Crash
  <2>2. r \in applied' /\ (AuditEnabled => AuditEvent(r)' \in audit')
    <3>1. CASE resp[r] = "ok"
      BY <2>1, <3>1 DEF OkMeansErasedAndAudited, AuditEvent
    <3>2. CASE resp[r] # "ok"
      BY <3>2, OkIsAnsweredLast
    <3> QED
      BY <3>1, <3>2
  <2>3. ~row'[req'[r].id].active
    BY <2>2 DEF IInv, AppliedRowsAreInactive
  <2> QED
    BY <2>2, <2>3
<1> QED
  BY <1>1, <1>2, InductiveInvariant, PTL DEF Spec

(* A 404 stays true: NotFoundMeansGone.                                    *)
THEOREM NotFoundIsReliable == Spec => []NotFoundMeansGone
<1>1. Init => NotFoundMeansGone
  BY DEF Init, NotFoundMeansGone
<1>2. IInv /\ [Next]_vars /\ NotFoundMeansGone => NotFoundMeansGone'
  <2> SUFFICES ASSUME IInv, [Next]_vars, NotFoundMeansGone,
                      NEW r \in Reqs, NEW u \in Users,
                      resp'[r] = "not_found", req'[r].id = u,
                      row'[u].org = req'[r].org
               PROVE  ~row'[u].active
    BY DEF NotFoundMeansGone
  <2>1. req' = req
    BY RequestsKeepTheirClaims
  <2>2. row'[u].org = row[u].org /\ (~row[u].active => ~row'[u].active)
    BY RowsOnlyGoForward
  <2>3. CASE resp[r] = "not_found"
    BY <2>1, <2>2, <2>3 DEF NotFoundMeansGone
  <2>4. CASE resp[r] # "not_found"
    <3>1. Refuse(r)
      BY <2>4 DEF Next, Progress, vars, Load, Refuse, Flush, Commit, CommitUnknown,
         Durable, AuditFlush, AuditCommit, Abort, Crash, Answer, IInv, TypeOK
    <3>2. u \in Selected(r)
      BY <2>1, <2>2 DEF Selected, scope_query
    <3> QED
      BY <2>2, <3>1, <3>2 DEF Refuse
  <2> QED
    BY <2>3, <2>4
<1> QED
  BY <1>1, <1>2, InductiveInvariant, PTL DEF Spec
-----------------------------------------------------------------------------
(* Personal data.                                                          *)
Impersonal == {"null", "placeholder"}

(* What a column may hold instead of what was stored before.               *)
Fresh(u) == Impersonal \cup {e \in Editors : req[e].id = u}

(* Between its SELECT and its commit a request finds in a column what it   *)
(* loaded, or what another request for the account has made of it.         *)
LoadedOrFresh ==
  \A r \in Reqs : pc[r] \in {"loaded", "updated"} =>
    \A c \in PiiCols \cap ScrubbedCols :
      row[req[r].id].data[c] \in {snap[r].data[c]} \cup Fresh(req[r].id)

(* Net changes hide no scrub: a column that is not written held, when it   *)
(* was loaded, what the deletion would have written.                       *)
LEMMA DeletionFreshens ==
  ASSUME IInv, LoadedOrFresh, NEW r \in Deleters, Durable(r),
         NEW c \in PiiCols \cap ScrubbedCols
  PROVE  row'[req[r].id].data[c] \in Fresh(req[r].id)
<1> DEFINE u == req[r].id
           n == Update(row[u], snap[r], Wanted(r))
<1>1. pc[r] = "updated" /\ row' = [row EXCEPT ![u] = n]
  BY DEF Durable
<1>2. u \in Users /\ snap[r] \in Account /\ r \in Reqs
  BY <1>1 DEF IInv, LoadedRowIsStaleOnlyByErasure, Reqs
<1>3. row'[u] = n
  BY <1>1, <1>2 DEF IInv, TypeOK
<1>4. Wanted(r).data[c] = ScrubValue(c)
  BY <1>2 DEF Wanted, Scrubbed, Account
<1>5. n.data[c] = Net(row[u].data[c], snap[r].data[c], ScrubValue(c))
  BY <1>4 DEF Update
<1>6. ScrubValue(c) \in Fresh(u)
  BY DEF ScrubValue, Impersonal, Fresh
<1>7. row[u].data[c] \in {snap[r].data[c]} \cup Fresh(u)
  BY <1>1, <1>2 DEF LoadedOrFresh
<1> QED
  BY <1>3, <1>5, <1>6, <1>7 DEF Net

(* An update leaves a column alone or writes what it carries.              *)
LEMMA UpdateFreshens ==
  ASSUME IInv, NEW r \in Reqs, r \notin Deleters, Durable(r), NEW c \in PiiCols
  PROVE  row'[req[r].id].data[c] \in {row[req[r].id].data[c]} \cup Fresh(req[r].id)
<1> DEFINE u == req[r].id
           n == Update(row[u], snap[r], Wanted(r))
<1>1. pc[r] = "updated" /\ row' = [row EXCEPT ![u] = n]
  BY DEF Durable
<1>2. u \in Users /\ snap[r] \in Account /\ r \in Editors
  BY <1>1 DEF IInv, LoadedRowIsStaleOnlyByErasure, Reqs
<1>3. row'[u] = n
  BY <1>1, <1>2 DEF IInv, TypeOK
<1>4. Wanted(r).data[c] \in {snap[r].data[c], r}
  BY <1>2 DEF Wanted, Edited, Account
<1>5. n.data[c] = Net(row[u].data[c], snap[r].data[c], Wanted(r).data[c])
  BY DEF Update
<1>6. r \in Fresh(u)
  BY <1>2 DEF Fresh
<1> QED
  BY <1>3, <1>4, <1>5, <1>6 DEF Net

LEMMA NoPiiInductive ==
  ASSUME IInv, LoadedOrFresh, ErasedHoldsNoPii, [Next]_vars
  PROVE  LoadedOrFresh' /\ ErasedHoldsNoPii'
<1>0. req' = req /\ \A v : Fresh(v)' = Fresh(v)
  BY RequestsKeepTheirClaims DEF Fresh
<1>1. ASSUME NEW r \in Reqs, Durable(r), UNCHANGED <<req, snap>>,
             NEW p \in {"erased", "done"}, pc' = [pc EXCEPT ![r] = p]
      PROVE  LoadedOrFresh' /\ ErasedHoldsNoPii'
  <2> DEFINE u == req[r].id
  <2>1. /\ u \in Users /\ \A v \in Users \ {u} : row'[v] = row[v]
        /\ applied' = applied \cup ({r} \cap Deleters)
    BY <1>1, DurableRows DEF Durable
  <2>2. \A c \in PiiCols \cap ScrubbedCols :
          row'[u].data[c] \in Fresh(u) \cup (IF r \in Deleters THEN {} ELSE {row[u].data[c]})
    BY <1>1, DeletionFreshens, UpdateFreshens
  <2>3. LoadedOrFresh'
    <3> SUFFICES ASSUME NEW s \in Reqs, pc'[s] \in {"loaded", "updated"},
                        NEW c \in PiiCols \cap ScrubbedCols
                 PROVE  row'[req[s].id].data[c] \in {snap[s].data[c]} \cup Fresh(req[s].id)
      BY <1>0, <1>1 DEF LoadedOrFresh, ScrubbedCols
    <3>1. pc[s] \in {"loaded", "updated"}
      BY <1>1 DEF IInv, TypeOK
    <3>2. /\ req[s].id \in Users
          /\ row[req[s].id].data[c] \in {snap[s].data[c]} \cup Fresh(req[s].id)
      BY <3>1 DEF IInv, LoadedRowIsStaleOnlyByErasure, LoadedOrFresh
    <3> QED
      BY <2>1, <2>2, <3>2
  <2>4. ErasedHoldsNoPii'
    <3> SUFFICES ASSUME NEW v \in Users, Erased(v)', NEW c \in PiiCols \cap ScrubbedCols
                 PROVE  row'[v].data[c] \in Fresh(v)
      BY <1>0 DEF ErasedHoldsNoPii, ScrubbedCols, Impersonal, Fresh
    <3>1. Erased(v) => row[v].data[c] \in Fresh(v)
      BY DEF ErasedHoldsNoPii, ScrubbedCols, Impersonal, Fresh
    <3>2. CASE v = u /\ r \in Deleters
      BY <2>2, <3>2
    <3>3. CASE v # u \/ r \notin Deleters
      <4>1. Erased(v)
        BY <1>1, <2>1, <3>3 DEF Erased
      <4> QED
        BY <2>1, <2>2, <3>1, <3>3, <4>1
    <3> QED
      BY <3>2, <3>3
  <2> QED
    BY <2>3, <2>4
<1>2. ASSUME UNCHANGED <<row, req, applied>>,
             \A s \in Reqs : pc'[s] \in {"loaded", "updated"} =>
               \/ pc[s] \in {"loaded", "updated"} /\ snap'[s] = snap[s]
               \/ snap'[s] = row[req[s].id]
      PROVE  LoadedOrFresh' /\ ErasedHoldsNoPii'
  <2>1. ErasedHoldsNoPii'
    BY <1>2 DEF ErasedHoldsNoPii, Erased
  <2>2. LoadedOrFresh'
    BY <1>0, <1>2 DEF LoadedOrFresh, ScrubbedCols
  <2> QED
    BY <2>1, <2>2
<1>3. ASSUME NEW r \in Reqs, Load(r) PROVE LoadedOrFresh' /\ ErasedHoldsNoPii'
  <2>1. PICK u \in Selected(r) : snap' = [snap EXCEPT ![r] = row[u]]
    BY <1>3 DEF Load
  <2>2. u = req[r].id
    BY DEF Selected, scope_query
  <2>3. pc' = [pc EXCEPT ![r] = "loaded"] /\ UNCHANGED <<row, req, applied>>
    BY <1>3 DEF Load
  <2> QED
    BY <1>2, <2>1, <2>2, <2>3 DEF IInv, TypeOK
<1>4. ASSUME UNCHANGED <<row, req, applied, snap>>,
             \A s \in Reqs : pc'[s] \in {"loaded", "updated"} => pc[s] \in {"loaded", "updated"}
      PROVE  LoadedOrFresh' /\ ErasedHoldsNoPii'
  BY <1>2, <1>4
<1>5. ASSUME NEW r \in Reqs, Refuse(r) \/ Abort(r) \/ AuditFlush(r) \/ Flush(r)
                               \/ \E what \in {"ok", "error"} : AuditCommit(r, what)
      PROVE  LoadedOrFresh' /\ ErasedHoldsNoPii'
  <2>1. UNCHANGED <<row, req, applied, snap>>
    BY <1>5 DEF Refuse, Abort, AuditFlush, Flush, AuditCommit
  <2>2. \A s \in Reqs : pc'[s] \in {"loaded", "updated"} => pc[s] \in {"loaded", "updated"}
    BY <1>5 DEF Refuse, Abort, AuditFlush, Flush, AuditCommit, Answer, IInv, TypeOK
  <2> QED
    BY <1>4, <2>1, <2>2
<1>6. CASE Crash
  BY <1>4, <1>6 DEF Crash
<1>7. CASE UNCHANGED vars
  BY <1>4, <1>7 DEF vars
<1>8. ASSUME NEW r \in Reqs, Commit(r) \/ CommitUnknown(r)
      PROVE  LoadedOrFresh' /\ ErasedHoldsNoPii'
  <2>1. Durable(r) /\ UNCHANGED <<req, snap>>
    BY <1>8 DEF Commit, CommitUnknown
  <2>2. pc' = [pc EXCEPT ![r] = "erased"] \/ pc' = [pc EXCEPT ![r] = "done"]
    BY <1>8 DEF Commit, CommitUnknown, Answer
  <2> QED
    BY <1>1, <2>1, <2>2
<1> QED
  BY <1>3, <1>5, <1>6, <1>7, <1>8 DEF Next, Progress

(* However requests for an account overlap, nothing of what was stored     *)
(* survives in the columns a deletion scrubs: ErasedHoldsNoPii.            *)
THEOREM DeletionsLeaveNoPii == Spec => []ErasedHoldsNoPii
<1>1. Init => LoadedOrFresh /\ ErasedHoldsNoPii
  BY DEF Init, LoadedOrFresh, ErasedHoldsNoPii, Erased
<1>2. IInv /\ LoadedOrFresh /\ ErasedHoldsNoPii /\ [Next]_vars
        => LoadedOrFresh' /\ ErasedHoldsNoPii'
  BY NoPiiInductive
<1> QED
  BY <1>1, <1>2, InductiveInvariant, PTL DEF Spec
-----------------------------------------------------------------------------
(* The refinement of ErasureContract.                                      *)
Version == [u \in Users |-> row[u].version]
Owner   == [u \in Users |-> row[u].org]
Trail   == {<<e.actor, e.org>> : e \in audit}

LEMMA InitImplementsContract == ASSUME Init, IInv PROVE Contract!Init
<1>1. \A u \in Users : ~Erased(u)
  BY DEF Init, Erased
<1>2. Status \in [Users -> {"live", "disabled"}]
  BY <1>1 DEF Status
<1>3. Version \in [Users -> Nat] /\ Owner \in [Users -> Orgs]
  BY DEF IInv, TypeOK, Account, Version, Owner
<1>4. Trail = {}
  BY DEF Init, Trail
<1> QED
  BY <1>2, <1>3, <1>4 DEF Contract!Init, Version, Owner, Trail

(* The commit of a deletion erases its account, or changes nothing in the  *)
(* contract's eyes when a concurrent one was first; so does an update's.   *)
LEMMA DurableImplementsContract ==
  ASSUME IInv, IInv', [Next]_vars, NEW r \in Reqs, Durable(r), audit' = audit
  PROVE  [Contract!Next]_Contract!vars
<1>1. PICK u \in Users : u = req[r].id
  BY DurableRows
<1>2. \A v \in Users : v # u => row'[v] = row[v]
  BY <1>1, DurableRows
<1>3. ~row[u].active => Erased(u)
  BY <1>1, DurableRows
<1>4. req' = req /\ applied' = applied \cup ({r} \cap Deleters)
  BY RequestsKeepTheirClaims DEF Durable
<1>5. Owner' = Owner /\ Trail' = Trail
  BY RowsOnlyGoForward DEF Owner, Trail
<1>6. \A v \in Users : v # u => Version'[v] = Version[v] /\ Status'[v] = Status[v]
  <2> SUFFICES ASSUME NEW v \in Users, v # u
               PROVE  Version'[v] = Version[v] /\ Status'[v] = Status[v]
    OBVIOUS
  <2>1. row'[v] = row[v]
    BY <1>2
  <2>2. Erased(v)' <=> Erased(v)
    BY <1>1, <1>4 DEF Erased
  <2> QED
    BY <2>1, <2>2 DEF Version, Status
<1>7. Version' \in [Users -> Nat]
  BY DEF IInv, TypeOK, Account, Version
<1>8. CASE row[u].active /\ ~row'[u].active
  <2>1. Erased(u)' /\ row'[u].version > row[u].version
    BY <1>1, <1>8, RowsOnlyGoForward
  <2>2. Status[u] = "live" /\ Status'[u] = "erased"
    BY <1>1, <1>8, <2>1 DEF Status
  <2>3. Status' = [Status EXCEPT ![u] = "erased"]
    BY <1>1, <1>6, <2>2 DEF Status
  <2>4. Version'[u] > Version[u]
    BY <1>1, <2>1 DEF Version
  <2>5. Contract!Erase(u)
    BY <1>5, <1>6, <1>7, <2>2, <2>3, <2>4 DEF Contract!Erase, Version, Owner, Trail
  <2> QED
    BY <1>1, <2>5 DEF Contract!Next
<1>9. CASE ~(row[u].active /\ ~row'[u].active)
  <2>1. /\ row'[u].active <=> row[u].active
        /\ row'[u].version = row[u].version
    BY <1>1, <1>9, RowsOnlyGoForward
  <2>2. ~row[u].active => Erased(u) /\ Erased(u)'
    BY <1>3, RowsOnlyGoForward
  <2>3. Status'[u] = Status[u] /\ Version'[u] = Version[u]
    BY <1>1, <2>1, <2>2 DEF Status, Version
  <2>4. Status' = Status /\ Version' = Version
    BY <1>1, <1>6, <2>3 DEF Status, Version
  <2> QED
    BY <1>5, <2>4 DEF Contract!vars, Version, Owner, Trail
<1> QED
  BY <1>8, <1>9

(* The commit of an audit event records its account.                       *)
LEMMA AuditCommitImplementsContract ==
  ASSUME IInv, NEW r \in Reqs, NEW what \in {"ok", "error"}, AuditCommit(r, what)
  PROVE  Contract!Next
<1>1. r \in applied
  BY DEF IInv, AuditCommit, AuditingFollowsErasure
<1>2. PICK u \in Users : /\ u = req[r].id /\ Erased(u)
                       /\ ~row[u].active /\ row[u].org = req[r].org
  BY <1>1 DEF IInv, AppliedRowsAreInactive, Erased
<1>3. Status[u] = "erased" /\ Owner[u] = req[r].org
  BY <1>2 DEF Status, Owner
<1>4. audit' = audit \cup {AuditEvent(r)}
  BY DEF AuditCommit
<1>5. Trail' = Trail \cup {<<u, Owner[u]>>}
  <2>1. AuditEvent(r).actor = u /\ AuditEvent(r).org = Owner[u]
    BY <1>2, <1>3 DEF AuditEvent
  <2> QED
    BY <1>4, <2>1 DEF Trail
<1>6. row' = row /\ req' = req /\ applied' = applied
  BY DEF AuditCommit
<1>7. Status' = Status /\ Version' = Version /\ Owner' = Owner
  BY <1>6 DEF Status, Version, Owner, Erased
<1>8. Contract!Record(u)
  BY <1>3, <1>5, <1>7 DEF Contract!Record, Version, Owner, Trail
<1> QED
  BY <1>2, <1>8 DEF Contract!Next

LEMMA NextImplementsContract ==
  ASSUME IInv, IInv', [Next]_vars
  PROVE  [Contract!Next]_Contract!vars
<1>1. ASSUME NEW r \in Reqs, Durable(r), audit' = audit
      PROVE  [Contract!Next]_Contract!vars
  BY <1>1, DurableImplementsContract
<1>2. ASSUME NEW r \in Reqs, NEW what \in {"ok", "error"}, AuditCommit(r, what)
      PROVE  [Contract!Next]_Contract!vars
  BY <1>2, AuditCommitImplementsContract
<1>3. ASSUME UNCHANGED <<row, req, applied, audit>>
      PROVE  [Contract!Next]_Contract!vars
  <2>1. Status' = Status /\ Version' = Version /\ Owner' = Owner /\ Trail' = Trail
    BY <1>3 DEF Status, Version, Owner, Trail, Erased
  <2> QED
    BY <2>1 DEF Contract!vars, Version, Owner, Trail
<1> QED
  BY <1>1, <1>2, <1>3 DEF Next, Progress, vars, Load, Refuse, Flush, Commit,
     CommitUnknown, AuditFlush, Abort, Crash

(* The requests of AccountDeletion implement ErasureContract.              *)
THEOREM DeletionImplementsContract == Spec => ContractHolds
<1>1. Init => Contract!Init
  BY InitIInv, InitImplementsContract
<1>2. IInv /\ IInv' /\ [Next]_vars => [Contract!Next]_Contract!vars
  BY NextImplementsContract
<1> QED
  BY <1>1, <1>2, InductiveInvariant, PTL DEF Spec, ContractHolds, Contract!Spec
-----------------------------------------------------------------------------
(* Under a pool.                                                           *)

(* A step of the pooled requests is one of the requests, or a stutter.     *)
LEMMA PooledStepIsStep ==
  ASSUME [PooledNext]_pooledVars PROVE [Next]_vars
<1>1. ASSUME NEW r \in Reqs, PooledProgress(r) PROVE Progress(r)
  BY <1>1 DEF PooledProgress, Begin, ReadOnly, Continue, End, Progress
<1>2. ASSUME NEW r \in Reqs, Unconfigured(r) \/ Failure(r) \/ PoolTimeout(r)
      PROVE  Abort(r)
  BY <1>2 DEF Unconfigured, Failure, PoolTimeout
<1> QED
  BY <1>1, <1>2 DEF PooledNext, pooledVars, Next, Configure, Restart

(* A pool of any size leaves AccountDeletion what it is: the statements of *)
(* db.py around a handler delay it or make it fail, and nothing else.      *)
THEOREM PoolRefinesDeletion == PooledSpec => PoolOnlyDelays
<1>1. PooledInit => Init
  BY DEF PooledInit
<1> QED
  BY <1>1, PooledStepIsStep, PTL DEF PooledSpec, PoolOnlyDelays, Spec

(* So an answer of success is as reliable under a pool that is exhausted   *)
(* between the two transactions of a deletion.                             *)
THEOREM OkIsReliableUnderAnyPool == PooledSpec => []OkMeansErasedAndAudited
BY PoolRefinesDeletion, OkIsReliable, PTL DEF PoolOnlyDelays

LEMMA PooledIInv == PooledSpec => []IInv
BY PoolRefinesDeletion, InductiveInvariant, PTL DEF PoolOnlyDelays
-----------------------------------------------------------------------------
(* Connections are finitely many, which the count of them rests on.        *)
PoolIInv == ConnectionsFitTransactions /\ IsFiniteSet(conn)

(* Places of a handler, as the pool sees them.                             *)
LEMMA PlacesOfProgress ==
  ASSUME TypeOK, NEW r \in Reqs
  PROVE  /\ Load(r) => ~InTransaction(r) /\ pc' = [pc EXCEPT ![r] = "loaded"]
         /\ AuditFlush(r) => /\ ~InTransaction(r) /\ pc[r] = "erased"
                             /\ pc' = [pc EXCEPT ![r] = "auditing"]
         /\ Refuse(r) => ~InTransaction(r) /\ pc' = [pc EXCEPT ![r] = "done"]
         /\ Flush(r) => InTransaction(r) /\ pc' = [pc EXCEPT ![r] = "updated"]
         /\ Commit(r) => \/ pc' = [pc EXCEPT ![r] = "erased"]
                         \/ pc' = [pc EXCEPT ![r] = "done"]
         /\ CommitUnknown(r) => pc' = [pc EXCEPT ![r] = "done"]
         /\ \A what : AuditCommit(r, what) => pc' = [pc EXCEPT ![r] = "done"]
         /\ Abort(r) => pc' = [pc EXCEPT ![r] = "done"]
BY DEF TypeOK, Load, AuditFlush, Refuse, Flush, Commit, CommitUnknown, Durable,
   AuditCommit, Abort, Answer, InTransaction

(* What a step that moves one handler does to the set of those inside a    *)
(* transaction.                                                            *)
LEMMA MovesOfOneHandler ==
  ASSUME TypeOK, NEW r \in Reqs, NEW to, pc' = [pc EXCEPT ![r] = to]
  PROVE  /\ to \in {"loaded", "updated", "auditing"} =>
              {q \in Reqs : InTransaction(q)}' = {q \in Reqs : InTransaction(q)} \cup {r}
         /\ to \in {"erased", "done"} =>
              {q \in Reqs : InTransaction(q)}' = {q \in Reqs : InTransaction(q)} \ {r}
BY DEF TypeOK, InTransaction

(* A request that has begun was served by a process that was configured.   *)
LEMMA MovesStayConfigured ==
  ASSUME TypeOK, NEW r \in Reqs, NEW to, pc' = [pc EXCEPT ![r] = to],
         InFlight # {} => ready, ready' = ready, to = "done" \/ ready
  PROVE  InFlight' # {} => ready'
BY DEF TypeOK, InFlight

LEMMA RemovingKeepsBound ==
  ASSUME NEW S, IsFiniteSet(S), NEW x
  PROVE  /\ IsFiniteSet(S \ {x}) /\ Cardinality(S \ {x}) \in Nat
         /\ Cardinality(S \ {x}) <= Cardinality(S)
<1>1. S \ {x} \in SUBSET S
  OBVIOUS
<1>2. IsFiniteSet(S \ {x}) /\ Cardinality(S \ {x}) <= Cardinality(S)
  BY <1>1, FS_Subset
<1> QED
  BY <1>2, FS_CardinalityType

LEMMA PoolIInvInit == PooledInit => PoolIInv
<1> SUFFICES ASSUME PooledInit PROVE PoolIInv
  OBVIOUS
<1>1. \A r \in Reqs : pc[r] = "arrived"
  BY DEF PooledInit, Init
<1>2. {r \in Reqs : InTransaction(r)} = {} /\ InFlight = {}
  BY <1>1 DEF InTransaction, InFlight
<1> QED
  BY <1>2, FS_EmptySet, CapacityAssumption
     DEF PooledInit, PoolIInv, ConnectionsFitTransactions

LEMMA PoolIInvStep ==
  ASSUME TypeOK, PoolIInv, [PooledNext]_pooledVars
  PROVE  PoolIInv'
<1> DEFINE Inside == {r \in Reqs : InTransaction(r)}
<1>0. /\ conn = Inside /\ IsFiniteSet(conn) /\ Cardinality(conn) <= Capacity
      /\ InFlight # {} => ready
      /\ Cardinality(conn) \in Nat /\ Capacity \in Nat \ {0}
  BY FS_CardinalityType, CapacityAssumption DEF PoolIInv, ConnectionsFitTransactions
<1>a. ASSUME NEW r \in Reqs, PooledProgress(r) PROVE PoolIInv'
  <2>1. CASE Begin(r)
    <3>1. PICK to \in {"loaded", "auditing"} : pc' = [pc EXCEPT ![r] = to]
      BY <2>1, PlacesOfProgress DEF Begin
    <3>2. Inside' = Inside \cup {r}
      BY <3>1, MovesOfOneHandler
    <3>3. conn' = conn \cup {r} /\ ready /\ ready' = ready /\ r \notin conn
          /\ Cardinality(conn) < Capacity
      BY <2>1 DEF Begin, ConnectionFree
    <3>4. IsFiniteSet(conn') /\ Cardinality(conn') = Cardinality(conn) + 1
      BY <1>0, <3>3, FS_AddElement
    <3>5. InFlight' # {} => ready'
      BY <1>0, <3>1, <3>3, MovesStayConfigured
    <3> QED
      BY <1>0, <3>2, <3>3, <3>4, <3>5 DEF PoolIInv, ConnectionsFitTransactions
  <2>2. CASE ReadOnly(r)
    <3>1. pc' = [pc EXCEPT ![r] = "done"] /\ r \notin Inside
      BY <2>2, PlacesOfProgress DEF ReadOnly
    <3>2. Inside' = Inside \ {r}
      BY <3>1, MovesOfOneHandler
    <3>3. InFlight' # {} => ready'
      BY <1>0, <2>2, <3>1, MovesStayConfigured DEF ReadOnly
    <3> QED
      BY <1>0, <2>2, <3>1, <3>2, <3>3 DEF ReadOnly, PoolIInv, ConnectionsFitTransactions
  <2>3. CASE Continue(r)
    <3>1. pc' = [pc EXCEPT ![r] = "updated"] /\ r \in Inside
      BY <2>3, PlacesOfProgress DEF Continue
    <3>2. Inside' = Inside \cup {r} /\ r \in InFlight
      BY <3>1, MovesOfOneHandler DEF InTransaction, InFlight
    <3>3. InFlight' # {} => ready'
      BY <1>0, <2>3, <3>1, <3>2, MovesStayConfigured DEF Continue
    <3> QED
      BY <1>0, <2>3, <3>1, <3>2, <3>3 DEF Continue, PoolIInv, ConnectionsFitTransactions
  <2>4. CASE End(r)
    <3>1. PICK to \in {"erased", "done"} : pc' = [pc EXCEPT ![r] = to]
      BY <2>4, PlacesOfProgress DEF End
    <3>2. Inside' = Inside \ {r}
      BY <3>1, MovesOfOneHandler
    <3>3. conn' = conn \ {r} /\ r \in conn /\ ready' = ready
      BY <2>4 DEF End, Returned
    <3>4. IsFiniteSet(conn') /\ Cardinality(conn') <= Cardinality(conn)
          /\ Cardinality(conn') \in Nat
      BY <1>0, <3>3, RemovingKeepsBound
    <3>5. r \in InFlight
      BY <1>0, <3>3 DEF InTransaction, InFlight
    <3>6. InFlight' # {} => ready'
      BY <1>0, <3>1, <3>3, <3>5, MovesStayConfigured
    <3> QED
      BY <1>0, <3>2, <3>3, <3>4, <3>6 DEF PoolIInv, ConnectionsFitTransactions
  <2> QED
    BY <1>a, <2>1, <2>2, <2>3, <2>4 DEF PooledProgress
<1>b. ASSUME NEW r \in Reqs, Unconfigured(r) \/ Failure(r) \/ PoolTimeout(r)
      PROVE  PoolIInv'
  <2>1. pc' = [pc EXCEPT ![r] = "done"] /\ ready' = ready
    BY <1>b, PlacesOfProgress DEF Unconfigured, Failure, PoolTimeout
  <2>2. conn' = conn \ {r}
    <3>1. CASE Failure(r)
      BY <3>1 DEF Failure, Returned
    <3>2. CASE Unconfigured(r) \/ PoolTimeout(r)
      BY <1>0, <3>2 DEF Unconfigured, PoolTimeout, InTransaction
    <3> QED
      BY <1>b, <3>1, <3>2
  <2>3. Inside' = Inside \ {r}
    BY <2>1, MovesOfOneHandler
  <2>4. IsFiniteSet(conn') /\ Cardinality(conn') <= Cardinality(conn)
        /\ Cardinality(conn') \in Nat
    BY <1>0, <2>2, RemovingKeepsBound
  <2>5. InFlight' # {} => ready'
    BY <1>0, <2>1, MovesStayConfigured
  <2> QED
    BY <1>0, <2>2, <2>3, <2>4, <2>5 DEF PoolIInv, ConnectionsFitTransactions
<1>c. CASE Restart
  <2>1. Inside' = {} /\ InFlight' = {}
    BY <1>c DEF Restart, Crash, InFlight, InTransaction
  <2> QED
    BY <1>0, <1>c, <2>1, FS_EmptySet DEF Restart, PoolIInv, ConnectionsFitTransactions
<1>d. CASE Configure \/ UNCHANGED pooledVars
  <2>1. pc' = pc /\ conn' = conn /\ (ready' = ready \/ ready')
    BY <1>d DEF Configure, pooledVars, vars
  <2>2. Inside' = Inside /\ InFlight' = InFlight
    BY <2>1 DEF InTransaction, InFlight
  <2> QED
    BY <1>0, <2>1, <2>2 DEF PoolIInv, ConnectionsFitTransactions
<1> QED
  BY <1>a, <1>b, <1>c, <1>d DEF PooledNext

(* A pool of any size is never exceeded and never leaks a connection.      *)
THEOREM PoolNeverLeaks == PooledSpec => []ConnectionsFitTransactions
<1>1. IInv => TypeOK
  BY DEF IInv
<1>2. PoolIInv => ConnectionsFitTransactions
  BY DEF PoolIInv
<1> QED
  BY <1>1, <1>2, PoolIInvInit, PoolIInvStep, PooledIInv, PTL DEF PooledSpec

(* Whoever holds a row lock holds a connection: the queue for the row and  *)
(* the queue for the pool cannot wait for each other.                      *)
THEOREM NoHoldAndWait == PooledSpec => []LockHoldersAreConnected
<1>1. IInv /\ ConnectionsFitTransactions => LockHoldersAreConnected
  <2> SUFFICES ASSUME IInv, ConnectionsFitTransactions, NEW u \in Users, lock[u] # Free
               PROVE  lock[u] \in conn
    BY DEF LockHoldersAreConnected
  <2>1. PICK r \in Reqs : lock[u] = r
    BY DEF IInv, TypeOK
  <2>2. pc[r] = "updated"
    BY <2>1 DEF IInv, LocksAreHeldByUpdates
  <2> QED
    BY <2>1, <2>2 DEF ConnectionsFitTransactions, InTransaction
<1> QED
  BY <1>1, PooledIInv, PoolNeverLeaks, PTL

(* Inside a transaction a request can go on, unless it waits for a row     *)
(* whose holder is inside one and can.                                     *)
LEMMA TransactionsGoOn ==
  ASSUME IInv, ConnectionsFitTransactions, NEW r \in Reqs, InTransaction(r)
  PROVE  \/ CanGoOn(r)
         \/ /\ pc[r] = "loaded"
            /\ \E p \in Reqs : lock[req[r].id] = p /\ p \in conn /\ CanGoOn(p)
<1>1. r \in conn
  BY DEF ConnectionsFitTransactions
<1>2. CASE pc[r] \in {"updated", "auditing"}
  BY <1>1, <1>2 DEF CanGoOn
<1>3. CASE pc[r] = "loaded"
  <2>1. req[r].id \in Users
    BY <1>3 DEF IInv, LoadedRowIsStaleOnlyByErasure
  <2>2. CASE lock[req[r].id] = Free
    BY <1>1, <1>3, <2>2 DEF CanGoOn
  <2>3. CASE lock[req[r].id] # Free
    <3>1. PICK p \in Reqs : lock[req[r].id] = p
      BY <2>1, <2>3 DEF IInv, TypeOK
    <3>2. pc[p] = "updated"
      BY <2>1, <3>1 DEF IInv, LocksAreHeldByUpdates
    <3>3. p \in conn
      BY <3>2 DEF ConnectionsFitTransactions, InTransaction
    <3> QED
      BY <1>3, <3>1, <3>2, <3>3 DEF CanGoOn
  <2> QED
    BY <2>2, <2>3
<1> QED
  BY <1>2, <1>3 DEF InTransaction

(* No deadlock, whatever the capacity: NobodyIsStuck.                      *)
THEOREM NoDeadlock == PooledSpec => []NobodyIsStuck
<1>1. IInv /\ ConnectionsFitTransactions => NobodyIsStuck
  <2> SUFFICES ASSUME IInv, ConnectionsFitTransactions, ready,
                      NEW r \in Reqs, pc[r] \notin {"done", "lost"}
               PROVE  \E q \in {r} \cup Blockers(r) : CanGoOn(q)
    BY DEF NobodyIsStuck
  <2>1. CASE InTransaction(r)
    BY <2>1, TransactionsGoOn DEF Blockers
  <2>2. CASE ~InTransaction(r)
    <3>1. pc[r] \in {"arrived", "erased"} /\ r \notin conn
      BY <2>2 DEF IInv, TypeOK, InTransaction, ConnectionsFitTransactions
    <3>2. CASE ConnectionFree
      BY <3>1, <3>2 DEF CanGoOn
    <3>3. CASE ~ConnectionFree
      <4>1. conn # {}
        BY <3>3, FS_EmptySet, CapacityAssumption DEF ConnectionFree
      <4>2. PICK q \in Reqs : q \in conn /\ InTransaction(q)
        BY <4>1 DEF ConnectionsFitTransactions
      <4>3. \E p \in conn : CanGoOn(p)
        BY <4>2, TransactionsGoOn
      <4>4. Blockers(r) = conn
        BY <3>1 DEF Blockers
      <4> QED
        BY <4>3, <4>4
    <3> QED
      BY <3>2, <3>3
  <2> QED
    BY <2>1, <2>2
<1> QED
  BY <1>1, PooledIInv, PoolNeverLeaks, PTL
=============================================================================

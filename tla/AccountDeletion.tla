-------------------------- MODULE AccountDeletion --------------------------
(***************************************************************************)
(* DELETE /delete-account (auth/delete_account.py) on the users table of a *)
(* product, with the session of db.get_db under it and audit.record_action *)
(* after it.  Requests run concurrently, each in a session of its own: a   *)
(* SELECT, the attribute assignments on the loaded object, a commit (the   *)
(* UPDATE of the flush, then COMMIT), and for a deletion a second          *)
(* transaction with the audit event.                                       *)
(*                                                                         *)
(* The database is read committed, the default of the engine db.py builds: *)
(* a SELECT sees the last committed row and takes no lock, an UPDATE waits *)
(* for the row's write lock, which it keeps until its transaction ends.    *)
(* The ORM writes only the columns whose value differs from the one loaded.*)
(*                                                                         *)
(* Editors are the update endpoints of the product: code outside this      *)
(* repository that finds its row through tenant.scope_query and drops      *)
(* tenant.PROTECTED_FIELDS from its payload.  Neither is_active nor        *)
(* token_version is among those: payloads are taken not to have them.      *)
(***************************************************************************)
EXTENDS Naturals, FiniteSets

CONSTANTS Users,         \* ids of the rows of the users table
          Ghost,         \* an id no row has
          Orgs,          \* organisations
          Deleters,      \* requests to DELETE /delete-account
          Editors,       \* requests to an update endpoint
          PiiCols,       \* the columns of the model that hold personal data
          ScrubFields,   \* keys of the scrub_fields argument, all set to None
          Payloads,      \* the sets of columns an update request may carry
          AuditEnabled,  \* whether audit_model is given
          InitVersions,  \* token_version before any request; 0 stands for NULL
          NoRow,         \* the snapshot of a request that has loaded nothing
          Free           \* the lock of a row no transaction has updated

Reqs == Deleters \cup Editors

(* None, what the person entered, the constants the deletion writes, and   *)
(* for each update request the value it carries.                           *)
Values == {"null", "pii", "placeholder"} \cup Editors

Account == [org : Orgs, active : BOOLEAN, version : Nat,
            data : [PiiCols -> Values]]

ASSUME UsersAssumption == Ghost \notin Users
ASSUME RequestsAssumption == Deleters \cap Editors = {} /\ Free \notin Reqs
ASSUME VersionsAssumption == InitVersions \subseteq Nat
ASSUME ValuesAssumption == Editors \cap {"null", "pii", "placeholder"} = {}
ASSUME AuditAssumption == AuditEnabled \in BOOLEAN

VARIABLES row,      \* committed rows, per account
          lock,     \* per account: the request whose UPDATE is not yet committed
          audit,    \* committed audit events
          req,      \* per request: the claims of its token, and its payload
          pc,       \* per request: how far its handler is
          snap,     \* per request: the row as its SELECT returned it
          resp,     \* per request: what the client was told
          applied   \* history: the deletions whose first commit is durable

vars == <<row, lock, audit, req, pc, snap, resp, applied>>
-----------------------------------------------------------------------------
(* tenant.py: what an update endpoint may write, and the rows it may find. *)
PROTECTED_FIELDS == {"id", "organization_id", "created_by_user_id", "created_at"}

(* Fault: the payload of an update endpoint is passed on as it came.        *)
StripNothing(cols) == cols

strip_protected_fields(cols) == cols \ PROTECTED_FIELDS

scope_query(ids, org) == {u \in ids : row[u].org = org}

(* The row the SELECT of a request returns, as a set of at most one id.    *)
Selected(r) == scope_query(Users \cap {req[r].id}, req[r].org)

(* Fault: the token version is left alone when it is NULL.                 *)
BumpVersionUnlessNull(v) == IF v = 0 THEN 0 ELSE v + 1

(* delete_account.py: int(user.token_version or 1) + 1                     *)
BumpVersion(v) == IF v = 0 THEN 2 ELSE v + 1

(* The columns the deletion overwrites; mfa_enabled goes with totp_secret. *)
ScrubbedCols == {"name", "email", "phone", "avatar_url", "totp_secret"}
                  \cup ScrubFields

(* "Deleted User" and deleted_<id>@deleted.invalid, None for the others.   *)
ScrubValue(c) == IF c \in {"name", "email"} \ ScrubFields
                 THEN "placeholder" ELSE "null"

(* Fault: the account is scrubbed but not deactivated.                     *)
ScrubbedStillActive(a) ==
  [a EXCEPT !.version = BumpVersion(@),
            !.data = [c \in PiiCols |-> IF c \in ScrubbedCols
                                        THEN ScrubValue(c) ELSE @[c]]]

(* The loaded object once the deletion has made its assignments.           *)
Scrubbed(a) ==
  [a EXCEPT !.active = FALSE,
            !.version = BumpVersion(@),
            !.data = [c \in PiiCols |-> IF c \in ScrubbedCols
                                        THEN ScrubValue(c) ELSE @[c]]]

(* The loaded object once an update endpoint has set the payload's columns.*)
Edited(r, a) ==
  LET cols == strip_protected_fields(req[r].cols) IN
  [a EXCEPT !.org = IF "organization_id" \in cols THEN req[r].to ELSE @,
            !.data = [c \in PiiCols |-> IF c \in cols THEN r ELSE @[c]]]

Wanted(r) == IF r \in Deleters THEN Scrubbed(snap[r]) ELSE Edited(r, snap[r])

(* Fault: every column is written, loaded values included.                 *)
NetOfAll(cur, old, new) == new

(* The UPDATE of the flush: a column whose value is the one loaded is not  *)
(* written, whatever the row holds by now.                                 *)
Net(cur, old, new) == IF new = old THEN cur ELSE new

Update(cur, old, new) ==
  [org     |-> Net(cur.org, old.org, new.org),
   active  |-> Net(cur.active, old.active, new.active),
   version |-> Net(cur.version, old.version, new.version),
   data    |-> [c \in PiiCols |-> Net(cur.data[c], old.data[c], new.data[c])]]

(* Ending the transaction of r gives back the row it had updated.          *)
Unlocked(rs) == [u \in Users |-> IF lock[u] \in rs THEN Free ELSE lock[u]]
-----------------------------------------------------------------------------
Init ==
  /\ row \in [Users -> [org : Orgs, active : BOOLEAN, version : InitVersions,
                        data : [PiiCols -> {"null", "pii"}]]]
  /\ lock = [u \in Users |-> Free]
  /\ audit = {}
  /\ req \in [Reqs -> [id : Users \cup {Ghost}, org : Orgs,
                       cols : Payloads \cup {{}}, to : Orgs]]
  /\ \A r \in Deleters : req[r].cols = {} /\ req[r].to = req[r].org   \* no payload
  /\ \A r \in Editors : req[r].cols \in Payloads
  /\ pc = [r \in Reqs |-> "arrived"]
  /\ snap = [r \in Reqs |-> NoRow]
  /\ resp = [r \in Reqs |-> "none"]
  /\ applied = {}

Answer(r, what) == /\ pc' = [pc EXCEPT ![r] = "done"]
                   /\ resp' = [resp EXCEPT ![r] = what]

(* The SELECT, and the test of is_active on the object it returned.        *)
Load(r) ==
  /\ pc[r] = "arrived"
  /\ \E u \in Selected(r) : /\ row[u].active
                            /\ snap' = [snap EXCEPT ![r] = row[u]]
  /\ pc' = [pc EXCEPT ![r] = "loaded"]
  /\ UNCHANGED <<row, lock, audit, req, resp, applied>>

(* Fault: the ValueError of the service is caught and the handler goes on  *)
(* to its audit event.                                                     *)
RefuseAndGoOn(r) ==
  /\ pc[r] = "arrived"
  /\ \A u \in Selected(r) : ~row[u].active
  /\ pc' = [pc EXCEPT ![r] = "erased"]
  /\ UNCHANGED <<row, lock, audit, req, snap, resp, applied>>

(* No such row in the organisation, or one already inactive: 404.          *)
Refuse(r) ==
  /\ pc[r] = "arrived"
  /\ \A u \in Selected(r) : ~row[u].active
  /\ Answer(r, "not_found")
  /\ UNCHANGED <<row, lock, audit, req, snap, applied>>

(* commit(), first half: the UPDATE waits for the row's lock and takes it. *)
Flush(r) ==
  /\ pc[r] = "loaded"
  /\ lock[req[r].id] = Free
  /\ lock' = [lock EXCEPT ![req[r].id] = r]
  /\ pc' = [pc EXCEPT ![r] = "updated"]
  /\ UNCHANGED <<row, audit, req, snap, resp, applied>>

(* COMMIT: the UPDATE becomes visible and the lock is released.            *)
Durable(r) ==
  /\ pc[r] = "updated"
  /\ row' = [row EXCEPT ![req[r].id] = Update(@, snap[r], Wanted(r))]
  /\ lock' = Unlocked({r})
  /\ applied' = applied \cup ({r} \cap Deleters)

(* Fault: the client is answered before the audit event is committed.      *)
CommitAnswersEarly(r) ==
  /\ Durable(r)
  /\ IF r \in Deleters /\ AuditEnabled
     THEN /\ pc' = [pc EXCEPT ![r] = "erased"]
          /\ resp' = [resp EXCEPT ![r] = "ok"]
     ELSE Answer(r, "ok")
  /\ UNCHANGED <<audit, req, snap>>

Commit(r) ==
  /\ Durable(r)
  /\ IF r \in Deleters /\ AuditEnabled
     THEN pc' = [pc EXCEPT ![r] = "erased"] /\ UNCHANGED resp
     ELSE Answer(r, "ok")
  /\ UNCHANGED <<audit, req, snap>>

(* The COMMIT took effect but its acknowledgement was lost: commit()       *)
(* raises, and the request ends like any other failed one.                 *)
CommitUnknown(r) ==
  /\ Durable(r)
  /\ Answer(r, "error")
  /\ UNCHANGED <<audit, req, snap>>

(* record_action: the INSERT of the event, in a second transaction.        *)
AuditFlush(r) ==
  /\ pc[r] = "erased"
  /\ pc' = [pc EXCEPT ![r] = "auditing"]
  /\ UNCHANGED <<row, lock, audit, req, snap, resp, applied>>

AuditEvent(r) == [request |-> r, actor |-> req[r].id, org |-> req[r].org]

(* The handler's own commit, whose acknowledgement may be lost as well.    *)
AuditCommit(r, what) ==
  /\ pc[r] = "auditing"
  /\ audit' = audit \cup {AuditEvent(r)}
  /\ Answer(r, what)
  /\ UNCHANGED <<row, lock, req, snap, applied>>

(* Any statement may raise instead: 500, and the session closes, rolling   *)
(* back what its transaction had not committed.                            *)
Abort(r) ==
  /\ pc[r] # "done" /\ pc[r] # "lost"
  /\ Answer(r, "error")
  /\ lock' = Unlocked({r})
  /\ UNCHANGED <<row, audit, req, snap, applied>>

InFlight == {r \in Reqs : pc[r] \notin {"arrived", "done", "lost"}}

(* The process dies: its requests are gone and the database rolls back.    *)
Crash ==
  /\ InFlight # {}
  /\ pc' = [r \in Reqs |-> IF r \in InFlight THEN "lost" ELSE pc[r]]
  /\ lock' = Unlocked(InFlight)
  /\ UNCHANGED <<row, audit, req, snap, resp, applied>>

Progress(r) == \/ Load(r) \/ Refuse(r) \/ Flush(r)
               \/ Commit(r) \/ CommitUnknown(r) \/ AuditFlush(r)
               \/ \E what \in {"ok", "error"} : AuditCommit(r, what)

Next == \/ \E r \in Reqs : Progress(r) \/ Abort(r)
        \/ Crash

Spec == Init /\ [][Next]_vars
-----------------------------------------------------------------------------
(* An account is erased when a deletion of it is durable.                  *)
Erased(u) == \E r \in applied : req[r].id = u

(* Type correctness of the variables, which also says who may hold a lock. *)
TypeOK ==
  /\ row \in [Users -> Account]
  /\ lock \in [Users -> Reqs \cup {Free}]
  /\ audit \subseteq [request : Deleters, actor : Users, org : Orgs]
  /\ req \in [Reqs -> [id : Users \cup {Ghost}, org : Orgs,
                       cols : Payloads \cup {{}}, to : Orgs]]
  /\ pc \in [Reqs -> {"arrived", "loaded", "updated", "erased", "auditing",
                      "done", "lost"}]
  /\ snap \in [Reqs -> Account \cup {NoRow}]
  /\ resp \in [Reqs -> {"none", "ok", "not_found", "error"}]
  /\ applied \subseteq Deleters

(* What a deletion is to erase is gone for good once one is durable: the   *)
(* assignments of delete_account_service, scrub_fields included, reach the *)
(* row through the ORM's net changes even when requests for the account    *)
(* overlap, and no stale writer brings anything back.  What may be left in *)
(* a column is only what an update of this very account has put there.     *)
ErasedHoldsNoPii ==
  \A u \in Users : Erased(u) =>
    \A c \in PiiCols \cap ({"name", "email", "phone", "avatar_url",
                            "totp_secret"} \cup ScrubFields) :
      row[u].data[c] \in {"null", "placeholder"} \cup {e \in Editors : req[e].id = u}

(* The audit trail names only accounts that are erased and still inactive, *)
(* each under the organisation the row belongs to: the event of            *)
(* create_delete_account_router is written after the first commit, and the *)
(* claims it is built from are those the row was selected with.            *)
AuditOnlyForErased ==
  \A e \in audit : /\ Erased(e.actor)
                   /\ ~row[e.actor].active
                   /\ row[e.actor].org = e.org

(* A client told that its account is deleted can rely on it: the row is    *)
(* inactive, and the event of that very request is on the trail when the   *)
(* router was given an audit model.                                        *)
OkMeansErasedAndAudited ==
  \A r \in Deleters : resp[r] = "ok" =>
    /\ r \in applied
    /\ ~row[req[r].id].active
    /\ AuditEnabled => AuditEvent(r) \in audit

(* A 404 stays true: the account it was given for is not in the claimed    *)
(* organisation, or is inactive for good.  A client that repeats a request *)
(* whose outcome it never learnt may read a 404 as "deleted or not mine".  *)
NotFoundMeansGone ==
  \A r \in Reqs : \A u \in Users :
    resp[r] = "not_found" /\ req[r].id = u /\ row[u].org = req[r].org
      => ~row[u].active

(* Tenant isolation: a row changes only by the transaction that holds its  *)
(* lock, on behalf of a token of the row's own organisation, and it never  *)
(* moves to another organisation, whatever an update payload carries.      *)
RowsChangeInTheirTenant ==
  \A u \in Users : row'[u] # row[u] =>
    /\ row'[u].org = row[u].org
    /\ \E r \in Reqs : lock[u] = r /\ req[r].org = row[u].org
TenantIsolation == [][RowsChangeInTheirTenant]_vars

(* "This action is irreversible": a committed deletion is never undone by  *)
(* a transaction that loaded the row before it, and the token version that *)
(* revoked the account's tokens is the last one it gets.                   *)
ErasedStaysErased ==
  \A u \in Users : Erased(u) =>
    /\ Erased(u)'
    /\ ~row[u].active /\ ~row'[u].active
    /\ row'[u].version = row[u].version
ErasureIsFinal == [][ErasedStaysErased]_vars

(* Each request in the end gets its answer or dies with its process: no    *)
(* handler waits forever for the write lock of a row or for a connection,  *)
(* because the session of get_db is closed however a handler ends.         *)
EveryRequestAnswered == \A r \in Reqs : <>(pc[r] \in {"done", "lost"})

(* The contract, seen through the committed rows and the committed events. *)
Status == [u \in Users |-> IF row[u].active THEN "live"
                           ELSE IF Erased(u) THEN "erased" ELSE "disabled"]

Contract == INSTANCE ErasureContract WITH
              status  <- Status,
              version <- [u \in Users |-> row[u].version],
              owner   <- [u \in Users |-> row[u].org],
              trail   <- {<<e.actor, e.org>> : e \in audit}

(* The requests, their sessions and their two transactions implement what  *)
(* ErasureContract promises.                                               *)
ContractHolds == Contract!Spec
-----------------------------------------------------------------------------
(* What the repository says of the deletion and its code does not do.      *)

(* delete_account.py:133-134: "if provided, an audit record is written on  *)
(* successful deletion".  Once nothing is in flight, each erased account   *)
(* should be on the trail; the second transaction may never commit.        *)
ErasedAccountsAreAudited ==
  AuditEnabled /\ InFlight = {} =>
    \A u \in Users : Erased(u) => \E e \in audit : e.actor = u

(* delete_account.py:154: "Soft-deletes the account by scrubbing PII".     *)
(* The commit of a deletion should leave nothing personal in the columns   *)
(* it scrubs; one that was NULL when loaded is not in its UPDATE.          *)
CommitLeavesNoPii ==
  \A r \in applied' \ applied : \A c \in PiiCols \cap ScrubbedCols :
    row'[req[r].id].data[c] \in {"null", "placeholder"}
DeletionScrubsTheRow == [][CommitLeavesNoPii]_vars
-----------------------------------------------------------------------------
(* The inductive invariant behind the properties above.                    *)

(* What a handler between its SELECT and its commit may still rely on: its *)
(* row is in its organisation, has the token version it loaded while it is *)
(* active, and once inactive was erased, with that version bumped once.    *)
LoadedRowIsStaleOnlyByErasure ==
  \A r \in Reqs : pc[r] \in {"loaded", "updated"} =>
    LET u == req[r].id IN
    /\ u \in Users
    /\ snap[r] \in Account
    /\ snap[r].active
    /\ snap[r].org = req[r].org
    /\ row[u].org = req[r].org
    /\ row[u].active => row[u].version = snap[r].version
    /\ ~row[u].active => Erased(u) /\ row[u].version = BumpVersion(snap[r].version)

(* A durable deletion left its row inactive, in the organisation it named. *)
AppliedRowsAreInactive ==
  \A r \in applied : /\ req[r].id \in Users
                     /\ ~row[req[r].id].active
                     /\ row[req[r].id].org = req[r].org

(* Only a deletion that is durable gets as far as its audit event.         *)
AuditingFollowsErasure ==
  \A r \in Reqs : pc[r] \in {"erased", "auditing"} => r \in applied

(* A row's lock is held exactly while its UPDATE is waiting for COMMIT.    *)
LocksAreHeldByUpdates ==
  \A u \in Users : \A r \in Reqs :
    lock[u] = r <=> (pc[r] = "updated" /\ req[r].id = u)

(* Each event on the trail is the event of a durable deletion.             *)
EventsFollowErasure == \A e \in audit : e.request \in applied
                                        /\ e = AuditEvent(e.request)

IInv == /\ TypeOK
        /\ LoadedRowIsStaleOnlyByErasure
        /\ AppliedRowsAreInactive
        /\ AuditingFollowsErasure
        /\ LocksAreHeldByUpdates
        /\ EventsFollowErasure
=============================================================================

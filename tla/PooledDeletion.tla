--------------------------- MODULE PooledDeletion ---------------------------
(***************************************************************************)
(* db.py under the requests of AccountDeletion: get_db gives each request  *)
(* a session of its own once the session factory is set; a session takes a *)
(* connection from the engine's pool with the first statement of each      *)
(* transaction and gives it back when the transaction ends.  A deletion    *)
(* has two transactions and queues for a connection twice, the second time *)
(* when its account is erased already.                                     *)
(***************************************************************************)
EXTENDS AccountDeletion

CONSTANT Capacity  \* pool_size + max_overflow

ASSUME CapacityAssumption == Capacity \in Nat \ {0}

VARIABLES conn,    \* the requests whose session holds a connection
          ready    \* whether set_session_factory has been called

pooledVars == <<vars, conn, ready>>

PooledInit == Init /\ conn = {} /\ ready = FALSE

(* set_session_factory, at the start of the process.                       *)
Configure == /\ ~ready
             /\ ready' = TRUE
             /\ UNCHANGED <<vars, conn>>

(* get_db finds no factory: RuntimeError, before there is a session.       *)
Unconfigured(r) == /\ pc[r] = "arrived" /\ ~ready
                   /\ Abort(r)
                   /\ UNCHANGED <<conn, ready>>

(* The pool has a connection idle or may open another one.                 *)
ConnectionFree == ready /\ Cardinality(conn) < Capacity

(* The first statement of a transaction waits for a connection.            *)
Begin(r) == /\ ConnectionFree /\ r \notin conn
            /\ Load(r) \/ AuditFlush(r)
            /\ conn' = conn \cup {r}
            /\ UNCHANGED ready

(* A request that is refused reads, and its session is closed.             *)
ReadOnly(r) == /\ ConnectionFree /\ r \notin conn
               /\ Refuse(r)
               /\ UNCHANGED <<conn, ready>>

Continue(r) == /\ r \in conn
               /\ Flush(r)
               /\ UNCHANGED <<conn, ready>>

(* Fault: the session keeps its connection between its two transactions    *)
(* and asks the pool for another one.                                      *)
ReturnedAtTheEnd(r) == IF pc'[r] = "done" THEN conn \ {r} ELSE conn

(* The end of a transaction gives back its connection.                     *)
Returned(r) == conn \ {r}

End(r) == /\ r \in conn
          /\ \/ Commit(r) \/ CommitUnknown(r)
             \/ \E what \in {"ok", "error"} : AuditCommit(r, what)
          /\ conn' = Returned(r)
          /\ UNCHANGED ready

(* Fault: the session of a failed request is not closed.                   *)
FailureWithoutClose(r) == /\ r \in conn \/ ConnectionFree
                          /\ Abort(r)
                          /\ UNCHANGED <<conn, ready>>

(* A statement raises, or the connection it needs cannot be made; get_db   *)
(* closes the session.                                                     *)
Failure(r) == /\ r \in conn \/ ConnectionFree
              /\ Abort(r)
              /\ conn' = Returned(r)
              /\ UNCHANGED ready

(* Fault: a TimeoutError after the deletion is caught, its event dropped.  *)
PoolTimeoutCaught(r) == /\ ready /\ ~ConnectionFree
                        /\ pc[r] = "erased"
                        /\ Answer(r, "ok")
                        /\ UNCHANGED <<row, lock, audit, req, snap, applied, conn, ready>>

(* pool_timeout passes and no connection came back: TimeoutError.          *)
PoolTimeout(r) == /\ ready /\ ~ConnectionFree
                  /\ pc[r] \in {"arrived", "erased"}
                  /\ Abort(r)
                  /\ UNCHANGED <<conn, ready>>

(* The process dies with its pool; the next one is configured anew.        *)
Restart == /\ Crash
           /\ conn' = {}
           /\ ready' = FALSE

PooledProgress(r) == Begin(r) \/ ReadOnly(r) \/ Continue(r) \/ End(r)

PooledNext ==
  \/ Configure
  \/ \E r \in Reqs : \/ PooledProgress(r)
                     \/ Unconfigured(r) \/ Failure(r) \/ PoolTimeout(r)
  \/ Restart

PooledSpec == PooledInit /\ [][PooledNext]_pooledVars

(* The process is configured when it starts, the event loop resumes a      *)
(* handler whose statement has an answer, the database answers an UPDATE   *)
(* once the row is free, the pool serves a waiter once it has a connection.*)
(* Neither a failure nor a pool timeout is assumed to happen.              *)
PooledFairSpec == /\ PooledSpec
                  /\ WF_pooledVars(Configure)
                  /\ \A r \in Reqs : WF_pooledVars(PooledProgress(r))
-----------------------------------------------------------------------------
(* Where a request stands between the first and the last statement of a    *)
(* transaction.                                                            *)
InTransaction(r) == pc[r] \in {"loaded", "updated", "auditing"}

(* The pool is never exceeded and never leaks: a connection is out exactly *)
(* for the requests that are inside a transaction, however their sessions  *)
(* ended before, and none outlives its process.                            *)
ConnectionsFitTransactions ==
  /\ conn = {r \in Reqs : InTransaction(r)}
  /\ Cardinality(conn) <= Capacity
  /\ InFlight # {} => ready

(* No hold and wait: whoever holds the write lock of a row has the         *)
(* connection it needs to commit, so requests that queue for the row and   *)
(* requests that queue for the pool never wait for each other.             *)
LockHoldersAreConnected == \A u \in Users : lock[u] \in conn \cup {Free}

(* Whether the handler's next statement has what it needs.                 *)
CanGoOn(r) ==
  \/ pc[r] \in {"arrived", "erased"} /\ ConnectionFree /\ r \notin conn
  \/ pc[r] = "loaded" /\ r \in conn /\ lock[req[r].id] = Free
  \/ pc[r] \in {"updated", "auditing"} /\ r \in conn

(* Whom it waits for when it has not: the transaction that has updated its *)
(* row, or those that have the connections.                                *)
Blockers(r) == CASE pc[r] = "loaded"                -> {lock[req[r].id]} \cap Reqs
                 [] pc[r] \in {"arrived", "erased"} -> conn
                 [] OTHER                           -> {}

(* No deadlock: once the process is configured, a request that is not      *)
(* answered can go on, or one that it waits for can.  The two queues, the  *)
(* row's and the pool's, never close into a circle, and nobody waits for a *)
(* request that has ended.                                                 *)
NobodyIsStuck ==
  ready => \A r \in Reqs : pc[r] \notin {"done", "lost"} =>
             \E q \in {r} \cup Blockers(r) : CanGoOn(q)

(* A pool that is too small delays requests and lets them fail, and does   *)
(* nothing else: what holds of AccountDeletion holds under every pool.     *)
PoolOnlyDelays == Spec
=============================================================================

-------------------------- MODULE MfaVerification --------------------------
(***************************************************************************)
(* The second factor of one account: the primitives of auth/mfa.py in the  *)
(* wiring its docstring prescribes to every product.  verify_code reads    *)
(* the account's user_mfa row, decrypts its secret, tries the code as a    *)
(* TOTP, then as a backup code, and stores back the codes that remain.     *)
(* Requests run concurrently; between the SELECT and the commit of one the *)
(* row, the clock and the encryption key may change.                       *)
(*                                                                         *)
(* A backup code is a pair <<batch, name>>: generate_backup_codes draws 64 *)
(* random bits for each, so batches are disjoint.  A stored hash is the    *)
(* code it verifies.  Bounds: MaxBatch, MaxTime.                           *)
(***************************************************************************)
EXTENDS Integers, FiniteSets

CONSTANTS Requests,  \* requests to verify a code
          Names,     \* the codes of one batch
          Keys,      \* values MFA_ENCRYPTION_KEY takes
          NoKey,     \* the key is not configured
          MaxBatch,  \* enrolments and regenerations of backup codes
          MaxTime,   \* 30-second steps of the clock
          Serial     \* whether the product lets one request of an account
                     \* at a time read the row and store it back

ASSUME KeysAssumption == NoKey \notin Keys
ASSUME BoundsAssumption == MaxBatch \in Nat /\ MaxTime \in Nat
ASSUME SerialAssumption == Serial \in BOOLEAN

Code == (1 .. MaxBatch) \X Names

VARIABLES hashes,  \* stored backup codes
          batch,   \* batches of backup codes given out so far
          sealed,  \* the stored secret: which one, and the key it is under
          confirmed,
          key,     \* MFA_ENCRYPTION_KEY
          now,     \* the current time step
          pc,      \* per request: "idle", "read", "matched", "done", "lost"
          code,    \* per request: what the person typed
          snap,    \* per request: the row it read
          answer,  \* per request: "none", "true", "false", "error"
          at       \* history, per request: the step at which it was checked

row  == <<hashes, batch, sealed, confirmed>>
vars == <<hashes, batch, sealed, confirmed, key, now, pc, code, snap, answer, at>>

(* What may be presented: any backup code given out, or the TOTP of any    *)
(* secret of the account at any step.                                      *)
Backup(c)  == [kind |-> "backup", code |-> c]
Totp(s, t) == [kind |-> "totp", secret |-> s, step |-> t]
Presented  == {Backup(c) : c \in Code}
                \cup {Totp(s, t) : s \in 0 .. MaxBatch, t \in 0 .. MaxTime}

Secret == [id : 0 .. MaxBatch, key : Keys]
Loaded == [hashes : SUBSET Code, sealed : [id : 0 .. MaxBatch, key : Keys \cup {NoKey}]]
Blank  == [hashes |-> {}, sealed |-> [id |-> 0, key |-> NoKey]]

InFlight == {r \in Requests : pc[r] \in {"read", "matched"}}

(* The row is free for a request or an enrolment to read and store back.   *)
Admitted == Serial => InFlight = {}
-----------------------------------------------------------------------------
(* Fault: the window is two steps wide on either side.                     *)
verify_totp_wide(secret, c) ==
  c.kind = "totp" /\ c.secret = secret /\ c.step \in (now - 2) .. (now + 2)

(* verify_totp with valid_window = 1.                                      *)
verify_totp(secret, c) ==
  c.kind = "totp" /\ c.secret = secret /\ c.step \in (now - 1) .. (now + 1)

(* Fault: a secret that does not decrypt is read as it is stored.          *)
DecryptsAnything(s) == TRUE

(* decrypt_secret succeeds only under the key that encrypted the secret.   *)
Decrypts(s) == s.key = key

(* Fault: the list is returned with the matched entry still in it.         *)
RemainingUnchanged(c, stored) == stored

(* consume_backup_code: the stored codes without the one that matched.     *)
Remaining(c, stored) == stored \ {c}

(* Fault: a code is compared by less than the whole of it.                 *)
MatchesByName(c, stored) == c.kind = "backup" /\ \E d \in stored : d[2] = c.code[2]

(* consume_backup_code: the code is one of those stored.                   *)
Matches(c, stored) == c.kind = "backup" /\ c.code \in stored
-----------------------------------------------------------------------------
Init ==
  /\ hashes = {} /\ batch = 0 /\ confirmed = FALSE
  /\ \E k \in Keys : key = k /\ sealed = [id |-> 0, key |-> k]
  /\ now = 0
  /\ pc = [r \in Requests |-> "idle"]
  /\ code = [r \in Requests |-> Totp(0, 0)]
  /\ snap = [r \in Requests |-> Blank]
  /\ answer = [r \in Requests |-> "none"]
  /\ at = [r \in Requests |-> 0]

(* verify_code returns or raises, and what its session had loaded is gone. *)
Answer(r, what) == /\ pc' = [pc EXCEPT ![r] = "done"]
                   /\ answer' = [answer EXCEPT ![r] = what]
                   /\ snap' = [snap EXCEPT ![r] = Blank]

(* get_state: the SELECT; an account without confirmed MFA verifies nothing.*)
Read(r) ==
  /\ pc[r] = "idle" /\ Admitted
  /\ \E c \in Presented : /\ IF c.kind = "backup" THEN c.code[1] <= batch
                             ELSE c.secret <= sealed.id
                          /\ code' = [code EXCEPT ![r] = c]
  /\ IF confirmed
     THEN /\ pc' = [pc EXCEPT ![r] = "read"]
          /\ snap' = [snap EXCEPT ![r] = [hashes |-> hashes, sealed |-> sealed]]
          /\ UNCHANGED answer
     ELSE Answer(r, "false")
  /\ UNCHANGED <<row, key, now, at>>

(* Decryption, then the TOTP, then the backup codes, with no await between.*)
Check(r) ==
  /\ pc[r] = "read"
  /\ at' = [at EXCEPT ![r] = now]
  /\ \/ /\ ~Decrypts(snap[r].sealed)
        /\ Answer(r, "error")            \* InvalidEncryptionKeyError
     \/ /\ Decrypts(snap[r].sealed)
        /\ verify_totp(snap[r].sealed.id, code[r])
        /\ Answer(r, "true")
     \/ /\ Decrypts(snap[r].sealed)
        /\ ~verify_totp(snap[r].sealed.id, code[r])
        /\ IF Matches(code[r], snap[r].hashes)
           THEN pc' = [pc EXCEPT ![r] = "matched"] /\ UNCHANGED <<answer, snap>>
           ELSE Answer(r, "false")
  /\ UNCHANGED <<row, key, now, code>>

(* Fault: the request is answered although the codes were not stored.      *)
StoreNothing(r, what) ==
  /\ pc[r] = "matched"
  /\ Answer(r, what)
  /\ UNCHANGED <<row, key, now, code, at>>

(* state.backup_code_hashes = new_hashes; commit().  The column is written *)
(* whole.  The acknowledgement may be lost: the codes are stored, commit() *)
(* raises and the request fails.                                           *)
Store(r, what) ==
  /\ pc[r] = "matched"
  /\ hashes' = Remaining(code[r].code, snap[r].hashes)
  /\ Answer(r, what)
  /\ UNCHANGED <<batch, sealed, confirmed, key, now, code, at>>

(* A statement raises; the transaction is rolled back.                     *)
Abort(r) ==
  /\ r \in InFlight
  /\ Answer(r, "error")
  /\ UNCHANGED <<row, key, now, code, at>>

Crash ==
  /\ InFlight # {}
  /\ pc' = [r \in Requests |-> IF r \in InFlight THEN "lost" ELSE pc[r]]
  /\ snap' = [r \in Requests |-> Blank]
  /\ UNCHANGED <<row, key, now, code, answer, at>>

(* begin_enrollment: a new secret under the current key; with no key       *)
(* encrypt_secret raises.  It takes effect for verify_code when confirmed. *)
BeginEnrollment ==
  /\ Admitted
  /\ key # NoKey
  /\ sealed.id < MaxBatch
  /\ sealed' = [id |-> sealed.id + 1, key |-> key]
  /\ confirmed' = FALSE
  /\ UNCHANGED <<hashes, batch, key, now, pc, code, snap, answer, at>>

(* Fault: the codes of the batch before are kept.                          *)
IssueMoreCodes ==
  /\ Admitted
  /\ batch < MaxBatch
  /\ batch' = batch + 1
  /\ hashes' = hashes \cup ({batch + 1} \X Names)
  /\ confirmed' = TRUE
  /\ UNCHANGED <<sealed, key, now, pc, code, snap, answer, at>>

(* The product confirms an enrolment, or renews the codes of a confirmed   *)
(* one: in both cases a new batch replaces the codes that are stored.      *)
IssueCodes ==
  /\ Admitted
  /\ batch < MaxBatch
  /\ batch' = batch + 1
  /\ hashes' = {batch + 1} \X Names
  /\ confirmed' = TRUE
  /\ UNCHANGED <<sealed, key, now, pc, code, snap, answer, at>>

(* The operator changes or drops the key; nothing is encrypted anew.       *)
Rotate ==
  /\ key' \in (Keys \cup {NoKey}) \ {key}
  /\ UNCHANGED <<row, now, pc, code, snap, answer, at>>

Tick ==
  /\ now < MaxTime
  /\ now' = now + 1
  /\ UNCHANGED <<row, key, pc, code, snap, answer, at>>

Progress(r) == Check(r) \/ \E what \in {"true", "error"} : Store(r, what)

Next == \/ \E r \in Requests : Read(r) \/ Progress(r) \/ Abort(r)
        \/ Crash \/ BeginEnrollment \/ IssueCodes \/ Rotate \/ Tick

Spec == Init /\ [][Next]_vars
-----------------------------------------------------------------------------
TypeOK ==
  /\ hashes \subseteq Code /\ batch \in 0 .. MaxBatch
  /\ sealed \in Secret /\ confirmed \in BOOLEAN
  /\ key \in Keys \cup {NoKey} /\ now \in 0 .. MaxTime
  /\ pc \in [Requests -> {"idle", "read", "matched", "done", "lost"}]
  /\ code \in [Requests -> Presented]
  /\ snap \in [Requests -> Loaded]
  /\ answer \in [Requests -> {"none", "true", "false", "error"}]
  /\ at \in [Requests -> 0 .. MaxTime]

Accepted == {r \in Requests : answer[r] = "true"}

(* mfa.py:172-173: "with the consumed entry removed - store that back so   *)
(* the code can't be reused".  A backup code opens the account once,       *)
(* whatever fails, crashes or is repeated around it.  It does when the     *)
(* requests of an account are serial; when they overlap it does not.       *)
BackupCodeSpentOnce ==
  \A r, s \in Accepted :
    code[r].kind = "backup" /\ code[r] = code[s] => r = s

(* Renewing the codes retires the batch before, and a code that was        *)
(* accepted is not among the stored ones: no transaction writes back a     *)
(* list read before it.                                                    *)
RetiredCodesStayOut ==
  /\ hashes \subseteq {batch} \X Names
  /\ \A r \in Accepted : code[r].kind = "backup" => code[r].code \notin hashes

(* While the stored secret is not under the configured key, no code passes:*)
(* neither a TOTP nor, since decryption comes first, a backup code.  Only  *)
(* a request that had already matched may still finish.                    *)
NothingPassesUnderForeignKey ==
  sealed.key # key =>
    \A r \in Requests : /\ pc'[r] = "matched" => pc[r] = "matched"
                        /\ answer'[r] = "true" => answer[r] = "true" \/ pc[r] = "matched"
RotatedKeyFailsClosed == [][NothingPassesUnderForeignKey]_vars

(* The code of a 30-second step may pass more than once, since verify_totp *)
(* keeps no record, but only while its window is open: the first and the   *)
(* last time are at most two steps apart.                                  *)
TotpReplayIsBounded ==
  \A r, s \in Accepted :
    code[r].kind = "totp" /\ code[r] = code[s] => at[r] - at[s] <= 2

(* The stored codes, the accepted ones and the batches given out behave as *)
(* a store of one-time codes.                                              *)
Used  == {code[r].code : r \in {s \in Accepted : code[s].kind = "backup"}}
Given == (1 .. batch) \X Names
OneTime == INSTANCE OneTimeCodes WITH
             Codes <- Code, live <- hashes, used <- Used, issued <- Given
CodesAreOneTime == OneTime!Spec
-----------------------------------------------------------------------------
(* What holds of requests that overlap as well: the inductive invariant    *)
(* behind TotpReplayIsBounded.                                             *)

(* Only codes that were given out are stored, or were when they were read. *)
StoredCodesWereGiven ==
  /\ hashes \subseteq Given
  /\ \A r \in Requests : snap[r].hashes \subseteq Given

MatchedCodeIsStored ==
  \A r \in Requests : pc[r] = "matched" =>
    code[r].kind = "backup" /\ code[r].code \in snap[r].hashes

(* A code was right when its request was answered: a TOTP in its window, a *)
(* backup code from a batch that had been given out.                       *)
AcceptedWereRight ==
  \A r \in Accepted :
    /\ pc[r] = "done"
    /\ IF code[r].kind = "backup" THEN code[r].code \in Given
       ELSE at[r] \in (code[r].step - 1) .. (code[r].step + 1)

OverlapInv == TypeOK /\ StoredCodesWereGiven /\ MatchedCodeIsStored /\ AcceptedWereRight

(* What holds in addition where requests are serial: the row a request has *)
(* read is the row it will store back.                                     *)
LoadedRowIsCurrent ==
  \A r \in InFlight : /\ snap[r] = [hashes |-> hashes, sealed |-> sealed]
                      /\ \A s \in InFlight : r = s

IInv == /\ OverlapInv /\ LoadedRowIsCurrent
        /\ BackupCodeSpentOnce /\ RetiredCodesStayOut
=============================================================================

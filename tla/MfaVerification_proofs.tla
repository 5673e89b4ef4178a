----------------------- MODULE MfaVerification_proofs -----------------------
(***************************************************************************)
(* What MfaVerification promises, for any number of requests, codes, keys, *)
(* batches and steps of the clock.  However the requests of an account     *)
(* overlap, a TOTP passes only while its window is open and a backup code  *)
(* only if it was given out; where they are serial, a backup code opens    *)
(* the account once and a retired one never.                               *)
(***************************************************************************)
EXTENDS MfaVerification, TLAPS

LEMMA BlankType == Blank \in Loaded
BY BoundsAssumption DEF Blank, Loaded

(* A presented code is a backup code or a TOTP.                            *)
LEMMA PresentedKinds ==
  ASSUME NEW c \in Presented
  PROVE  \/ c.kind = "backup" /\ c.code \in Code
         \/ c.kind = "totp" /\ c.secret \in 0 .. MaxBatch /\ c.step \in 0 .. MaxTime
BY DEF Presented, Backup, Totp

LEMMA InitOverlapInv == Init => OverlapInv
<1> SUFFICES ASSUME Init PROVE OverlapInv
  OBVIOUS
<1>1. Totp(0, 0) \in Presented
  BY BoundsAssumption DEF Presented
<1>2. TypeOK
  <2>1. /\ hashes \subseteq Code /\ batch \in 0 .. MaxBatch
        /\ now \in 0 .. MaxTime
    BY BoundsAssumption DEF Init
  <2>2. sealed \in Secret /\ key \in Keys \cup {NoKey}
    BY BoundsAssumption DEF Init, Secret
  <2>3. code \in [Requests -> Presented] /\ snap \in [Requests -> Loaded]
    BY <1>1, BlankType DEF Init
  <2>4. /\ pc \in [Requests -> {"idle", "read", "matched", "done", "lost"}]
        /\ answer \in [Requests -> {"none", "true", "false", "error"}]
        /\ at \in [Requests -> 0 .. MaxTime]
    BY BoundsAssumption DEF Init
  <2>5. confirmed \in BOOLEAN
    BY DEF Init
  <2> QED
    BY <2>1, <2>2, <2>3, <2>4, <2>5 DEF TypeOK
<1>3. StoredCodesWereGiven
  BY DEF Init, StoredCodesWereGiven, Blank
<1>4. MatchedCodeIsStored /\ AcceptedWereRight
  BY DEF Init, MatchedCodeIsStored, AcceptedWereRight, Accepted
<1> QED
  BY <1>2, <1>3, <1>4 DEF OverlapInv
-----------------------------------------------------------------------------
(* What verify_code's return leaves of the requests.                       *)
LEMMA AnswerOfOne ==
  ASSUME TypeOK, NEW r \in Requests, NEW what \in {"true", "false", "error"},
         Answer(r, what)
  PROVE  /\ pc' \in [Requests -> {"idle", "read", "matched", "done", "lost"}]
         /\ answer' \in [Requests -> {"none", "true", "false", "error"}]
         /\ snap' \in [Requests -> Loaded]
         /\ InFlight' = InFlight \ {r}
         /\ Accepted' = IF what = "true" THEN Accepted \cup {r} ELSE Accepted \ {r}
         /\ \A s \in Requests : pc'[s] = IF s = r THEN "done" ELSE pc[s]
         /\ \A s \in Requests : snap'[s] = IF s = r THEN Blank ELSE snap[s]
BY BlankType DEF TypeOK, Answer, InFlight, Accepted

(* A request that is under way has not been accepted before.               *)
LEMMA NotYetAccepted ==
  ASSUME OverlapInv, NEW r \in Requests, pc[r] # "done" PROVE r \notin Accepted
BY DEF OverlapInv, AcceptedWereRight

(* Whatever a request is answered, OverlapInv needs no more of it than     *)
(* that an accepted code was right.                                        *)
LEMMA AnswerKeepsOverlapInv ==
  ASSUME OverlapInv, NEW r \in Requests, NEW what \in {"true", "false", "error"},
         pc[r] # "done", Answer(r, what),
         UNCHANGED <<batch, sealed, confirmed, key, now>>, hashes' \subseteq Given,
         code' \in [Requests -> Presented], at' \in [Requests -> 0 .. MaxTime],
         \A s \in Requests \ {r} : code'[s] = code[s] /\ at'[s] = at[s],
         what = "true" => IF code'[r].kind = "backup" THEN code'[r].code \in Given
                          ELSE at'[r] \in (code'[r].step - 1) .. (code'[r].step + 1)
  PROVE  OverlapInv'
<1>1. Given' = Given /\ Given \subseteq Code
  BY BoundsAssumption DEF OverlapInv, TypeOK, Given, Code
<1>2. TypeOK'
  BY <1>1, AnswerOfOne DEF OverlapInv, TypeOK
<1>3. StoredCodesWereGiven'
  BY <1>1, AnswerOfOne DEF OverlapInv, StoredCodesWereGiven, Blank
<1>4. MatchedCodeIsStored'
  BY AnswerOfOne DEF OverlapInv, MatchedCodeIsStored
<1>5. AcceptedWereRight'
  <2> SUFFICES ASSUME NEW s \in Accepted'
               PROVE  /\ pc'[s] = "done"
                      /\ IF code'[s].kind = "backup" THEN code'[s].code \in Given
                         ELSE at'[s] \in (code'[s].step - 1) .. (code'[s].step + 1)
    BY <1>1 DEF AcceptedWereRight
  <2>1. s \in Requests
    BY DEF Accepted
  <2>2. CASE s = r
    BY <2>2, AnswerOfOne, NotYetAccepted DEF OverlapInv
  <2>3. CASE s # r
    BY <2>1, <2>3, AnswerOfOne DEF OverlapInv, AcceptedWereRight
  <2> QED
    BY <2>2, <2>3
<1> QED
  BY <1>2, <1>3, <1>4, <1>5 DEF OverlapInv

LEMMA ReadKeepsOverlapInv ==
  ASSUME OverlapInv, NEW r \in Requests, Read(r) PROVE OverlapInv'
<1>1. PICK c \in Presented : code' = [code EXCEPT ![r] = c]
  BY DEF Read
<1>2. code' \in [Requests -> Presented] /\ \A s \in Requests \ {r} : code'[s] = code[s]
  BY <1>1 DEF OverlapInv, TypeOK
<1>3. UNCHANGED <<row, key, now, at>> /\ pc[r] = "idle"
  BY DEF Read
<1>4. CASE ~confirmed
  <2>1. Answer(r, "false")
    BY <1>4 DEF Read
  <2>2. at' \in [Requests -> 0 .. MaxTime] /\ at' = at
    BY <1>3 DEF OverlapInv, TypeOK
  <2>3. hashes' \subseteq Given
    BY <1>3 DEF OverlapInv, StoredCodesWereGiven, row
  <2> QED
    BY <1>2, <1>3, <2>1, <2>2, <2>3, AnswerKeepsOverlapInv DEF row
<1>5. CASE confirmed
  <2> DEFINE loaded == [hashes |-> hashes, sealed |-> sealed]
  <2>1. /\ pc' = [pc EXCEPT ![r] = "read"] /\ snap' = [snap EXCEPT ![r] = loaded]
        /\ answer' = answer
    BY <1>5 DEF Read
  <2>2. loaded \in Loaded
    BY DEF OverlapInv, TypeOK, Secret, Loaded
  <2>3. TypeOK'
    BY <1>2, <1>3, <2>1, <2>2 DEF OverlapInv, TypeOK, row
  <2>4. StoredCodesWereGiven'
    BY <1>3, <2>1 DEF OverlapInv, TypeOK, StoredCodesWereGiven, Given, row
  <2>5. MatchedCodeIsStored'
    BY <1>2, <2>1 DEF OverlapInv, TypeOK, MatchedCodeIsStored
  <2>6. Accepted' = Accepted /\ r \notin Accepted /\ Accepted \subseteq Requests
    BY <1>3, <2>1, NotYetAccepted DEF Accepted
  <2>7. \A s \in Accepted : code'[s] = code[s] /\ at'[s] = at[s] /\ pc'[s] = pc[s]
    BY <1>2, <1>3, <2>1, <2>6 DEF OverlapInv, TypeOK
  <2>8. AcceptedWereRight'
    BY <1>3, <2>6, <2>7 DEF OverlapInv, AcceptedWereRight, Given, row
  <2> QED
    BY <2>3, <2>4, <2>5, <2>8 DEF OverlapInv
<1> QED
  BY <1>4, <1>5

LEMMA CheckKeepsOverlapInv ==
  ASSUME OverlapInv, NEW r \in Requests, Check(r) PROVE OverlapInv'
<1>1. /\ pc[r] = "read" /\ at' = [at EXCEPT ![r] = now]
      /\ UNCHANGED <<row, key, now, code>>
  BY DEF Check
<1>2. /\ at' \in [Requests -> 0 .. MaxTime] /\ code' \in [Requests -> Presented]
      /\ \A s \in Requests \ {r} : code'[s] = code[s] /\ at'[s] = at[s]
      /\ at'[r] = now /\ code' = code
  BY <1>1 DEF OverlapInv, TypeOK
<1>3. hashes' \subseteq Given
  BY <1>1 DEF OverlapInv, StoredCodesWereGiven, row
<1>4. CASE Answer(r, "error") \/ Answer(r, "false")
  BY <1>1, <1>2, <1>3, <1>4, AnswerKeepsOverlapInv DEF row
<1>5. CASE verify_totp(snap[r].sealed.id, code[r]) /\ Answer(r, "true")
  <2>1. code[r].kind = "totp" /\ code[r].step \in (now - 1) .. (now + 1)
    BY <1>5 DEF verify_totp
  <2>2. now \in Int /\ code[r].step \in Int
    BY <2>1, PresentedKinds, BoundsAssumption DEF OverlapInv, TypeOK
  <2>3. now \in (code[r].step - 1) .. (code[r].step + 1)
    BY <2>1, <2>2
  <2> QED
    BY <1>1, <1>2, <1>3, <1>5, <2>1, <2>3, AnswerKeepsOverlapInv DEF row
<1>6. CASE /\ Matches(code[r], snap[r].hashes)
           /\ pc' = [pc EXCEPT ![r] = "matched"] /\ UNCHANGED <<answer, snap>>
  <2>1. TypeOK'
    BY <1>1, <1>2, <1>6 DEF OverlapInv, TypeOK, row
  <2>2. Accepted' = Accepted /\ r \notin Accepted /\ Accepted \subseteq Requests
    BY <1>1, <1>6, NotYetAccepted DEF Accepted
  <2>3. StoredCodesWereGiven'
    BY <1>1, <1>6 DEF OverlapInv, StoredCodesWereGiven, Given, row
  <2>4. MatchedCodeIsStored'
    BY <1>1, <1>6 DEF OverlapInv, TypeOK, MatchedCodeIsStored, Matches
  <2>5. \A s \in Accepted : code'[s] = code[s] /\ at'[s] = at[s] /\ pc'[s] = pc[s]
    BY <1>1, <1>2, <1>6, <2>2 DEF OverlapInv, TypeOK
  <2>6. AcceptedWereRight'
    BY <1>1, <2>2, <2>5 DEF OverlapInv, AcceptedWereRight, Given, row
  <2> QED
    BY <2>1, <2>3, <2>4, <2>6 DEF OverlapInv
<1> QED
  BY <1>4, <1>5, <1>6 DEF Check

LEMMA StoreKeepsOverlapInv ==
  ASSUME OverlapInv, NEW r \in Requests, NEW what \in {"true", "error"}, Store(r, what)
  PROVE  OverlapInv'
<1>1. /\ pc[r] = "matched" /\ Answer(r, what)
      /\ UNCHANGED <<batch, sealed, confirmed, key, now, code, at>>
  BY DEF Store
<1>2. snap[r].hashes \subseteq Given
  BY DEF OverlapInv, StoredCodesWereGiven
<1>3. code[r].kind = "backup" /\ code[r].code \in Given /\ hashes' \subseteq Given
  BY <1>1, <1>2 DEF OverlapInv, MatchedCodeIsStored, Store, Remaining
<1>4. at' \in [Requests -> 0 .. MaxTime] /\ code' \in [Requests -> Presented]
  BY <1>1 DEF OverlapInv, TypeOK
<1> QED
  BY <1>1, <1>3, <1>4, AnswerKeepsOverlapInv

LEMMA AbortKeepsOverlapInv ==
  ASSUME OverlapInv, NEW r \in Requests, Abort(r) PROVE OverlapInv'
<1>1. /\ pc[r] # "done" /\ Answer(r, "error")
      /\ UNCHANGED <<row, key, now, code, at>>
  BY DEF Abort, InFlight
<1>2. at' \in [Requests -> 0 .. MaxTime] /\ code' \in [Requests -> Presented]
  BY <1>1 DEF OverlapInv, TypeOK
<1>3. hashes' \subseteq Given
  BY <1>1 DEF OverlapInv, StoredCodesWereGiven, row
<1> QED
  BY <1>1, <1>2, <1>3, AnswerKeepsOverlapInv DEF row

LEMMA CrashKeepsOverlapInv == ASSUME OverlapInv, Crash PROVE OverlapInv'
<1>1. TypeOK'
  BY BlankType DEF OverlapInv, TypeOK, Crash, row
<1>2. StoredCodesWereGiven'
  BY DEF OverlapInv, StoredCodesWereGiven, Crash, Given, Blank, row
<1>3. MatchedCodeIsStored'
  BY DEF MatchedCodeIsStored, Crash, InFlight
<1>4. Accepted' = Accepted /\ UNCHANGED <<row, code, at>>
  BY DEF Accepted, Crash
<1>5. \A r \in Accepted : pc'[r] = pc[r]
  BY DEF OverlapInv, AcceptedWereRight, Crash, InFlight, Accepted
<1>6. AcceptedWereRight'
  BY <1>4, <1>5 DEF OverlapInv, AcceptedWereRight, Given, row
<1> QED
  BY <1>1, <1>2, <1>3, <1>6 DEF OverlapInv

LEMMA IssueCodesKeepsOverlapInv == ASSUME OverlapInv, IssueCodes PROVE OverlapInv'
<1>1. /\ batch < MaxBatch /\ batch' = batch + 1
      /\ hashes' = {batch + 1} \X Names /\ confirmed' = TRUE
      /\ UNCHANGED <<sealed, key, now, pc, code, snap, answer, at>>
  BY DEF IssueCodes
<1>2. batch \in Nat /\ MaxBatch \in Nat /\ Accepted' = Accepted
  BY <1>1, BoundsAssumption DEF OverlapInv, TypeOK, Accepted
<1>3. TypeOK'
  <2>1. hashes' \subseteq Code /\ batch' \in 0 .. MaxBatch
    BY <1>1, <1>2 DEF Code
  <2>2. confirmed' \in BOOLEAN
    BY <1>1
  <2> QED
    BY <1>1, <2>1, <2>2 DEF OverlapInv, TypeOK
<1>4. Given \subseteq Given' /\ hashes' \subseteq Given'
  <2>1. 1 .. batch \subseteq 1 .. batch' /\ batch + 1 \in 1 .. batch'
    BY <1>1, <1>2
  <2> QED
    BY <1>1, <2>1 DEF Given
<1>5. StoredCodesWereGiven'
  BY <1>1, <1>4 DEF OverlapInv, StoredCodesWereGiven
<1>6. MatchedCodeIsStored'
  BY <1>1 DEF OverlapInv, MatchedCodeIsStored
<1>7. AcceptedWereRight'
  BY <1>1, <1>2, <1>4 DEF OverlapInv, AcceptedWereRight
<1> QED
  BY <1>3, <1>5, <1>6, <1>7 DEF OverlapInv

(* The secret, the key and the clock are no part of what OverlapInv says.  *)
LEMMA EnvironmentKeepsOverlapInv ==
  ASSUME OverlapInv, UNCHANGED <<hashes, batch, pc, code, snap, answer, at>>, TypeOK'
  PROVE  OverlapInv'
BY DEF OverlapInv, StoredCodesWereGiven, MatchedCodeIsStored, AcceptedWereRight, Accepted,
   Given

LEMMA NextOverlapInv == OverlapInv /\ [Next]_vars => OverlapInv'
<1> SUFFICES ASSUME OverlapInv, [Next]_vars PROVE OverlapInv'
  OBVIOUS
<1>1. ASSUME NEW r \in Requests, Read(r) PROVE OverlapInv'
  BY <1>1, ReadKeepsOverlapInv
<1>2. ASSUME NEW r \in Requests, Progress(r) PROVE OverlapInv'
  BY <1>2, CheckKeepsOverlapInv, StoreKeepsOverlapInv DEF Progress
<1>3. ASSUME NEW r \in Requests, Abort(r) PROVE OverlapInv'
  BY <1>3, AbortKeepsOverlapInv
<1>4. CASE Crash
  BY <1>4, CrashKeepsOverlapInv
<1>5. CASE BeginEnrollment
  <2>1. sealed' \in Secret
    BY <1>5, BoundsAssumption DEF BeginEnrollment, OverlapInv, TypeOK, Secret
  <2>2. confirmed' \in BOOLEAN
    BY <1>5 DEF BeginEnrollment
  <2>3. TypeOK'
    BY <1>5, <2>1, <2>2 DEF BeginEnrollment, OverlapInv, TypeOK
  <2> QED
    BY <1>5, <2>3, EnvironmentKeepsOverlapInv DEF BeginEnrollment
<1>6. CASE IssueCodes
  BY <1>6, IssueCodesKeepsOverlapInv
<1>7. CASE Rotate
  <2>1. TypeOK'
    BY <1>7 DEF Rotate, OverlapInv, TypeOK, row
  <2> QED
    BY <1>7, <2>1, EnvironmentKeepsOverlapInv DEF Rotate, row
<1>8. CASE Tick
  <2>1. now' \in 0 .. MaxTime
    BY <1>8, BoundsAssumption DEF Tick, OverlapInv, TypeOK
  <2>2. TypeOK'
    BY <1>8, <2>1 DEF Tick, OverlapInv, TypeOK, row
  <2> QED
    BY <1>8, <2>2, EnvironmentKeepsOverlapInv DEF Tick, row
<1>9. CASE UNCHANGED vars
  <2>1. TypeOK'
    BY <1>9 DEF vars, OverlapInv, TypeOK, row
  <2> QED
    BY <1>9, <2>1, EnvironmentKeepsOverlapInv DEF vars, row
<1> QED
  BY <1>1, <1>2, <1>3, <1>4, <1>5, <1>6, <1>7, <1>8, <1>9 DEF Next

(* However the requests of an account overlap, only a TOTP in its window   *)
(* and a backup code that was given out are accepted: OverlapInv.          *)
THEOREM AcceptedCodesWereRight == Spec => []OverlapInv
BY InitOverlapInv, NextOverlapInv, PTL DEF Spec

(* A TOTP passes again only while its window is open: TotpReplayIsBounded. *)
THEOREM TotpReplayEnds == Spec => []TotpReplayIsBounded
<1>1. OverlapInv => TotpReplayIsBounded
  <2> SUFFICES ASSUME OverlapInv, NEW r \in Accepted, NEW s \in Accepted,
                      code[r].kind = "totp", code[r] = code[s]
               PROVE  at[r] - at[s] <= 2
    BY DEF TotpReplayIsBounded
  <2>1. code[r] \in Presented /\ at[r] \in Int /\ at[s] \in Int
    BY BoundsAssumption DEF OverlapInv, TypeOK, Accepted
  <2>2. code[r].step \in Int
    BY <2>1, PresentedKinds, BoundsAssumption
  <2>3. /\ at[r] \in (code[r].step - 1) .. (code[r].step + 1)
        /\ at[s] \in (code[r].step - 1) .. (code[r].step + 1)
    BY DEF OverlapInv, AcceptedWereRight
  <2> QED
    BY <2>1, <2>2, <2>3
<1> QED
  BY <1>1, AcceptedCodesWereRight, PTL
-----------------------------------------------------------------------------
(* What serial requests add.                                               *)
LEMMA InitIInv == Init => IInv
BY InitOverlapInv DEF IInv, LoadedRowIsCurrent, BackupCodeSpentOnce, RetiredCodesStayOut,
   Init, Accepted, InFlight

(* Whoever is answered without a backup code being accepted or stored      *)
(* changes nothing another request relies on.                              *)
LEMMA AnswerKeepsIInv ==
  ASSUME IInv, OverlapInv', NEW r \in Requests, NEW what \in {"true", "false", "error"},
         pc[r] # "done", Answer(r, what), UNCHANGED row,
         \A s \in Requests \ {r} : code'[s] = code[s],
         what = "true" => code'[r].kind # "backup"
  PROVE  IInv'
<1>1. r \notin Accepted /\ Accepted \subseteq Requests
  BY NotYetAccepted DEF IInv, Accepted
<1>2. Accepted' = IF what = "true" THEN Accepted \cup {r} ELSE Accepted
  <2>1. Accepted' = IF what = "true" THEN Accepted \cup {r} ELSE Accepted \ {r}
    BY AnswerOfOne DEF IInv, OverlapInv
  <2> QED
    BY <1>1, <2>1
<1>3. InFlight' = InFlight \ {r} /\ InFlight \subseteq Requests
  BY AnswerOfOne DEF IInv, OverlapInv, InFlight
<1>4. LoadedRowIsCurrent'
  BY <1>3, AnswerOfOne DEF IInv, OverlapInv, LoadedRowIsCurrent, row
<1>5. \A s \in Accepted : code'[s] = code[s]
  BY <1>1
<1>6. BackupCodeSpentOnce'
  BY <1>2, <1>5 DEF IInv, BackupCodeSpentOnce
<1>7. RetiredCodesStayOut'
  BY <1>2, <1>5 DEF IInv, RetiredCodesStayOut, row
<1> QED
  BY <1>4, <1>6, <1>7 DEF IInv

LEMMA ReadKeepsIInv ==
  ASSUME IInv, OverlapInv', Serial, NEW r \in Requests, Read(r) PROVE IInv'
<1>1. PICK c \in Presented : code' = [code EXCEPT ![r] = c]
  BY DEF Read
<1>2. /\ \A s \in Requests \ {r} : code'[s] = code[s]
      /\ UNCHANGED row /\ pc[r] = "idle" /\ InFlight = {}
  BY <1>1 DEF IInv, OverlapInv, TypeOK, Read, Admitted
<1>3. CASE ~confirmed
  <2>1. Answer(r, "false")
    BY <1>3 DEF Read
  <2> QED
    BY <1>2, <2>1, AnswerKeepsIInv
<1>4. CASE confirmed
  <2>1. /\ pc' = [pc EXCEPT ![r] = "read"]
        /\ snap' = [snap EXCEPT ![r] = [hashes |-> hashes, sealed |-> sealed]]
        /\ answer' = answer
    BY <1>4 DEF Read
  <2>2. Accepted' = Accepted /\ r \notin Accepted /\ Accepted \subseteq Requests
    BY <1>2, <2>1, NotYetAccepted DEF IInv, Accepted
  <2>3. InFlight' = {r}
    BY <1>2, <2>1 DEF IInv, OverlapInv, TypeOK, InFlight
  <2>4. LoadedRowIsCurrent'
    BY <1>2, <2>1, <2>3 DEF IInv, OverlapInv, TypeOK, LoadedRowIsCurrent, row
  <2>5. \A s \in Accepted : code'[s] = code[s]
    BY <1>2, <2>2
  <2>6. BackupCodeSpentOnce'
    BY <2>2, <2>5 DEF IInv, BackupCodeSpentOnce
  <2>7. RetiredCodesStayOut'
    BY <1>2, <2>2, <2>5 DEF IInv, RetiredCodesStayOut, row
  <2> QED
    BY <2>4, <2>6, <2>7 DEF IInv
<1> QED
  BY <1>3, <1>4

LEMMA CheckKeepsIInv ==
  ASSUME IInv, OverlapInv', NEW r \in Requests, Check(r) PROVE IInv'
<1>1. pc[r] = "read" /\ UNCHANGED <<row, code>>
  BY DEF Check
<1>2. CASE Answer(r, "error") \/ Answer(r, "false")
  BY <1>1, <1>2, AnswerKeepsIInv
<1>3. CASE verify_totp(snap[r].sealed.id, code[r]) /\ Answer(r, "true")
  BY <1>1, <1>3, AnswerKeepsIInv DEF verify_totp
<1>4. CASE pc' = [pc EXCEPT ![r] = "matched"] /\ UNCHANGED <<answer, snap>>
  <2>1. Accepted' = Accepted /\ InFlight' = InFlight
    BY <1>1, <1>4 DEF IInv, OverlapInv, TypeOK, Accepted, InFlight
  <2> QED
    BY <1>1, <1>4, <2>1 DEF IInv, LoadedRowIsCurrent, BackupCodeSpentOnce,
       RetiredCodesStayOut, row
<1> QED
  BY <1>2, <1>3, <1>4 DEF Check

(* What a request stores back is what is stored, without its own code.     *)
LEMMA StoreTakesOneCode ==
  ASSUME IInv, NEW r \in Requests, pc[r] = "matched"
  PROVE  /\ code[r].kind = "backup" /\ code[r].code \in hashes
         /\ Remaining(code[r].code, snap[r].hashes) = hashes \ {code[r].code}
<1>1. r \in InFlight
  BY DEF InFlight
<1>2. snap[r].hashes = hashes
  BY <1>1 DEF IInv, LoadedRowIsCurrent
<1>3. code[r].kind = "backup" /\ code[r].code \in hashes
  BY <1>2 DEF IInv, OverlapInv, MatchedCodeIsStored
<1> QED
  BY <1>2, <1>3 DEF Remaining

LEMMA StoreKeepsIInv ==
  ASSUME IInv, OverlapInv', NEW r \in Requests, NEW what \in {"true", "error"}, Store(r, what)
  PROVE  IInv'
<1>1. /\ pc[r] = "matched" /\ Answer(r, what)
      /\ UNCHANGED <<batch, sealed, confirmed, key, now, code, at>>
  BY DEF Store
<1>2. hashes' = hashes \ {code[r].code}
  BY <1>1, StoreTakesOneCode DEF Store
<1>3. InFlight' = {}
  BY <1>1, AnswerOfOne DEF IInv, OverlapInv, LoadedRowIsCurrent, InFlight
<1>4. LoadedRowIsCurrent'
  BY <1>3 DEF LoadedRowIsCurrent
<1>5. r \notin Accepted /\ Accepted \subseteq Requests /\ Accepted' \subseteq Accepted \cup {r}
  BY <1>1, AnswerOfOne, NotYetAccepted DEF IInv, OverlapInv, Accepted
<1>6. BackupCodeSpentOnce'
  <2> SUFFICES ASSUME NEW s \in Accepted', NEW t \in Accepted',
                      code[s].kind = "backup", code[s] = code[t], s # t
               PROVE  FALSE
    BY <1>1 DEF BackupCodeSpentOnce
  <2>1. CASE s # r /\ t # r
    BY <1>5, <2>1 DEF IInv, BackupCodeSpentOnce
  <2>2. CASE s = r \/ t = r
    BY <1>1, <1>5, <2>2, StoreTakesOneCode DEF IInv, RetiredCodesStayOut
  <2> QED
    BY <2>1, <2>2
<1>7. RetiredCodesStayOut'
  BY <1>1, <1>2, <1>5, StoreTakesOneCode DEF IInv, RetiredCodesStayOut
<1> QED
  BY <1>4, <1>6, <1>7 DEF IInv

LEMMA CrashKeepsIInv == ASSUME IInv, OverlapInv', Crash PROVE IInv'
<1>1. InFlight' = {}
  BY DEF Crash, InFlight
<1>2. Accepted' = Accepted /\ UNCHANGED <<row, code>>
  BY DEF Accepted, Crash
<1> QED
  BY <1>1, <1>2 DEF IInv, LoadedRowIsCurrent, BackupCodeSpentOnce, RetiredCodesStayOut, row

LEMMA BeginEnrollmentKeepsIInv ==
  ASSUME IInv, OverlapInv', Serial, BeginEnrollment PROVE IInv'
<1>1. InFlight' = {} /\ Accepted' = Accepted /\ UNCHANGED <<hashes, batch, code>>
  BY DEF BeginEnrollment, Admitted, InFlight, Accepted
<1> QED
  BY <1>1 DEF IInv, LoadedRowIsCurrent, BackupCodeSpentOnce, RetiredCodesStayOut

LEMMA IssueCodesKeepsIInv ==
  ASSUME IInv, OverlapInv', Serial, IssueCodes PROVE IInv'
<1>1. /\ batch' = batch + 1 /\ hashes' = {batch + 1} \X Names
      /\ InFlight' = {} /\ Accepted' = Accepted /\ UNCHANGED code
  BY DEF IssueCodes, Admitted, InFlight, Accepted
<1>2. LoadedRowIsCurrent' /\ BackupCodeSpentOnce'
  BY <1>1 DEF IInv, LoadedRowIsCurrent, BackupCodeSpentOnce
<1>3. batch \in Nat
  BY BoundsAssumption DEF IInv, OverlapInv, TypeOK
<1>4. \A c \in Given : c \notin hashes'
  BY <1>1, <1>3 DEF Given
<1>5. RetiredCodesStayOut'
  BY <1>1, <1>4 DEF IInv, OverlapInv, AcceptedWereRight, RetiredCodesStayOut
<1> QED
  BY <1>2, <1>5 DEF IInv

(* The key and the clock are no part of what a request relies on.          *)
LEMMA EnvironmentKeepsIInv ==
  ASSUME IInv, OverlapInv', UNCHANGED <<row, pc, code, snap, answer>>
  PROVE  IInv'
<1>1. InFlight' = InFlight /\ Accepted' = Accepted
  BY DEF InFlight, Accepted
<1> QED
  BY <1>1 DEF IInv, LoadedRowIsCurrent, BackupCodeSpentOnce, RetiredCodesStayOut, row

LEMMA NextIInv == ASSUME Serial PROVE IInv /\ [Next]_vars => IInv'
<1> SUFFICES ASSUME IInv, [Next]_vars PROVE IInv'
  OBVIOUS
<1>0. OverlapInv'
  BY NextOverlapInv DEF IInv
<1>1. ASSUME NEW r \in Requests, Read(r) PROVE IInv'
  BY <1>0, <1>1, ReadKeepsIInv
<1>2. ASSUME NEW r \in Requests, Progress(r) PROVE IInv'
  BY <1>0, <1>2, CheckKeepsIInv, StoreKeepsIInv DEF Progress
<1>3. ASSUME NEW r \in Requests, Abort(r) PROVE IInv'
  BY <1>0, <1>3, AnswerKeepsIInv DEF Abort, InFlight
<1>4. CASE Crash
  BY <1>0, <1>4, CrashKeepsIInv
<1>5. CASE BeginEnrollment
  BY <1>0, <1>5, BeginEnrollmentKeepsIInv
<1>6. CASE IssueCodes
  BY <1>0, <1>6, IssueCodesKeepsIInv
<1>7. CASE Rotate \/ Tick \/ UNCHANGED vars
  BY <1>0, <1>7, EnvironmentKeepsIInv DEF Rotate, Tick, vars, row
<1> QED
  BY <1>1, <1>2, <1>3, <1>4, <1>5, <1>6, <1>7 DEF Next

(* Where a product lets one request of an account at a time read the row   *)
(* and store it back, the invariant holds.                                 *)
THEOREM SerialRequestsAreSound == Serial => (Spec => []IInv)
<1> SUFFICES ASSUME Serial PROVE Spec => []IInv
  OBVIOUS
<1> QED
  BY InitIInv, NextIInv, PTL DEF Spec

(* A backup code opens the account once: BackupCodeSpentOnce.              *)
THEOREM BackupCodesAreSpent == Serial => (Spec => []BackupCodeSpentOnce)
<1>1. IInv => BackupCodeSpentOnce
  BY DEF IInv
<1> QED
  BY <1>1, SerialRequestsAreSound, PTL

(* No list of codes comes back that was replaced or used: RetiredCodesStayOut. *)
THEOREM NoCodeComesBack == Serial => (Spec => []RetiredCodesStayOut)
<1>1. IInv => RetiredCodesStayOut
  BY DEF IInv
<1> QED
  BY <1>1, SerialRequestsAreSound, PTL

(* Under a key that is not the stored secret's nothing passes, whatever    *)
(* keys an operator tries: RotatedKeyFailsClosed.                          *)
THEOREM ForeignKeysFailClosed == Serial => (Spec => RotatedKeyFailsClosed)
<1> SUFFICES ASSUME Serial PROVE Spec => RotatedKeyFailsClosed
  OBVIOUS
<1>1. ASSUME IInv, [Next]_vars PROVE [NothingPassesUnderForeignKey]_vars
  <2> SUFFICES ASSUME sealed.key # key, NEW r \in Requests
               PROVE  /\ pc'[r] = "matched" => pc[r] = "matched"
                      /\ answer'[r] = "true" => answer[r] = "true" \/ pc[r] = "matched"
    BY DEF NothingPassesUnderForeignKey
  <2>1. ASSUME NEW s \in Requests, NEW what \in {"true", "false", "error"}, Answer(s, what),
               what = "true" => pc[s] = "matched"
        PROVE  /\ pc'[r] = "matched" => pc[r] = "matched"
               /\ answer'[r] = "true" => answer[r] = "true" \/ pc[r] = "matched"
    BY <1>1, <2>1 DEF Answer, IInv, OverlapInv, TypeOK
  <2>2. ASSUME NEW s \in Requests, Read(s)
        PROVE  /\ pc'[r] = "matched" => pc[r] = "matched"
               /\ answer'[r] = "true" => answer[r] = "true" \/ pc[r] = "matched"
    BY <1>1, <2>1, <2>2 DEF Read, IInv, OverlapInv, TypeOK
  <2>3. ASSUME NEW s \in Requests, Check(s)
        PROVE  /\ pc'[r] = "matched" => pc[r] = "matched"
               /\ answer'[r] = "true" => answer[r] = "true" \/ pc[r] = "matched"
    <3>1. ~Decrypts(snap[s].sealed)
      <4>1. s \in InFlight
        BY <2>3 DEF Check, InFlight
      <4>2. snap[s].sealed = sealed
        BY <1>1, <4>1 DEF IInv, LoadedRowIsCurrent
      <4> QED
        BY <4>2 DEF Decrypts
    <3> QED
      BY <2>1, <2>3, <3>1 DEF Check
  <2>4. ASSUME NEW s \in Requests, NEW what \in {"true", "error"}, Store(s, what)
        PROVE  /\ pc'[r] = "matched" => pc[r] = "matched"
               /\ answer'[r] = "true" => answer[r] = "true" \/ pc[r] = "matched"
    BY <2>1, <2>4 DEF Store
  <2>5. ASSUME NEW s \in Requests, Abort(s)
        PROVE  /\ pc'[r] = "matched" => pc[r] = "matched"
               /\ answer'[r] = "true" => answer[r] = "true" \/ pc[r] = "matched"
    BY <2>1, <2>5 DEF Abort
  <2>6. CASE Crash
    BY <1>1, <2>6 DEF Crash, IInv, OverlapInv, TypeOK
  <2>7. CASE UNCHANGED <<pc, answer>>
    BY <2>7
  <2> QED
    BY <1>1, <2>2, <2>3, <2>4, <2>5, <2>6, <2>7 DEF Next, Progress, BeginEnrollment, IssueCodes,
       Rotate, Tick, vars
<1> QED
  BY <1>1, SerialRequestsAreSound, PTL DEF Spec, RotatedKeyFailsClosed
-----------------------------------------------------------------------------
(* The refinement of OneTimeCodes.                                         *)

(* A step that stores no codes and accepts no backup code is a stutter.    *)
LEMMA StuttersOneTime ==
  ASSUME UNCHANGED <<hashes, batch>>,
         \A s \in Requests :
           (answer'[s] = "true" /\ code'[s].kind = "backup")
             <=> (answer[s] = "true" /\ code[s].kind = "backup"),
         \A s \in Requests :
           answer[s] = "true" /\ code[s].kind = "backup" => code'[s] = code[s]
  PROVE  UNCHANGED OneTime!vars
<1>1. Used' = Used
  BY DEF Used, Accepted
<1> QED
  BY <1>1 DEF OneTime!vars, Used, Given

LEMMA IssueImplementsReplace ==
  ASSUME IInv, IssueCodes PROVE OneTime!Next
<1> DEFINE fresh == {batch + 1} \X Names
<1>1. /\ batch < MaxBatch /\ batch' = batch + 1 /\ hashes' = fresh
      /\ UNCHANGED <<code, answer>>
  BY DEF IssueCodes
<1>2. batch \in Nat /\ MaxBatch \in Nat
  BY BoundsAssumption DEF IInv, OverlapInv, TypeOK
<1>3. fresh \in SUBSET (Code \ Given)
  BY <1>1, <1>2 DEF Code, Given
<1>4. Given' = Given \cup fresh
  <2>1. 1 .. batch' = (1 .. batch) \cup {batch + 1}
    BY <1>1, <1>2
  <2> QED
    BY <2>1 DEF Given
<1>5. Used' = Used
  BY <1>1 DEF Used, Accepted
<1>6. OneTime!Replace
  BY <1>1, <1>3, <1>4, <1>5 DEF OneTime!Replace, Used, Given
<1> QED
  BY <1>6 DEF OneTime!Next

LEMMA StoreImplementsUse ==
  ASSUME IInv, NEW r \in Requests, NEW what \in {"true", "error"}, Store(r, what)
  PROVE  OneTime!Next
<1> DEFINE c == code[r].code
<1>1. /\ pc[r] = "matched" /\ Answer(r, what) /\ UNCHANGED <<batch, code>>
  BY DEF Store
<1>2. code[r].kind = "backup" /\ c \in hashes /\ hashes' = hashes \ {c}
  BY <1>1, StoreTakesOneCode DEF Store
<1>3. Given' = Given
  BY <1>1 DEF Given
<1>4. Accepted \subseteq Requests /\ r \notin Accepted
  BY <1>1, NotYetAccepted DEF IInv, Accepted
<1>5. CASE what = "true"
  <2>1. Accepted' = Accepted \cup {r}
    BY <1>1, <1>5, AnswerOfOne DEF IInv, OverlapInv
  <2>2. Used' = Used \cup {c}
    BY <1>1, <1>2, <2>1 DEF Used
  <2>3. OneTime!Use(c)
    BY <1>2, <1>3, <2>2 DEF OneTime!Use, Used, Given
  <2> QED
    BY <1>2, <2>3 DEF OneTime!Next
<1>6. CASE what = "error"
  <2>1. Accepted' = Accepted
    <3>1. Accepted' = Accepted \ {r}
      BY <1>1, <1>6, AnswerOfOne DEF IInv, OverlapInv
    <3> QED
      BY <1>4, <3>1
  <2>2. Used' = Used
    BY <1>1, <2>1 DEF Used
  <2>3. OneTime!Burn(c)
    BY <1>2, <1>3, <2>2 DEF OneTime!Burn, Used, Given
  <2> QED
    BY <1>2, <2>3 DEF OneTime!Next
<1> QED
  BY <1>5, <1>6

LEMMA NextImplementsOneTime ==
  ASSUME IInv, [Next]_vars PROVE [OneTime!Next]_OneTime!vars
<1>1. ASSUME NEW r \in Requests, Read(r) PROVE UNCHANGED OneTime!vars
  <2>1. answer[r] # "true"
    BY <1>1, NotYetAccepted DEF IInv, Read, Accepted
  <2>2. UNCHANGED <<hashes, batch>> /\ answer'[r] # "true"
    BY <1>1, <2>1 DEF Read, Answer, row, IInv, OverlapInv, TypeOK
  <2>3. \A s \in Requests \ {r} : answer'[s] = answer[s] /\ code'[s] = code[s]
    BY <1>1 DEF Read, Answer, IInv, OverlapInv, TypeOK
  <2> QED
    BY <2>1, <2>2, <2>3, StuttersOneTime
<1>2. ASSUME NEW r \in Requests, NEW what \in {"true", "false", "error"}, Answer(r, what),
             UNCHANGED <<hashes, batch, code>>, pc[r] # "done",
             what = "true" => code[r].kind # "backup"
      PROVE  UNCHANGED OneTime!vars
  <2>1. answer[r] # "true"
    BY <1>2, NotYetAccepted DEF IInv, Accepted
  <2>2. \A s \in Requests : answer'[s] = IF s = r THEN what ELSE answer[s]
    BY <1>2 DEF Answer, IInv, OverlapInv, TypeOK
  <2> QED
    BY <1>2, <2>1, <2>2, StuttersOneTime
<1>3. ASSUME NEW r \in Requests, Check(r) PROVE UNCHANGED OneTime!vars
  <2>1. CASE UNCHANGED answer
    BY <1>3, <2>1, StuttersOneTime DEF Check, row
  <2>2. CASE Answer(r, "error") \/ Answer(r, "false")
    BY <1>2, <1>3, <2>2 DEF Check, row
  <2>3. CASE verify_totp(snap[r].sealed.id, code[r]) /\ Answer(r, "true")
    BY <1>2, <1>3, <2>3 DEF Check, row, verify_totp
  <2> QED
    BY <1>3, <2>1, <2>2, <2>3 DEF Check
<1>4. ASSUME NEW r \in Requests, Abort(r) PROVE UNCHANGED OneTime!vars
  BY <1>2, <1>4 DEF Abort, InFlight, row
<1>5. CASE UNCHANGED <<hashes, batch, code, answer>>
  BY <1>5, StuttersOneTime
<1> QED
  BY <1>1, <1>3, <1>4, <1>5, IssueImplementsReplace, StoreImplementsUse
  DEF Next, Progress, Crash, BeginEnrollment, Rotate, Tick, row, vars

(* The account's codes are a store of one-time codes: CodesAreOneTime.     *)
THEOREM MfaImplementsOneTimeCodes == Serial => (Spec => CodesAreOneTime)
<1> SUFFICES ASSUME Serial PROVE Spec => CodesAreOneTime
  OBVIOUS
<1>1. Init => OneTime!Init
  BY DEF Init, OneTime!Init, Used, Given, Accepted
<1>2. IInv /\ [Next]_vars => [OneTime!Next]_OneTime!vars
  BY NextImplementsOneTime
<1> QED
  BY <1>1, <1>2, SerialRequestsAreSound, PTL DEF Spec, CodesAreOneTime, OneTime!Spec
=============================================================================

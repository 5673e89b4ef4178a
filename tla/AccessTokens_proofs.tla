------------------------- MODULE AccessTokens_proofs -------------------------
(***************************************************************************)
(* Theorems about AccessTokens for any processes, users, routes, lifetimes,*)
(* clock differences and extra claims, those that override the type        *)
(* included.  Tokens do not change once issued, so IInv is kept by showing *)
(* it of the one token a step issues; the properties follow by arithmetic  *)
(* on rounded times.                                                       *)
(***************************************************************************)
EXTENDS AccessTokens, TLAPS

(* What rounding to whole seconds does.                                    *)
LEMMA NumericDateRoundsDown ==
  ASSUME NEW c \in Int
  PROVE  /\ NumericDate(c) \in Int
         /\ NumericDate(c) * Second <= c
         /\ c < NumericDate(c) * Second + Second
BY DEF NumericDate, Second

(* A date is within its clock's error and a second of the time meant.      *)
LEMMA DatesAreClose ==
  ASSUME NEW t, t.at \in Int, NEW life \in Nat, NEW date, Dated(date, t, life)
  PROVE  /\ date \in Int
         /\ date * Second <= t.at + life + Skew
         /\ t.at + life - Skew < date * Second + Second
<1>1. PICK c \in t.at - Skew .. t.at + Skew : date = NumericDate(c + life)
  BY DEF Dated
<1>2. c + life \in Int /\ Skew \in Nat
  BY SkewAssumption
<1> QED
  BY <1>1, <1>2, NumericDateRoundsDown DEF Second

(* What a process dates by its clock is dated as the invariant says.       *)
LEMMA ClocksDate ==
  ASSUME TypeOK, NEW p \in Processes, NEW life \in Nat, NEW t, t.at = now
  PROVE  Dated(NumericDate(Clock(p) + life), t, life)
<1>1. /\ Clock(p) \in t.at - Skew .. t.at + Skew
      /\ Clock(p) \in Int
  BY SkewAssumption DEF TypeOK, Clock
<1> QED
  BY <1>1 DEF Dated

LEMMA InitIInv == Init => IInv
BY SkewAssumption DEF Init, IInv, TypeOK

(* A step that issues one genuine token keeps the invariant.               *)
LEMMA IssuingKeepsIInv ==
  ASSUME IInv, NEW t, tokens' = tokens \cup {t}, UNCHANGED <<now, offset>>,
         t.kind \in {"access", "challenge", "service"}, t.at = now,
         t.login \in Int, t.by \in Processes, Genuine(t)
  PROVE  IInv'
<1>1. now \in Nat /\ t.at \in 0 .. now
  BY DEF IInv, TypeOK
<1> QED
  BY <1>1 DEF IInv, TypeOK, Genuine, AccessIsProven, ChallengeFollowsPassword,
     ServiceNamesItsIssuer, Dated, NumericDate

(* The token Issue adds.                                                   *)
Issued(p, kind, claims, extra, source, proof, login) ==
  [kind |-> kind, claims |-> claims, secret |-> secret[p], extra |-> extra,
   source |-> source, by |-> p, at |-> now, proof |-> proof, login |-> login]

LEMMA LogInKeepsIInv ==
  ASSUME IInv, NEW p \in Processes, NEW u \in Users, LogIn(p, u) PROVE IInv'
<1> USE LivesAssumption
<1>1. CASE u \in MfaUsers
  <2> DEFINE t == Issued(p, "challenge", create_mfa_challenge_token(p, u), {},
                         {}, {"password"}, now)
  <2>1. tokens' = tokens \cup {t} /\ UNCHANGED <<now, offset>>
    BY <1>1 DEF LogIn, Issue, Issued
  <2>2. /\ t.kind = "challenge" /\ t.at = now /\ t.login = now /\ t.by = p
        /\ t.extra = {} /\ t.proof = {"password"} /\ t.claims.sub = u
        /\ t.claims.type = "mfa_challenge" /\ t.claims.iat = None
        /\ t.claims.exp = NumericDate(Clock(p) + ChallengeLife)
    BY DEF Issued, create_mfa_challenge_token
  <2> HIDE DEF t
  <2>3. Dated(t.claims.exp, t, ChallengeLife)
    BY <2>2, ClocksDate DEF IInv
  <2>4. Genuine(t)
    BY <2>2, <2>3 DEF Genuine, AccessIsProven, ChallengeFollowsPassword, ServiceNamesItsIssuer
  <2> QED
    BY <2>1, <2>2, <2>4, IssuingKeepsIInv DEF IInv, TypeOK
<1>2. CASE u \notin MfaUsers
  <2> DEFINE t == Issued(p, "access", create_access_token(p, AccessClaims(u)), {},
                         {}, {"password"}, now)
  <2>1. tokens' = tokens \cup {t} /\ UNCHANGED <<now, offset>>
    BY <1>2 DEF LogIn, Issue, Issued
  <2>2. /\ t.kind = "access" /\ t.at = now /\ t.login = now /\ t.by = p
        /\ t.extra = {} /\ t.claims.sub = u /\ t.claims.role = RoleOf[u]
        /\ t.claims.type = None /\ t.claims.iat = None
        /\ t.claims.exp = NumericDate(Clock(p) + AccessLife)
    BY DEF Issued, create_access_token, AccessClaims
  <2> HIDE DEF t
  <2>3. Dated(t.claims.exp, t, AccessLife)
    BY <2>2, ClocksDate DEF IInv
  <2>4. t.at - t.login <= ChallengeLife + 2 * Skew
    BY <2>2, SkewAssumption DEF IInv, TypeOK
  <2>5. Genuine(t)
    BY <1>2, <2>2, <2>3, <2>4
       DEF Genuine, AccessIsProven, ChallengeFollowsPassword, ServiceNamesItsIssuer
  <2> QED
    BY <2>1, <2>2, <2>5, IssuingKeepsIInv DEF IInv, TypeOK
<1> QED
  BY <1>1, <1>2

(* What any decoder takes is younger than its life and the clocks' error.  *)
LEMMA DecodedIsYoung ==
  ASSUME TypeOK, NEW p \in Processes, NEW t \in tokens, NEW life \in Nat,
         jwt_decode(p, t), Dated(t.claims.exp, t, life)
  PROVE  Age(t) < life + 2 * Skew
<1>1. /\ t.at \in Int /\ now \in Int /\ Skew \in Nat
      /\ offset[p] \in Int /\ -Skew <= offset[p]
  BY SkewAssumption DEF TypeOK
<1>2. /\ t.claims.exp \in Int
      /\ t.claims.exp * Second <= t.at + life + Skew
  BY <1>1, DatesAreClose
<1>3. now + offset[p] < t.claims.exp * Second
  BY <1>2, NoneAssumption DEF jwt_decode, Clock
<1>4. t.claims.exp * Second \in Int
  BY <1>2 DEF Second
<1> QED
  BY <1>1, <1>2, <1>3, <1>4 DEF Age

LEMMA ExchangeKeepsIInv ==
  ASSUME IInv, NEW p \in Processes, NEW t \in tokens, Exchange(p, t) PROVE IInv'
<1> DEFINE a == Issued(p, "access", create_access_token(p, AccessClaims(t.claims.sub)),
                       {}, t.extra, t.proof \cup {"code"}, t.login)
<1>1. /\ TypeOK /\ Genuine(t) /\ t.kind \in {"access", "challenge", "service"}
      /\ jwt_decode(p, t) /\ t.claims.type = "mfa_challenge"
      /\ t.claims.sub \in Users
      /\ t.login \in Int /\ t.at \in Int /\ now \in Int
  BY UsersAssumption DEF IInv, TypeOK, Exchange, decode_mfa_challenge
<1>2. "type" \notin t.extra => t.kind = "challenge"
  BY <1>1, NoneAssumption DEF Genuine, AccessIsProven, ServiceNamesItsIssuer
<1>3. "type" \notin t.extra =>
        t.proof = {"password"} /\ t.login = t.at /\ Dated(t.claims.exp, t, ChallengeLife)
  BY <1>1, <1>2 DEF Genuine, ChallengeFollowsPassword
<1>4. "type" \notin t.extra => now - t.login <= ChallengeLife + 2 * Skew
  <2> SUFFICES ASSUME "type" \notin t.extra
               PROVE  now - t.login <= ChallengeLife + 2 * Skew
    OBVIOUS
  <2>1. t.login = t.at /\ Dated(t.claims.exp, t, ChallengeLife)
    BY <1>3
  <2>2. ChallengeLife \in Nat /\ Skew \in Nat
    BY LivesAssumption, SkewAssumption
  <2>3. Age(t) < ChallengeLife + 2 * Skew
    BY <1>1, <2>1, <2>2, DecodedIsYoung
  <2> QED
    BY <1>1, <2>1, <2>2, <2>3 DEF Age
<1>5. tokens' = tokens \cup {a} /\ UNCHANGED <<now, offset>>
  BY DEF Exchange, Issue, Issued
<1>6. /\ a.kind = "access" /\ a.at = now /\ a.login = t.login /\ a.by = p
      /\ a.extra = {} /\ a.source = t.extra /\ a.proof = t.proof \cup {"code"}
      /\ a.claims.sub = t.claims.sub /\ a.claims.role = RoleOf[t.claims.sub]
      /\ a.claims.type = None /\ a.claims.iat = None
      /\ a.claims.exp = NumericDate(Clock(p) + AccessLife)
  BY DEF Issued, create_access_token, AccessClaims
<1> HIDE DEF a
<1>7. Dated(a.claims.exp, a, AccessLife)
  BY <1>1, <1>6, ClocksDate, LivesAssumption
<1>8. Genuine(a)
  BY <1>1, <1>3, <1>4, <1>6, <1>7
     DEF Genuine, AccessIsProven, ChallengeFollowsPassword, ServiceNamesItsIssuer
<1> QED
  BY <1>1, <1>5, <1>6, <1>8, IssuingKeepsIInv

LEMMA CallServiceKeepsIInv ==
  ASSUME IInv, NEW p \in Processes, NEW extra \in Extras, CallService(p, extra)
  PROVE  IInv'
<1> DEFINE t == Issued(p, "service", create_service_token(p, extra), DOMAIN extra,
                       {}, {}, now)
<1>1. tokens' = tokens \cup {t} /\ UNCHANGED <<now, offset>>
  BY DEF CallService, Issue, Issued
<1>2. /\ t.kind = "service" /\ t.at = now /\ t.login = now /\ t.by = p
      /\ t.extra = DOMAIN extra /\ t.claims = create_service_token(p, extra)
  BY DEF Issued
<1> HIDE DEF t
<1>3. /\ "type" \notin t.extra => t.claims.type = "service"
      /\ "sub" \notin t.extra => t.claims.sub = p
      /\ "iat" \notin t.extra => t.claims.iat = NumericDate(Clock(p))
      /\ "exp" \notin t.extra => t.claims.exp = NumericDate(Clock(p) + ServiceLife)
  BY <1>2 DEF create_service_token
<1>4. NumericDate(Clock(p)) = NumericDate(Clock(p) + 0)
  BY DEF IInv, TypeOK, Clock
<1>5. /\ Dated(NumericDate(Clock(p) + 0), t, 0)
      /\ Dated(NumericDate(Clock(p) + ServiceLife), t, ServiceLife)
  BY <1>2, ClocksDate, LivesAssumption DEF IInv
<1>6. Genuine(t)
  BY <1>2, <1>3, <1>4, <1>5
     DEF Genuine, AccessIsProven, ChallengeFollowsPassword, ServiceNamesItsIssuer
<1> QED
  BY <1>1, <1>2, <1>6, IssuingKeepsIInv DEF IInv, TypeOK

(* A step that issues nothing keeps the invariant.                         *)
LEMMA IdleKeepsIInv ==
  ASSUME IInv, UNCHANGED tokens, now' \in Nat, now' >= now,
         offset' \in [Processes -> -Skew .. Skew]
  PROVE  IInv'
BY DEF IInv, TypeOK, Genuine, AccessIsProven, ChallengeFollowsPassword,
   ServiceNamesItsIssuer, Dated, NumericDate

LEMMA NextIInv == IInv /\ [Next]_vars => IInv'
<1> SUFFICES ASSUME IInv, [Next]_vars PROVE IInv'
  OBVIOUS
<1>0. now \in Nat /\ offset \in [Processes -> -Skew .. Skew]
  BY DEF IInv, TypeOK
<1>1. ASSUME NEW p \in Processes, Adjust(p) PROVE IInv'
  BY <1>0, <1>1, IdleKeepsIInv DEF Adjust
<1>2. ASSUME NEW p \in Processes, Rotate(p) PROVE IInv'
  BY <1>0, <1>2, IdleKeepsIInv DEF Rotate
<1>3. ASSUME NEW route \in Routes, require_roles(route) PROVE IInv'
  BY <1>0, <1>3, IdleKeepsIInv DEF require_roles
<1>4. CASE set_user_dependency
  BY <1>0, <1>4, IdleKeepsIInv DEF set_user_dependency
<1>5. CASE Tick
  BY <1>0, <1>5, IdleKeepsIInv DEF Tick
<1>6. CASE UNCHANGED vars
  BY <1>0, <1>6, IdleKeepsIInv DEF vars
<1> QED
  BY <1>1, <1>2, <1>3, <1>4, <1>5, <1>6, LogInKeepsIInv, ExchangeKeepsIInv,
     CallServiceKeepsIInv DEF Next

(* Every token is one the library would have issued when it was.           *)
THEOREM TokensAreGenuine == Spec => []IInv
BY InitIInv, NextIInv, PTL DEF Spec
-----------------------------------------------------------------------------
(* The life that dates the expiry of a token its maker left alone.         *)
LEMMA ExpiryIsDated ==
  ASSUME IInv, NEW t \in tokens, "exp" \notin t.extra
  PROVE  Life(t) \in Nat /\ Dated(t.claims.exp, t, Life(t))
BY LivesAssumption DEF IInv, TypeOK, Genuine, AccessIsProven,
   ChallengeFollowsPassword, ServiceNamesItsIssuer, Life

(* A token dies in every decoder when its life, its issuer's clock and its *)
(* receiver's clock are over.                                              *)
THEOREM LivesAreBounded == Spec => []TokensAreShortLived
<1>1. IInv => TokensAreShortLived
  BY ExpiryIsDated, DecodedIsYoung DEF IInv, TokensAreShortLived
<1> QED
  BY <1>1, TokensAreGenuine, PTL

(* Under one secret each kind of token passes only where it is meant to,   *)
(* but for service tokens whose maker set the type: KindsStayApart.        *)
THEOREM KindsAreTold == Spec => []KindsStayApart
<1>1. IInv => KindsStayApart
  BY NoneAssumption DEF IInv, TypeOK, Genuine, AccessIsProven,
     ChallengeFollowsPassword, ServiceNamesItsIssuer, KindsStayApart,
     decode_mfa_challenge, get_current_user, verify_service_token
<1> QED
  BY <1>1, TokensAreGenuine, PTL

(* A token whose expiry is far enough away and whose iat, if it has one,   *)
(* has passed on every clock decodes under its own secret.                 *)
LEMMA YoungDecodes ==
  ASSUME IInv, NEW p \in Processes, NEW t \in tokens, NEW life \in Nat,
         t.secret = secret[p], Dated(t.claims.exp, t, life),
         Age(t) + 2 * Skew + Second <= life,
         \/ t.claims.iat = None
         \/ Dated(t.claims.iat, t, 0) /\ Age(t) >= 2 * Skew
  PROVE  jwt_decode(p, t)
<1>1. /\ t.at \in Int /\ now \in Int /\ Skew \in Nat
      /\ offset[p] \in Int /\ -Skew <= offset[p] /\ offset[p] <= Skew
  BY SkewAssumption DEF IInv, TypeOK
<1>2. /\ t.claims.exp \in Int /\ t.claims.exp * Second \in Int
      /\ t.at + life - Skew < t.claims.exp * Second + Second
  BY <1>1, DatesAreClose DEF Second
<1>3. Clock(p) < t.claims.exp * Second
  BY <1>1, <1>2 DEF Clock, Age, Second
<1>4. t.claims.iat # None => t.claims.iat * Second <= Clock(p)
  <2> SUFFICES ASSUME t.claims.iat # None PROVE t.claims.iat * Second <= Clock(p)
    OBVIOUS
  <2>1. Dated(t.claims.iat, t, 0) /\ Age(t) >= 2 * Skew
    OBVIOUS
  <2>2. /\ t.claims.iat \in Int /\ t.claims.iat * Second \in Int
        /\ t.claims.iat * Second <= t.at + 0 + Skew
    BY <1>1, <2>1, DatesAreClose DEF Second
  <2> QED
    BY <1>1, <2>1, <2>2 DEF Clock, Age
<1> QED
  BY <1>3, <1>4 DEF jwt_decode

(* Only a rotated secret or a clock behind the issuer's refuses a token    *)
(* before the last second of its life.                                     *)
THEOREM FreshIsHonoured == Spec => []FreshTokensAreHonoured
<1>1. IInv => FreshTokensAreHonoured
  <2> SUFFICES ASSUME IInv, NEW p \in Processes, NEW t \in tokens,
                      t.secret = secret[p],
                      t.extra \cap {"sub", "type", "iat", "exp"} = {},
                      t.kind = "service" => Age(t) >= 2 * Skew,
                      Age(t) + 2 * Skew + Second <= Life(t)
               PROVE  CASE t.kind = "access" -> get_current_user(p, t)
                        [] t.kind = "challenge" -> decode_mfa_challenge(p, t)
                        [] t.kind = "service" -> verify_service_token(p, t)
    BY DEF FreshTokensAreHonoured
  <2>1. /\ t.kind \in {"access", "challenge", "service"} /\ Genuine(t)
        /\ t.by \in Processes /\ t.at \in Int
    BY DEF IInv, TypeOK
  <2>2. Life(t) \in Nat /\ Dated(t.claims.exp, t, Life(t))
    BY ExpiryIsDated
  <2>3. t.claims.exp \in Int /\ t.claims.exp # None
    BY <2>1, <2>2, DatesAreClose, NoneAssumption
  <2>4. jwt_decode(p, t)
    BY <2>1, <2>2, YoungDecodes
       DEF Genuine, AccessIsProven, ChallengeFollowsPassword, ServiceNamesItsIssuer
  <2>5. CASE t.kind = "access"
    BY <2>1, <2>3, <2>4, <2>5
       DEF Genuine, AccessIsProven, get_current_user, decode_access_token
  <2>6. CASE t.kind = "challenge"
    BY <2>1, <2>3, <2>4, <2>6, NoneAssumption
       DEF Genuine, ChallengeFollowsPassword, decode_mfa_challenge
  <2>7. CASE t.kind = "service"
    BY <2>1, <2>4, <2>7, NoneAssumption
       DEF Genuine, ServiceNamesItsIssuer, verify_service_token
  <2> QED
    BY <2>1, <2>5, <2>6, <2>7
<1> QED
  BY <1>1, TokensAreGenuine, PTL

(* Whoever passes a guard has the role, all factors, and a recent login,   *)
(* unless the type was set by extra_claims, here or in what was exchanged. *)
THEOREM AdmissionIsEarned == Spec => []AdmittedIsProven
<1>1. IInv => AdmittedIsProven
  <2> SUFFICES ASSUME IInv, NEW route \in Routes, NEW p \in Processes,
                      NEW t \in tokens, guard(route, p, t),
                      "type" \notin t.extra \cup t.source
               PROVE  /\ t.claims.sub \in Users
                      /\ RoleOf[t.claims.sub] \in Allowed[route]
                      /\ t.claims.sub \in MfaUsers => t.proof = {"password", "code"}
                      /\ now - t.login < ChallengeLife + AccessLife + 4 * Skew
    BY DEF AdmittedIsProven
  <2>1. /\ t.claims.type = None /\ jwt_decode(p, t)
        /\ t.claims.role \in Allowed[route]
    BY DEF guard, get_current_user, decode_access_token
  <2>2. t.kind = "access" /\ AccessIsProven(t)
    BY <2>1, NoneAssumption
       DEF IInv, TypeOK, Genuine, ChallengeFollowsPassword, ServiceNamesItsIssuer
  <2>3. Age(t) < AccessLife + 2 * Skew /\ t.at - t.login <= ChallengeLife + 2 * Skew
    BY <2>1, <2>2, DecodedIsYoung, LivesAssumption DEF IInv, AccessIsProven
  <2>4. now \in Int /\ t.at \in Int /\ t.login \in Int /\ Skew \in Nat
        /\ ChallengeLife \in Nat /\ AccessLife \in Nat
    BY LivesAssumption, SkewAssumption DEF IInv, TypeOK
  <2>5. now - t.login < ChallengeLife + AccessLife + 4 * Skew
    BY <2>3, <2>4 DEF Age
  <2> QED
    BY <2>1, <2>2, <2>5 DEF AccessIsProven
<1> QED
  BY <1>1, TokensAreGenuine, PTL
=============================================================================

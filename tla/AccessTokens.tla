---------------------------- MODULE AccessTokens ----------------------------
(***************************************************************************)
(* The signed tokens of auth/security.py and auth/service.py and the role  *)
(* guards of auth/rbac.py, between processes whose clocks differ and whose *)
(* secrets are rotated one process at a time.  One secret signs all three  *)
(* kinds of token, the least favourable deployment.                        *)
(*                                                                         *)
(* A token, once issued, may be presented to any process at any time and   *)
(* any number of times; the decoders are pure, so what they answer is a    *)
(* state function.  PyJWT keeps whole seconds of iat and exp and compares  *)
(* them with an unrounded clock.  The login flow is the one the docstring  *)
(* of create_mfa_challenge_token prescribes to a product.                  *)
(***************************************************************************)
EXTENDS Integers, FiniteSets

CONSTANTS Processes,     \* backend processes, each issuer and receiver
          Users,         \* subjects of access tokens
          MfaUsers,      \* those whose account asks for a second factor
          RoleOf,        \* the role each user has
          Routes,        \* routes behind a role guard
          Allowed,       \* the roles each route allows
          Extras,        \* values of extra_claims: functions of claim names
          AccessLife, ChallengeLife, ServiceLife,  \* in ticks
          Skew,          \* how far a clock may be from the true time
          MaxTokens,     \* bound on the tokens issued
          MaxStart,      \* bound on the time of a login or a service call
          MaxTime,       \* bound on the time
          None           \* an absent claim; the user dependency before it is set

(* A null type reads like an absent one; other claims are not given null.  *)
ASSUME ExtrasAssumption ==
  \A extra \in Extras : \A c \in DOMAIN extra \ {"type"} : extra[c] # None
ASSUME NoneAssumption ==
  None \notin Int \cup {"mfa_challenge", "service"} \cup Users \cup Processes
ASSUME LivesAssumption == {AccessLife, ChallengeLife, ServiceLife} \subseteq Nat
ASSUME SkewAssumption == Skew \in Nat
ASSUME UsersAssumption == MfaUsers \subseteq Users

VARIABLES now,       \* the true time, in ticks
          offset,    \* per process: its clock minus the true time
          secret,    \* per process: the secret in its settings
          tokens,    \* the tokens issued, each with its history
          userDep,   \* rbac._get_current_user
          guardDep   \* per guarded route: the dependency its guard depends on

vars == <<now, offset, secret, tokens, userDep, guardDep>>
-----------------------------------------------------------------------------
Second == 2   \* ticks in a second: clocks are finer than a token's times

Clock(p) == now + offset[p]

(* What jwt.encode makes of a datetime: whole seconds, rounded down.       *)
NumericDate(c) == c \div Second

(* Fault: the minutes are passed to timedelta as seconds.                  *)
access_of_seconds(p, data) ==
  [data EXCEPT !.exp = NumericDate(Clock(p) + AccessLife \div 60)]

(* The claims create_access_token is given are kept, all but exp.          *)
create_access_token(p, data) ==
  [data EXCEPT !.exp = NumericDate(Clock(p) + AccessLife)]

(* Fault: the seconds are passed to timedelta as minutes.                  *)
challenge_of_minutes(p, user) ==
  [sub |-> user, role |-> None, type |-> "mfa_challenge", iat |-> None,
   exp |-> NumericDate(Clock(p) + 60 * ChallengeLife)]

create_mfa_challenge_token(p, user) ==
  [sub |-> user, role |-> None, type |-> "mfa_challenge", iat |-> None,
   exp |-> NumericDate(Clock(p) + ChallengeLife)]

(* extra_claims are merged over the claims of the library.                 *)
create_service_token(p, extra) ==
  LET payload == [sub |-> p, role |-> None, type |-> "service",
                  iat |-> NumericDate(Clock(p)),
                  exp |-> NumericDate(Clock(p) + ServiceLife)]
  IN  [c \in DOMAIN payload \cup DOMAIN extra |->
         IF c \in DOMAIN extra THEN extra[c] ELSE payload[c]]

(* jwt.decode: the signature, then iat and exp where they are present.     *)
jwt_decode(p, t) ==
  /\ t.secret = secret[p]
  /\ t.claims.iat # None => t.claims.iat * Second <= Clock(p)
  /\ t.claims.exp # None => Clock(p) < t.claims.exp * Second

decode_access_token(p, t) == jwt_decode(p, t) /\ t.claims.exp # None

(* Fault: any token that decodes passes for a challenge.                   *)
decode_any(p, t) == jwt_decode(p, t) /\ t.claims.sub # None

decode_mfa_challenge(p, t) ==
  /\ jwt_decode(p, t)
  /\ t.claims.type = "mfa_challenge"
  /\ t.claims.sub # None /\ t.claims.exp # None

verify_service_token(p, t) ==
  /\ jwt_decode(p, t)
  /\ t.claims.type = "service"
  /\ t.claims.sub # None

(* The product's user dependency: an access token, told from the others as *)
(* the docstring says, by the type that only they carry.                   *)
get_current_user(p, t) == decode_access_token(p, t) /\ t.claims.type = None

(* Fault: a guard without a user dependency takes the claims as they come. *)
guard_unset(route, p, t) ==
  /\ IF guardDep[route] = None THEN jwt_decode(p, t) ELSE get_current_user(p, t)
  /\ t.claims.role \in Allowed[route]

(* A guard whose dependency was None has no user, and no role to allow.    *)
guard(route, p, t) ==
  /\ guardDep[route] = "get_current_user" /\ get_current_user(p, t)
  /\ t.claims.role \in Allowed[route]
-----------------------------------------------------------------------------
Init ==
  /\ now = 0
  /\ offset = [p \in Processes |-> 0]
  /\ secret = [p \in Processes |-> "old"]
  /\ tokens = {}
  /\ userDep = None
  /\ guardDep = [route \in Routes |-> "unguarded"]

(* A token goes into circulation.  Beside its claims and its signature it  *)
(* has a history: who issued it as what and when, which claims extra_claims*)
(* set in it and in the token it was exchanged for (source), and which     *)
(* factors were given, the password at the time of login.                  *)
Issue(p, kind, claims, extra, source, proof, login) ==
  /\ Cardinality(tokens) < MaxTokens
  /\ tokens' = tokens \cup {[kind |-> kind, claims |-> claims, secret |-> secret[p],
                             extra |-> extra, source |-> source, by |-> p, at |-> now,
                             proof |-> proof, login |-> login]}
  /\ UNCHANGED <<now, offset, secret, userDep, guardDep>>

AccessClaims(u) == [sub |-> u, role |-> RoleOf[u], type |-> None,
                    iat |-> None, exp |-> None]

(* The password was right: a challenge where a second factor is asked for. *)
LogIn(p, u) ==
  /\ now <= MaxStart
  /\ IF u \in MfaUsers
     THEN Issue(p, "challenge", create_mfa_challenge_token(p, u), {}, {},
                {"password"}, now)
     ELSE Issue(p, "access", create_access_token(p, AccessClaims(u)), {}, {},
                {"password"}, now)

(* A challenge is exchanged with a right code of the account it names;     *)
(* nothing uses it up.                                                     *)
Exchange(p, t) ==
  /\ decode_mfa_challenge(p, t)
  /\ t.claims.sub \in MfaUsers
  /\ Issue(p, "access", create_access_token(p, AccessClaims(t.claims.sub)), {}, t.extra,
           t.proof \cup {"code"}, t.login)

CallService(p, extra) ==
  /\ now <= MaxStart
  /\ Issue(p, "service", create_service_token(p, extra), DOMAIN extra, {}, {}, now)

Tick == /\ now < MaxTime
        /\ now' = now + 1
        /\ UNCHANGED <<offset, secret, tokens, userDep, guardDep>>

(* A clock drifts or is set.                                               *)
Adjust(p) == /\ \E o \in -Skew .. Skew : offset' = [offset EXCEPT ![p] = o]
             /\ UNCHANGED <<now, secret, tokens, userDep, guardDep>>

(* A process restarts with the new secret.                                 *)
Rotate(p) == /\ secret[p] = "old"
             /\ secret' = [secret EXCEPT ![p] = "new"]
             /\ UNCHANGED <<now, offset, tokens, userDep, guardDep>>

set_user_dependency == /\ userDep = None
                       /\ userDep' = "get_current_user"
                       /\ UNCHANGED <<now, offset, secret, tokens, guardDep>>

(* The default of the guard's parameter is evaluated here, once.           *)
require_roles(route) ==
  /\ guardDep[route] = "unguarded"
  /\ guardDep' = [guardDep EXCEPT ![route] = userDep]
  /\ UNCHANGED <<now, offset, secret, tokens, userDep>>

Next == \/ \E p \in Processes : \/ \E u \in Users : LogIn(p, u)
                                \/ \E t \in tokens : Exchange(p, t)
                                \/ \E extra \in Extras : CallService(p, extra)
                                \/ Adjust(p) \/ Rotate(p)
        \/ \E route \in Routes : require_roles(route)
        \/ set_user_dependency \/ Tick

Spec == Init /\ [][Next]_vars
-----------------------------------------------------------------------------
Life(t) == CASE t.kind = "access" -> AccessLife
             [] t.kind = "challenge" -> ChallengeLife
             [] t.kind = "service" -> ServiceLife

Age(t) == now - t.at

(* No token outlives its lifetime by more than the clocks can differ, in   *)
(* whichever decoder it is presented, unless its maker's extra_claims set  *)
(* exp: revocation by expiry, the only one the library itself has.         *)
TokensAreShortLived ==
  \A p \in Processes : \A t \in tokens :
    jwt_decode(p, t) /\ "exp" \notin t.extra => Age(t) < Life(t) + 2 * Skew

(* A token is good where it was meant for until the last second of its     *)
(* life, clocks permitting: what refuses it before is another secret, or,  *)
(* for a service token alone, a clock behind the one that dated it.        *)
FreshTokensAreHonoured ==
  \A p \in Processes : \A t \in tokens :
    /\ t.secret = secret[p] /\ t.extra \cap {"sub", "type", "iat", "exp"} = {}
    /\ t.kind = "service" => Age(t) >= 2 * Skew
    /\ Age(t) + 2 * Skew + Second <= Life(t)
    => CASE t.kind = "access" -> get_current_user(p, t)
         [] t.kind = "challenge" -> decode_mfa_challenge(p, t)
         [] t.kind = "service" -> verify_service_token(p, t)

(* One secret signs all tokens, and still what takes one kind takes no     *)
(* other: a challenge that is accepted was issued as one, and so was what  *)
(* passes for a user's token, except for service tokens whose maker's      *)
(* extra_claims set the type; and what passes for a service token is one   *)
(* without exception, of the service it names unless its maker set that.   *)
KindsStayApart ==
  \A p \in Processes : \A t \in tokens :
    /\ decode_mfa_challenge(p, t) =>
         t.kind = "challenge" \/ (t.kind = "service" /\ "type" \in t.extra)
    /\ get_current_user(p, t) =>
         t.kind = "access" \/ (t.kind = "service" /\ "type" \in t.extra)
    /\ verify_service_token(p, t) =>
         t.kind = "service" /\ ("sub" \in t.extra \/ t.claims.sub = t.by)

(* Whoever passes a role guard is a user whose role the route allows, who  *)
(* gave every factor the account asks for, and gave the password no longer *)
(* ago than a challenge and an access token live: through login, exchange, *)
(* clocks that differ, rotation and any order of start-up.  Only whoever   *)
(* signs a service token whose extra_claims set the type gets around this, *)
(* with that token or with one it was exchanged for.                       *)
AdmittedIsProven ==
  \A route \in Routes : \A p \in Processes : \A t \in tokens :
    guard(route, p, t) /\ "type" \notin t.extra \cup t.source =>
      /\ t.claims.sub \in Users /\ RoleOf[t.claims.sub] \in Allowed[route]
      /\ t.claims.sub \in MfaUsers => t.proof = {"password", "code"}
      /\ now - t.login < ChallengeLife + AccessLife + 4 * Skew
-----------------------------------------------------------------------------
(* The inductive invariant behind the properties above.                    *)

(* Dated by a clock that was no further off than clocks can be.            *)
Dated(date, t, life) ==
  \E c \in t.at - Skew .. t.at + Skew : date = NumericDate(c + life)

TypeOK ==
  /\ now \in Nat
  /\ offset \in [Processes -> -Skew .. Skew]
  /\ \A t \in tokens : /\ t.kind \in {"access", "challenge", "service"}
                       /\ t.at \in 0 .. now /\ t.login \in Int
                       /\ t.by \in Processes

AccessIsProven(t) ==
  t.kind = "access" =>
    /\ t.claims.type = None /\ t.claims.iat = None /\ t.extra = {}
    /\ t.claims.sub \in Users /\ t.claims.role = RoleOf[t.claims.sub]
    /\ Dated(t.claims.exp, t, AccessLife)
    /\ "type" \notin t.source =>
         /\ t.claims.sub \in MfaUsers => t.proof = {"password", "code"}
         /\ t.at - t.login <= ChallengeLife + 2 * Skew

ChallengeFollowsPassword(t) ==
  t.kind = "challenge" =>
    /\ t.claims.type = "mfa_challenge" /\ t.claims.iat = None /\ t.extra = {}
    /\ t.claims.sub \in Users
    /\ Dated(t.claims.exp, t, ChallengeLife)
    /\ t.proof = {"password"} /\ t.login = t.at

ServiceNamesItsIssuer(t) ==
  t.kind = "service" =>
    /\ "type" \notin t.extra => t.claims.type = "service"
    /\ "sub" \notin t.extra => t.claims.sub = t.by
    /\ "iat" \notin t.extra => Dated(t.claims.iat, t, 0)
    /\ "exp" \notin t.extra => Dated(t.claims.exp, t, ServiceLife)

Genuine(t) == /\ AccessIsProven(t)
              /\ ChallengeFollowsPassword(t)
              /\ ServiceNamesItsIssuer(t)

IInv == TypeOK /\ \A t \in tokens : Genuine(t)
=============================================================================

--------------------------- MODULE MCAccessTokens ---------------------------
(***************************************************************************)
(* AccessTokens on a small instance: an administrator with a second factor *)
(* and a member of staff without, a route for administrators, and service  *)
(* tokens with extra claims: one that adds a claim, some that override the *)
(* subject or the expiry, and some that override the type, to that of a    *)
(* challenge or to none.                                                   *)
(***************************************************************************)
EXTENDS AccessTokens, TLC

Symmetry == Permutations(Processes)

Roles == ("ann" :> "ADMIN") @@ ("bob" :> "STAFF")

AdminRoutes == "payroll" :> {"ADMIN"}

ExtraClaims ==
  {<<>>, "role" :> "ADMIN", "sub" :> "ann", "exp" :> 99,
   ("type" :> "mfa_challenge") @@ ("sub" :> "ann"),
   ("type" :> None) @@ ("role" :> "ADMIN")}
=============================================================================

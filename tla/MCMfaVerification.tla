-------------------------- MODULE MCMfaVerification --------------------------
(***************************************************************************)
(* MfaVerification on small instances: requests and the names of the codes *)
(* in a batch may be permuted, keys may be too.                            *)
(***************************************************************************)
EXTENDS MfaVerification, TLC

Symmetry == Permutations(Requests) \cup Permutations(Names) \cup Permutations(Keys)
=============================================================================

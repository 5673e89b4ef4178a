-------------------------- MODULE MCAccountDeletion --------------------------
(***************************************************************************)
(* AccountDeletion on small instances.  The deletion requests are alike    *)
(* until their token is chosen and may be permuted; the values of columns  *)
(* are strings, requests and organisations are model values.               *)
(***************************************************************************)
EXTENDS AccountDeletion, TLC

Symmetry == Permutations(Deleters)
=============================================================================

--------------------------- MODULE MCStripeWrites ---------------------------
(***************************************************************************)
(* StripeWrites on small instances: an invoice, the same one with the      *)
(* suffix of a deliberate repetition, the same one of another product on   *)
(* another account, and a write whose account id is none.                  *)
(***************************************************************************)
EXTENDS StripeWrites

Invoice(p, a, s) == [product |-> p, account |-> a, operation |-> <<"create_invoice">>,
                     entity_type |-> <<"engagement">>, entity_id |-> <<"42">>,
                     suffix |-> s]

SeparateAccounts == {Invoice("recruitment", "acct_r", <<>>),
                     Invoice("recruitment", "acct_r", <<"retry-1">>),
                     Invoice("digital", "acct_d", <<>>)}

OneBadAccount == {Invoice("recruitment", "cus_r", <<>>)} \cup SeparateAccounts

(* The instance is one that the proofs speak of, since plain parts make    *)
(* keys distinct.                                                          *)
ASSUME InstanceIsPlain == PlainParts
=============================================================================

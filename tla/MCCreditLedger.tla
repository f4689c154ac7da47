--------------------------- MODULE MCCreditLedger ---------------------------
(* Instances of CreditLedger for TLC. *)
EXTENDS CreditWallet, TLC

RequestSymmetry == Permutations(Requests)
=============================================================================

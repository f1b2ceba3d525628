-------------------------- MODULE MCRuneDepositScan --------------------------
(* Instances of RuneDepositScan for TLC *)
EXTENDS RuneDepositScan

CONSTANTS d1, s1, s2
=============================================================================

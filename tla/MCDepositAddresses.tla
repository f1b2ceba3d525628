-------------------------- MODULE MCDepositAddresses --------------------------
(* Instances of DepositAddresses for TLC. *)
EXTENDS DepositAddresses

CONSTANTS r1, r2, u1, rsk, bob
=============================================================================

------------------------- MODULE MCEvmEventScanner -------------------------
(* Instances of EvmEventScanner for TLC. *)
EXTENDS EvmEventScanner
=============================================================================

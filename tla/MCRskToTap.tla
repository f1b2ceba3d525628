----------------------------- MODULE MCRskToTap -----------------------------
(* Instances of RskToTap for TLC. *)
EXTENDS RskToTap, TLC

CONSTANTS n1, n2
=============================================================================

----------------------------- MODULE MCPyroProxy -----------------------------
(* Instances of PyroProxy for TLC. *)
EXTENDS PyroProxy, TLC

CONSTANTS t1, t2
=============================================================================

----------------------------- MODULE MCTapToRsk -----------------------------
(* Instances of TapToRsk for TLC. *)
EXTENDS TapToRsk

CONSTANTS n1, n2, n3

(* All addresses were given out by the first leader. *)
MCHome == [d \in Deposit |-> n1]
=============================================================================

-------------------------- MODULE MCRuneTokenToBtc --------------------------
(* Instances of RuneTokenToBtc for TLC. *)
EXTENDS RuneTokenToBtc

CONSTANTS n1, n2, n3, c1

(* One output that just pays for both burns: the second payment has to wait *)
(* for the change of the first, and leaders compete for the same output.    *)
MCAmount == [d \in Burn |-> 1]
MCCoinRunes == [c \in Coin |-> 2]
=============================================================================

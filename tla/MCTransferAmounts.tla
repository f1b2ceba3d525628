-------------------------- MODULE MCTransferAmounts --------------------------
(* An instance of TransferAmounts for TLC: the default policy of the        *)
(* contract with a coarser divisor, one with a flat fee, and one that       *)
(* disables transfers.                                                      *)
EXTENDS TransferAmounts, TLC

MCPolicy == {[max |-> 50, min |-> 1, flat |-> 0, dynamic |-> 3],
             [max |-> 20, min |-> 5, flat |-> 4, dynamic |-> 1],
             [max |-> 0, min |-> 0, flat |-> 1, dynamic |-> 0]}
=============================================================================

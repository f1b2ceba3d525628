----------------------------- MODULE MCRuneToEvm -----------------------------
(* Instances of RuneToEvm for TLC: every deposit is of the first rune. *)
EXTENDS RuneToEvm, TLC

CONSTANTS n1, n2, n3, n4, d1, d2, d3, r1, r2

MCRuneOf == [d \in Deposit |-> r1]
MCPeerOrder == SelectSeq(<<n1, n2, n3, n4>>, LAMBDA n : n \in Node)
Symmetry == Permutations(Node \ Candidate) \cup Permutations(Deposit \ (LowPostage \cup Dust \cup Spendable))
=============================================================================

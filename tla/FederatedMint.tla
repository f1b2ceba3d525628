---------------------------- MODULE FederatedMint ----------------------------
(***************************************************************************)
(* What the rune bridge promises the holders of its tokens: an amount is   *)
(* minted for a transfer at most once, and only if a strict majority of    *)
(* those who are members at that moment have voted for exactly this        *)
(* transfer and amount ("a strict majority has to agree").                 *)
(***************************************************************************)
EXTENDS Integers, FiniteSets, Sequences

CONSTANTS Member, Transfer, Amount

VARIABLES members, votes, minted

vars == <<members, votes, minted>>

Message == [dep : Transfer, net : Amount]

Voters(msg) == {m \in members : [signer |-> m, msg |-> msg] \in votes}

Init ==
    /\ members = Member
    /\ votes = {}
    /\ minted = [t \in Transfer |-> <<>>]

Vote(m, msg) ==
    /\ votes' = votes \cup {[signer |-> m, msg |-> msg]}
    /\ UNCHANGED <<members, minted>>

ChangeMembers ==
    /\ members' \in SUBSET Member
    /\ UNCHANGED <<votes, minted>>

MintAgreed(msg) ==
    /\ minted[msg.dep] = <<>>
    /\ 2 * Cardinality(Voters(msg)) > Cardinality(members)
    /\ minted' = [minted EXCEPT ![msg.dep] = <<msg.net>>]
    /\ UNCHANGED <<members, votes>>

Next ==
    \/ ChangeMembers
    \/ \E msg \in Message : MintAgreed(msg) \/ \E m \in Member : Vote(m, msg)

Spec == Init /\ [][Next]_vars
=============================================================================

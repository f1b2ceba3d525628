--------------------------- MODULE FederatedPayout ---------------------------
(***************************************************************************)
(* What the federation promises for the RuneToken -> BTC direction: runes  *)
(* are paid out only for tokens that were burnt, a member pays for a burn  *)
(* at most once, and members who have paid for a burn are missing from the *)
(* quorum of any further payment for it.  With one leader, or with a       *)
(* unanimous quorum, a burn is paid at most once.                          *)
(***************************************************************************)
EXTENDS Integers, FiniteSets

CONSTANTS
    Member,     \* the nodes of the federation
    Quorum,     \* signatures the multisig wallet asks for
    Burn        \* token transfers to the bridge contract

VARIABLES
    burnt,      \* the transfers that have happened
    payments    \* the payments for them: records with id, burn and by

vars == <<burnt, payments>>

PaidBy(b) == {p.by : p \in {q \in payments : q.burn = b}}

Init ==
    /\ burnt = {}
    /\ payments = {}

Transfer(b) ==
    /\ b \notin burnt
    /\ burnt' = burnt \cup {b}
    /\ UNCHANGED payments

(* One payment is made, with an id of its own. *)
Pay(m, b) ==
    /\ b \in burnt
    /\ m \notin PaidBy(b)
    /\ Cardinality(PaidBy(b)) + Quorum <= Cardinality(Member)
    /\ \E p \in payments' \ payments :
          /\ p.burn = b
          /\ p.by = m
          /\ payments' = payments \cup {p}
    /\ UNCHANGED burnt

Next == \E b \in Burn : Transfer(b) \/ \E m \in Member : Pay(m, b)

Spec == Init /\ [][Next]_vars
=============================================================================

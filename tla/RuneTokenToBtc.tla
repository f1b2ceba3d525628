---------------------------- MODULE RuneTokenToBtc ----------------------------
(***************************************************************************)
(* The RuneToken -> BTC direction of the rune bridge: tokens are burnt on  *)
(* the EVM, every node scans the burn into its own database, and the       *)
(* leader builds a Bitcoin transaction from the outputs of the multisig    *)
(* wallet, collects the signatures of its peers and broadcasts it.         *)
(*                                                                         *)
(* No contract sees a payment twice here: what keeps a burn from being     *)
(* paid again is the status of its row, and every node has its own rows.   *)
(***************************************************************************)
EXTENDS Integers, FiniteSets, Functions, Sequences

CONSTANTS
    Node,           \* the bridge nodes, each with a key of the multisig wallet
    Candidate,      \* the nodes that may be configured as leader
    FirstLeader,    \* the node that is the leader initially
    Quorum,         \* num_required_signers of the wallet
    NumBurns,       \* bound: burns happen in the order 1, 2, ...
    Amount,         \* net_rune_amount_raw of each burn
    Coin,           \* the outputs the wallet holds initially
    CoinRunes,      \* the runes in each of them
    NoPsbt,         \* "no transaction is being signed"
    MaxFaults,      \* bound on failing calls
    MaxRestarts,    \* bound on node restarts
    MaxGovernance   \* bound on pausing, freezing and their opposites

Burn == 1 .. NumBurns

ASSUME FederationAssumption ==
    /\ IsFiniteSet(Node)
    /\ Candidate \subseteq Node
    /\ FirstLeader \in Candidate
    /\ Quorum \in 1 .. Cardinality(Node)
ASSUME WalletAssumption ==
    /\ NumBurns \in Nat
    /\ Amount \in [Burn -> Nat \ {0}]
    /\ IsFiniteSet(Coin)
    /\ Coin \cap Nat = {}
    /\ CoinRunes \in [Coin -> Nat]
ASSUME BoundAssumption ==
    MaxFaults \in Nat /\ MaxRestarts \in Nat /\ MaxGovernance \in Nat

VARIABLES
    \* EVM
    burned,     \* how many burns have happened, behind the safety margin
    frozen, paused,
    \* the database of each node
    status,     \* RuneTokenDeposit.status; "NONE" while there is no row
    \* the main loop of each candidate
    pc,
    todo,       \* deposits the loop has still to handle
    psbt,       \* the transaction being signed or broadcast
    asked,      \* peers network.ask has called
    signers,    \* who has signed it
    \* Bitcoin
    txs,        \* transactions of the wallet that bitcoind accepted, oldest first
    \* configuration and bounds
    leads, faults, restarts, governance

evmVars  == <<burned, frozen, paused, governance>>
loopVars == <<pc, todo, psbt, asked, signers>>
cfgVars  == <<leads, restarts>>
vars == <<evmVars, status, loopVars, txs, cfgVars, faults>>

-----------------------------------------------------------------------------
Status == {"NONE", "ACCEPTED", "SENDING_TO_BTC", "SENT_TO_BTC", "SENDING_TO_BTC_FAILED"}
Loop == {"idle", "handle", "ask", "broadcast", "raised", "returned"}

(* An output is one of the initial ones or, named by the position of the    *)
(* transaction that made it, the rune change output of a payment.           *)
Output == Coin \cup Nat
Psbt == [dep : Burn, inputs : SUBSET Output, change : Int]
Transaction == [dep : Burn, inputs : SUBSET Output, change : Int, by : Candidate, mined : BOOLEAN]

RunesIn ==
    [o \in Coin \cup DOMAIN txs |-> IF o \in Coin THEN CoinRunes[o] ELSE txs[o].change]
Runes(S) == SumFunctionOnSet(RunesIn, S)
Unspent == {o \in Coin \cup DOMAIN txs : \A i \in DOMAIN txs : o \notin txs[i].inputs}

(* list_utxos: outputs of unconfirmed transactions are not listed, nor are  *)
(* those an unconfirmed transaction spends.                                 *)
ListedOutputs == {o \in Unspent : o \in Coin \/ txs[o].mined}

(* The sets of outputs create_rune_psbt may choose: it adds outputs that    *)
(* hold the rune until there is enough, and stops at once.                  *)
RuneSelections(amount) ==
    {S \in SUBSET {o \in ListedOutputs : RunesIn[o] > 0} :
        Runes(S) >= amount /\ \E o \in S : Runes(S \ {o}) < amount}

Peers(n) == Node \ {n}

Init ==
    /\ burned = 0
    /\ frozen = FALSE
    /\ paused = FALSE
    /\ status = [n \in Node |-> [d \in Burn |-> "NONE"]]
    /\ pc = [n \in Candidate |-> "idle"]
    /\ todo = [n \in Candidate |-> {}]
    /\ psbt = [n \in Candidate |-> NoPsbt]
    /\ asked = [n \in Candidate |-> {}]
    /\ signers = [n \in Candidate |-> {}]
    /\ txs = <<>>
    /\ leads = {FirstLeader}
    /\ faults = 0
    /\ restarts = 0
    /\ governance = 0

(* A call to a remote service raises. *)
Fault == faults < MaxFaults /\ faults' = faults + 1

-----------------------------------------------------------------------------
(* One iteration of a node: scan and, on the leader, handle every accepted  *)
(* deposit in the order of the rows.                                        *)

(* Variant: the first block behind the scanned ones is scanned too early. *)
ScannedEarly(n, d) ==
    IF d <= burned + 1 /\ status[n][d] = "NONE" THEN "ACCEPTED" ELSE status[n][d]

(* Scanned events become accepted rows; rows are never touched again. *)
Scanned(n, d) ==
    IF d <= burned /\ status[n][d] = "NONE" THEN "ACCEPTED" ELSE status[n][d]

scan_rune_token_deposits(n) ==
    status' = [status EXCEPT ![n] = [d \in Burn |-> Scanned(n, d)]]

RunIterationFollower(n) ==
    /\ n \in Candidate => n \notin leads /\ pc[n] = "idle"
    /\ scan_rune_token_deposits(n)
    /\ UNCHANGED <<evmVars, loopVars, txs, cfgVars, faults>>

RunIterationLeader(n) ==
    /\ n \in leads
    /\ pc[n] = "idle"
    /\ scan_rune_token_deposits(n)
    /\ ~frozen
    /\ pc' = [pc EXCEPT ![n] = "handle"]
    /\ todo' = [todo EXCEPT ![n] = {d \in Burn : status'[n][d] = "ACCEPTED"}]
    /\ UNCHANGED <<evmVars, psbt, asked, signers, txs, cfgVars, faults>>

RunIterationFrozen(n) ==
    /\ n \in leads
    /\ pc[n] = "idle"
    /\ frozen
    /\ scan_rune_token_deposits(n)
    /\ UNCHANGED <<evmVars, loopVars, txs, cfgVars, faults>>

EndIteration(n) ==
    /\ pc[n] = "handle"
    /\ todo[n] = {}
    /\ pc' = [pc EXCEPT ![n] = "idle"]
    /\ UNCHANGED <<evmVars, status, todo, psbt, asked, signers, txs, cfgVars, faults>>

First(n, d) == d \in todo[n] /\ \A e \in todo[n] : d <= e

NextDeposit(n) ==
    /\ pc' = [pc EXCEPT ![n] = "handle"]
    /\ psbt' = [psbt EXCEPT ![n] = NoPsbt]
    /\ asked' = [asked EXCEPT ![n] = {}]
    /\ signers' = [signers EXCEPT ![n] = {}]
    /\ UNCHANGED todo

-----------------------------------------------------------------------------
(* handle_accepted_rune_token_deposit: build, sign, collect signatures *)

(* Variant: the runestone does not send the change back to the wallet. *)
create_rune_psbtWithoutPointer(n, d) ==
    /\ pc[n] = "handle"
    /\ First(n, d)
    /\ status[n][d] = "ACCEPTED"
    /\ \E S \in RuneSelections(Amount[d]) :
          psbt' = [psbt EXCEPT ![n] = [dep |-> d, inputs |-> S, change |-> 0]]
    /\ pc' = [pc EXCEPT ![n] = "ask"]
    /\ todo' = [todo EXCEPT ![n] = @ \ {d}]
    /\ signers' = [signers EXCEPT ![n] = {n}]
    /\ UNCHANGED <<evmVars, status, asked, txs, cfgVars, faults>>

create_rune_psbt(n, d) ==
    /\ pc[n] = "handle"
    /\ First(n, d)
    /\ status[n][d] = "ACCEPTED"
    /\ \E S \in RuneSelections(Amount[d]) :
          psbt' = [psbt EXCEPT ![n] =
              [dep |-> d, inputs |-> S, change |-> Runes(S) - Amount[d]]]
    /\ pc' = [pc EXCEPT ![n] = "ask"]
    /\ todo' = [todo EXCEPT ![n] = @ \ {d}]
    /\ signers' = [signers EXCEPT ![n] = {n}]
    /\ UNCHANGED <<evmVars, status, asked, txs, cfgVars, faults>>

(* The wallet has too few confirmed runes, the fee rate is too high, or a   *)
(* call raises: the loop goes on.                                           *)
SkipDeposit(n, d) ==
    /\ pc[n] = "handle"
    /\ First(n, d)
    /\ \/ RuneSelections(Amount[d]) = {} /\ UNCHANGED faults
       \/ Fault
    /\ todo' = [todo EXCEPT ![n] = @ \ {d}]
    /\ UNCHANGED <<evmVars, status, pc, psbt, asked, signers, txs, cfgVars>>

(* A peer signs if it is no leader and its own row is still ACCEPTED; the   *)
(* transaction of a correct leader passes the other checks.                 *)
WillSign(p, d) == (p \in Candidate => p \notin leads) /\ status[p][d] = "ACCEPTED"

AskPeer(n, p) ==
    /\ pc[n] = "ask"
    /\ p \in Peers(n) \ asked[n]
    /\ asked' = [asked EXCEPT ![n] = @ \cup {p}]
    /\ UNCHANGED <<evmVars, status, pc, todo, psbt, txs, cfgVars>>

PeerSigns(n, p) ==
    /\ AskPeer(n, p)
    /\ WillSign(p, psbt[n].dep)
    /\ signers' = [signers EXCEPT ![n] = @ \cup {p}]
    /\ UNCHANGED faults

(* The peer refuses, is down, estimates the fee too differently, or its     *)
(* answer is lost.                                                          *)
PeerDoesNotSign(n, p) ==
    /\ AskPeer(n, p)
    /\ \/ ~WillSign(p, psbt[n].dep) /\ UNCHANGED faults
       \/ Fault
    /\ UNCHANGED signers

(* combine_and_finalize_psbt: enough keys of the wallet have signed. *)
Finalizable(n) == Cardinality(signers[n]) >= Quorum

(* Variant: the deposit is marked before the signatures are there. *)
TooFewSignaturesMarked(n) ==
    /\ pc[n] = "ask"
    /\ asked[n] = Peers(n)
    /\ ~Finalizable(n)
    /\ status' = [status EXCEPT ![n][psbt[n].dep] = "SENDING_TO_BTC"]
    /\ NextDeposit(n)
    /\ UNCHANGED <<evmVars, txs, cfgVars, faults>>

(* Signatures are not kept: the next iteration builds a new transaction. *)
TooFewSignatures(n) ==
    /\ pc[n] = "ask"
    /\ asked[n] = Peers(n)
    /\ ~Finalizable(n)
    /\ NextDeposit(n)
    /\ UNCHANGED <<evmVars, status, txs, cfgVars, faults>>

-----------------------------------------------------------------------------
(* Broadcasting: SENDING_TO_BTC is committed first *)

CommitSending(n) ==
    /\ pc[n] = "ask"
    /\ asked[n] = Peers(n)
    /\ Finalizable(n)
    /\ status[n][psbt[n].dep] = "ACCEPTED"
    /\ status' = [status EXCEPT ![n][psbt[n].dep] = "SENDING_TO_BTC"]
    /\ pc' = [pc EXCEPT ![n] = "broadcast"]
    /\ UNCHANGED <<evmVars, todo, psbt, asked, signers, txs, cfgVars, faults>>

(* What bitcoind accepts: no input is spent already. *)
Acceptable(n) == psbt[n].inputs \subseteq Unspent

Accepted(n) ==
    Append(txs, [dep |-> psbt[n].dep, inputs |-> psbt[n].inputs,
                 change |-> psbt[n].change, by |-> n, mined |-> FALSE])

broadcast_psbt(n) ==
    /\ pc[n] = "broadcast"
    /\ Acceptable(n)
    /\ txs' = Accepted(n)
    /\ pc' = [pc EXCEPT ![n] = "returned"]
    /\ UNCHANGED <<evmVars, status, todo, psbt, asked, signers, cfgVars, faults>>

(* Variant: an exception while broadcasting is ignored. *)
BroadcastRaisesIgnored(n) ==
    /\ pc[n] = "broadcast"
    /\ \/ ~Acceptable(n) /\ UNCHANGED <<txs, faults>>
       \/ Fault /\ UNCHANGED txs
       \/ Fault /\ Acceptable(n) /\ txs' = Accepted(n)
    /\ pc' = [pc EXCEPT ![n] = "returned"]
    /\ UNCHANGED <<evmVars, status, todo, psbt, asked, signers, cfgVars>>

(* bitcoind rejects the transaction, or the call fails; then bitcoind may   *)
(* have accepted the transaction all the same.                              *)
BroadcastRaises(n) ==
    /\ pc[n] = "broadcast"
    /\ \/ ~Acceptable(n) /\ UNCHANGED <<txs, faults>>
       \/ Fault /\ UNCHANGED txs
       \/ Fault /\ Acceptable(n) /\ txs' = Accepted(n)
    /\ pc' = [pc EXCEPT ![n] = "raised"]
    /\ UNCHANGED <<evmVars, status, todo, psbt, asked, signers, cfgVars>>

CommitFailed(n) ==
    /\ pc[n] = "raised"
    /\ status' = [status EXCEPT ![n][psbt[n].dep] = "SENDING_TO_BTC_FAILED"]
    /\ NextDeposit(n)
    /\ UNCHANGED <<evmVars, txs, cfgVars, faults>>

CommitSent(n) ==
    /\ pc[n] = "returned"
    /\ status' = [status EXCEPT ![n][psbt[n].dep] = "SENT_TO_BTC"]
    /\ NextDeposit(n)
    /\ UNCHANGED <<evmVars, txs, cfgVars, faults>>

-----------------------------------------------------------------------------
(* The chains, governance and operators *)

transferToBtc ==
    /\ burned < NumBurns
    /\ ~paused
    /\ burned' = burned + 1
    /\ UNCHANGED <<frozen, paused, governance, status, loopVars, txs, cfgVars, faults>>

MineBtc(i) ==
    /\ ~txs[i].mined
    /\ \A j \in DOMAIN txs : j \in txs[i].inputs => txs[j].mined
    /\ txs' = [txs EXCEPT ![i].mined = TRUE]
    /\ UNCHANGED <<evmVars, status, loopVars, cfgVars, faults>>

Governs(p, f) ==
    /\ governance < MaxGovernance
    /\ governance' = governance + 1
    /\ paused' = p
    /\ frozen' = f
    /\ UNCHANGED <<burned, status, loopVars, txs, cfgVars, faults>>

pause    == ~paused /\ Governs(TRUE, frozen)
freeze   == ~frozen /\ Governs(TRUE, TRUE)
unpause  == paused /\ ~frozen /\ Governs(FALSE, frozen)
unfreeze == frozen /\ Governs(paused, FALSE)

(* Node n stops anywhere and starts again, as leader or as follower. *)
Restart(n, leader) ==
    /\ restarts < MaxRestarts
    /\ restarts' = restarts + 1
    /\ leads' = IF leader THEN leads \cup {n} ELSE leads \ {n}
    /\ pc' = [pc EXCEPT ![n] = "idle"]
    /\ todo' = [todo EXCEPT ![n] = {}]
    /\ psbt' = [psbt EXCEPT ![n] = NoPsbt]
    /\ asked' = [asked EXCEPT ![n] = {}]
    /\ signers' = [signers EXCEPT ![n] = {}]
    /\ UNCHANGED <<evmVars, status, txs, faults>>

-----------------------------------------------------------------------------
Lead(n) ==
    \/ RunIterationLeader(n)
    \/ RunIterationFrozen(n)
    \/ EndIteration(n)
    \/ \E d \in Burn : create_rune_psbt(n, d) \/ SkipDeposit(n, d)
    \/ \E p \in Node : PeerSigns(n, p) \/ PeerDoesNotSign(n, p)
    \/ TooFewSignatures(n)
    \/ CommitSending(n)
    \/ broadcast_psbt(n)
    \/ BroadcastRaises(n)
    \/ CommitFailed(n)
    \/ CommitSent(n)

Next ==
    \/ \E n \in Node : RunIterationFollower(n)
    \/ \E n \in Candidate : Lead(n)
    \/ transferToBtc
    \/ \E i \in DOMAIN txs : MineBtc(i)
    \/ pause \/ freeze \/ unpause \/ unfreeze
    \/ \E n \in Candidate, leader \in BOOLEAN : Restart(n, leader)

Spec == Init /\ [][Next]_vars

(* The loops of the followers and of the first leader keep running, and     *)
(* transactions are mined; nothing is assumed of other leaders.             *)
Fairness ==
    /\ \A n \in Node : WF_vars(RunIterationFollower(n))
    /\ WF_vars(Lead(FirstLeader))
    /\ WF_vars(\E i \in DOMAIN txs : MineBtc(i))

FairSpec == Spec /\ Fairness

-----------------------------------------------------------------------------
(* Properties *)

(* Every variable holds a value of its kind. *)
TypeOK ==
    /\ burned \in 0 .. NumBurns
    /\ frozen \in BOOLEAN
    /\ paused \in BOOLEAN
    /\ status \in [Node -> [Burn -> Status]]
    /\ pc \in [Candidate -> Loop]
    /\ todo \in [Candidate -> SUBSET Burn]
    /\ psbt \in [Candidate -> Psbt \cup {NoPsbt}]
    /\ asked \in [Candidate -> SUBSET Node]
    /\ signers \in [Candidate -> SUBSET Node]
    /\ txs \in Seq(Transaction)
    /\ leads \subseteq Candidate
    /\ faults \in Nat
    /\ restarts \in Nat
    /\ governance \in Nat

Payments(d) == {i \in DOMAIN txs : txs[i].dep = d}

(* A leader pays for a burn at most once, whatever restarts, failing calls  *)
(* and rejected transactions come in between: SENDING_TO_BTC is committed   *)
(* before the broadcast, and a row never becomes ACCEPTED again.            *)
PaidOnceByEachLeader ==
    \A i, j \in DOMAIN txs : txs[i].by = txs[j].by /\ txs[i].dep = txs[j].dep => i = j

(* What the database calls sent is in bitcoind's hands. *)
SentIsPaid ==
    \A n \in Candidate, d \in Burn :
        status[n][d] = "SENT_TO_BTC" => \E i \in Payments(d) : txs[i].by = n

Supply == SumFunctionOnSet(CoinRunes, Coin) - SumFunctionOnSet(Amount, 1 .. burned)

(* The difference the monitor's sanity check shows: runes in the listed     *)
(* outputs of the wallet minus the supply of the token.                     *)
sanity_check == Runes(ListedOutputs) - Supply

(* The sanity check never shows a deficit, except while the change of a     *)
(* payment is unconfirmed or after a second leader's payment for a burn:    *)
(* the wallet holds the runes that back all tokens.                         *)
TokensAreBacked ==
    (\A i, j \in DOMAIN txs : txs[i].mined /\ (txs[i].dep = txs[j].dep => i = j))
        => sanity_check >= 0

(* Variables are typed, and the wallet holds what the tokens stand for. *)
WalletInvariant == TypeOK /\ TokensAreBacked

(* No token is burnt while the bridge is frozen and its leader pays no one. *)
NoTransferWhileFrozen == [][burned' # burned => ~frozen]_vars

(* The abstract specification of the direction.  Leaders that take turns,   *)
(* or lead at the same time, can pay for one burn more than once, but not   *)
(* without limit: a node that has paid, or is about to, signs no one else's *)
(* payment, so that a burn is paid at most once for every signature the     *)
(* wallet does without, and once.                                           *)
Payout == INSTANCE FederatedPayout
             WITH Member <- Node, burnt <- 1 .. burned,
                  payments <- {[id |-> i, burn |-> txs[i].dep, by |-> txs[i].by] :
                                  i \in DOMAIN txs}

ImplementsFederatedPayout == Payout!Spec

(* Unless the broadcast raised, the leader stopped around it or another     *)
(* node leads, every burn is paid while the bridge is not frozen: refusing  *)
(* peers and an output that has to be confirmed first delay a payment but   *)
(* never end it.                                                            *)
BurnsArePaid ==
    \A d \in Burn :
        burned >= d ~>
            \/ Payments(d) # {}
            \/ status[FirstLeader][d] = "SENDING_TO_BTC_FAILED"
            \/ /\ status[FirstLeader][d] = "SENDING_TO_BTC"
               /\ psbt[FirstLeader] = NoPsbt
               /\ restarts > 0
            \/ leads # {FirstLeader}
            \/ frozen
=============================================================================

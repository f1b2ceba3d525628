------------------------------ MODULE RuneToEvm ------------------------------
(***************************************************************************)
(* The Rune -> EVM direction of the rune bridge: a rune deposit on Bitcoin *)
(* is scanned into a node's database, the leader collects federator        *)
(* signatures for it, sends acceptTransferFromBtc to the RuneBridge        *)
(* contract and follows the transaction until it is mined.                 *)
(*                                                                         *)
(* Every step of the leader between two database commits or remote calls   *)
(* is an action of its own, so that restarts, lost answers, failing calls, *)
(* governance transactions and a second leader (the leader is a setting of *)
(* each node's configuration) can come between any two of them.            *)
(***************************************************************************)
EXTENDS FederatorSignatures

CONSTANTS
    Node,           \* the bridge nodes; a node stands for its EVM account too
    Candidate,      \* the nodes that may be configured as leader
    FirstLeader,    \* the node that is the leader initially
    PeerOrder,      \* the nodes in the order in which config.peers lists them
    Deposit,        \* rune deposits: (txid, vout, rune) triples
    NoDeposit,      \* "the loop handles no deposit"
    Rune,           \* the runes
    RuneOf,         \* the rune of each deposit
    Fee,            \* values of the setting runes_to_evm_fee_percentage_decimal
    FirstFee,       \* its value on every node initially
    LowPostage,     \* deposits whose output holds less than btc_min_postage_sat
    Dust,           \* deposits whose net amount is zero
    Spendable,      \* deposits whose output the wallet may spend (bound)
    FirstRegistered,\* the runes registered in the contract initially
    MaxDepth,       \* bound on the depth of deposits
    MaxPending,     \* transactions per account the mempool accepts (4 in the code)
    RpcMayFail,     \* whether calls to bitcoind, ord and the EVM node may raise
    MaxGovernance,  \* bound on governance transactions
    MaxRestarts     \* bound on node restarts

ASSUME NodeAssumption ==
    /\ IsFiniteSet(Node)
    /\ Candidate \subseteq Node
    /\ FirstLeader \in Candidate
ASSUME OrderAssumption == PeerOrder \in Seq(Node)
ASSUME DepositAssumption ==
    /\ NoDeposit \notin Deposit
    /\ RuneOf \in [Deposit -> Rune]
    /\ FirstRegistered \subseteq Rune
    /\ FirstFee \in Fee
ASSUME DepthAssumption == MaxDepth \in 0 .. 3
ASSUME BoundAssumption ==
    /\ MaxPending \in Nat \ {0}
    /\ MaxGovernance \in Nat
    /\ MaxRestarts \in Nat
    /\ RpcMayFail \in BOOLEAN

VARIABLES
    \* Bitcoin
    depth,       \* how deep a deposit is in the block chain (see Depth)
    spent,       \* deposits whose output the wallet has spent
    \* the database of each candidate
    status,      \* RuneDeposit.status; "NONE" while there is no row
    net,         \* RuneDeposit.net_amount_raw, named by the fee it was computed with
    signatures,  \* RuneDeposit.accept_transfer_signatures (and _signers)
    evmTxHash,   \* RuneDeposit.evm_tx_hash, an index of txs; 0 while NULL
    dropped,     \* deposits that listsinceblock lists no more
    \* the main loop of each candidate
    pc, cur, todo,
    asked,       \* peers network.ask has called
    answers,     \* the answers so far, the node's own first
    numRequired, \* num_required_signers of send_rune_deposit_to_evm
    txHash,      \* tx_hash of send_rune_deposit_to_evm
    \* configuration
    leads,       \* nodes configured as leader
    fee,         \* the fee setting of each node
    \* EVM
    txs,         \* the transactions the EVM node has accepted, oldest first
    processed,   \* processedTransfersFromBtc
    mints,       \* the net amounts minted for each deposit
    federators, frozen, registered, runePaused,
    \* history and bounds
    signed,      \* the messages each node has signed
    governance, restarts

btcVars   == <<depth, spent>>
dbVars    == <<status, net, signatures, evmTxHash, dropped>>
loopVars  == <<pc, cur, todo, asked, answers, numRequired, txHash>>
cfgVars   == <<leads, fee, restarts>>
mintVars  == <<processed, mints>>
adminVars == <<federators, frozen, registered, runePaused, governance>>
vars == <<btcVars, dbVars, loopVars, cfgVars, txs, mintVars, adminVars, signed>>

-----------------------------------------------------------------------------
Status == {"NONE", "DETECTED", "ACCEPTED", "SENDING_TO_EVM", "SENT_TO_EVM",
           "CONFIRMED_IN_EVM", "SENDING_TO_EVM_FAILED", "EVM_TRANSACTION_FAILED"}

(* Confirmations as the scan tells them apart: 0 none, 1 fewer than         *)
(* btc_min_confirmations, 2 at least that many, 3 at least                  *)
(* btc_listsinceblock_buffer: the scan that sees 3 is the last to list it.  *)
Depth == 0 .. 3

(* The message of getAcceptTransferFromBtcMessageHash: the deposit fixes    *)
(* receiver, rune, txid and vout, the fee setting fixes the net amount.     *)
Message == [dep : Deposit, net : Fee]
Signature == [signer : Node, msg : Message]
Transaction == [from : Candidate, msg : Message, sigs : Seq(Signature),
                state : {"pending", "ok", "reverted"}]
Loop == {"idle", "confirm", "handle", "sign", "ask", "send", "sending", "sent", "own"}

Msg(n, d) == [dep |-> d, net |-> net[n][d]]
Peers(n) == Node \ {n}

Init ==
    /\ depth = [d \in Deposit |-> 0]
    /\ spent = {}
    /\ status = [n \in Candidate |-> [d \in Deposit |-> "NONE"]]
    /\ net = [n \in Candidate |-> [d \in Deposit |-> FirstFee]]
    /\ signatures = [n \in Candidate |-> [d \in Deposit |-> <<>>]]
    /\ evmTxHash = [n \in Candidate |-> [d \in Deposit |-> 0]]
    /\ dropped = [n \in Candidate |-> {}]
    /\ pc = [n \in Candidate |-> "idle"]
    /\ cur = [n \in Candidate |-> NoDeposit]
    /\ todo = [n \in Candidate |-> {}]
    /\ asked = [n \in Candidate |-> {}]
    /\ answers = [n \in Candidate |-> <<>>]
    /\ numRequired = [n \in Candidate |-> 0]
    /\ txHash = [n \in Candidate |-> 0]
    /\ leads = {FirstLeader}
    /\ fee = [n \in Node |-> FirstFee]
    /\ txs = <<>>
    /\ processed = {}
    /\ mints = [d \in Deposit |-> <<>>]
    /\ federators = Node
    /\ frozen = FALSE
    /\ registered = FirstRegistered
    /\ runePaused = {}
    /\ signed = {}
    /\ governance = 0
    /\ restarts = 0

-----------------------------------------------------------------------------
(* Bitcoin: deposits get confirmations, and the wallet spends outputs for   *)
(* transfers in the other direction.                                        *)

MineBtc(d) ==
    /\ depth[d] < MaxDepth
    /\ depth' = [depth EXCEPT ![d] = @ + 1]
    /\ UNCHANGED <<spent, dbVars, loopVars, cfgVars, txs, mintVars, adminVars, signed>>

SpendOutput(d) ==
    /\ d \in Spendable \ spent
    /\ depth[d] >= 2
    /\ spent' = spent \cup {d}
    /\ UNCHANGED <<depth, dbVars, loopVars, cfgVars, txs, mintVars, adminVars, signed>>

-----------------------------------------------------------------------------
(* One iteration of a node: scan, confirm what was sent and, on the leader, *)
(* handle every accepted deposit.                                           *)

(* The deposits a scan finds with their runes.  ord answers only for        *)
(* confirmed outputs, and forgets the runes of an output once it is spent.  *)
Listed(n) == {d \in Deposit \ dropped[n] : depth[d] > 0 /\ d \notin spent}

(* Variant: a deposit that is listed again is accepted again. *)
ScannedStatusReopens(n, d) == IF depth[d] >= 2 THEN "ACCEPTED" ELSE "DETECTED"

ScannedStatus(n, d) ==
    IF status[n][d] \in {"NONE", "DETECTED"}
    THEN IF depth[d] >= 2 THEN "ACCEPTED" ELSE "DETECTED"
    ELSE status[n][d]

scan_rune_deposits(n) ==
    /\ pc[n] = "idle"
    /\ status' = [status EXCEPT ![n] =
          [d \in Deposit |-> IF d \in Listed(n) THEN ScannedStatus(n, d) ELSE @[d]]]
    /\ net' = [net EXCEPT ![n] =
          [d \in Deposit |-> IF d \in Listed(n) THEN fee[n] ELSE @[d]]]
    /\ dropped' = [dropped EXCEPT ![n] = @ \cup {d \in Deposit : depth[d] = 3}]
    /\ pc' = [pc EXCEPT ![n] = "confirm"]
    /\ todo' = [todo EXCEPT ![n] = {d \in Deposit : status'[n][d] = "SENT_TO_EVM"}]
    /\ UNCHANGED <<btcVars, signatures, evmTxHash, cur, asked, answers, numRequired,
                   txHash, cfgVars, txs, mintVars, adminVars, signed>>

(* Variant: the status of the receipt is not looked at. *)
ReceiptStatusUnchecked(n, d) ==
    IF status[n][d] # "SENT_TO_EVM" \/ txs[evmTxHash[n][d]].state = "pending"
    THEN status[n][d] ELSE "CONFIRMED_IN_EVM"

(* Variant: the branches of the receipt's status are swapped. *)
ReceiptStatusSwapped(n, d) ==
    IF status[n][d] # "SENT_TO_EVM" THEN status[n][d]
    ELSE CASE txs[evmTxHash[n][d]].state = "ok"       -> "EVM_TRANSACTION_FAILED"
           [] txs[evmTxHash[n][d]].state = "reverted" -> "CONFIRMED_IN_EVM"
           [] OTHER                                   -> "SENT_TO_EVM"

(* The status after looking for the receipt of a sent deposit. *)
ReceiptStatus(n, d) ==
    IF status[n][d] # "SENT_TO_EVM" THEN status[n][d]
    ELSE CASE txs[evmTxHash[n][d]].state = "ok"       -> "CONFIRMED_IN_EVM"
           [] txs[evmTxHash[n][d]].state = "reverted" -> "EVM_TRANSACTION_FAILED"
           [] OTHER                                   -> "SENT_TO_EVM"

confirm_sent_rune_deposits(n, d) ==
    /\ pc[n] = "confirm"
    /\ d \in todo[n]
    /\ status' = [status EXCEPT ![n][d] = ReceiptStatus(n, d)]
    /\ todo' = [todo EXCEPT ![n] = @ \ {d}]
    /\ UNCHANGED <<btcVars, net, signatures, evmTxHash, dropped, pc, cur, asked, answers,
                   numRequired, txHash, cfgVars, txs, mintVars, adminVars, signed>>

(* Followers, and leaders of a frozen bridge, stop here. *)
BeginHandling(n) ==
    /\ pc[n] = "confirm"
    /\ todo[n] = {}
    /\ IF n \in leads /\ ~frozen
       THEN /\ pc' = [pc EXCEPT ![n] = "handle"]
            /\ todo' = [todo EXCEPT ![n] = {d \in Deposit : status[n][d] = "ACCEPTED"}]
       ELSE /\ pc' = [pc EXCEPT ![n] = "idle"]
            /\ UNCHANGED todo
    /\ UNCHANGED <<btcVars, dbVars, cur, asked, answers, numRequired, txHash,
                   cfgVars, txs, mintVars, adminVars, signed>>

EndIteration(n) ==
    /\ pc[n] = "handle"
    /\ todo[n] = {}
    /\ pc' = [pc EXCEPT ![n] = "idle"]
    /\ UNCHANGED <<btcVars, dbVars, cur, todo, asked, answers, numRequired, txHash,
                   cfgVars, txs, mintVars, adminVars, signed>>

(* An exception while confirming ends the iteration. *)
IterationRaises(n) ==
    /\ RpcMayFail
    /\ pc[n] = "confirm"
    /\ pc' = [pc EXCEPT ![n] = "idle"]
    /\ todo' = [todo EXCEPT ![n] = {}]
    /\ UNCHANGED <<btcVars, dbVars, cur, asked, answers, numRequired, txHash,
                   cfgVars, txs, mintVars, adminVars, signed>>

(* The loop goes on to the next deposit: after the current one is done, and *)
(* after an exception, which the loop catches.                              *)
NextDeposit(n) ==
    /\ pc' = [pc EXCEPT ![n] = "handle"]
    /\ cur' = [cur EXCEPT ![n] = NoDeposit]
    /\ asked' = [asked EXCEPT ![n] = {}]
    /\ answers' = [answers EXCEPT ![n] = <<>>]
    /\ numRequired' = [numRequired EXCEPT ![n] = 0]
    /\ txHash' = [txHash EXCEPT ![n] = 0]
    /\ UNCHANGED todo

-----------------------------------------------------------------------------
(* Collecting signatures *)

Transferable(d) == RuneOf[d] \in registered \ runePaused

validate_rune_deposit_for_sending(n, d) ==
    /\ status[n][d] = "ACCEPTED"
    /\ Transferable(d)
    /\ d \notin LowPostage

StartDeposit(n, d) ==
    /\ pc[n] = "handle"
    /\ d \in todo[n]
    /\ validate_rune_deposit_for_sending(n, d)
    /\ pc' = [pc EXCEPT ![n] = "sign"]
    /\ cur' = [cur EXCEPT ![n] = d]
    /\ todo' = [todo EXCEPT ![n] = @ \ {d}]
    /\ UNCHANGED <<btcVars, dbVars, asked, answers, numRequired, txHash,
                   cfgVars, txs, mintVars, adminVars, signed>>

SkipDeposit(n, d) ==
    /\ pc[n] = "handle"
    /\ d \in todo[n]
    /\ ~validate_rune_deposit_for_sending(n, d) \/ RpcMayFail
    /\ todo' = [todo EXCEPT ![n] = @ \ {d}]
    /\ UNCHANGED <<btcVars, dbVars, pc, cur, asked, answers, numRequired, txHash,
                   cfgVars, txs, mintVars, adminVars, signed>>

(* What node p checks before it signs.  It never looks at its own database; *)
(* the balance check of a spent output succeeds only from p's cache of ord  *)
(* answers, so it may go either way.                                        *)
answer_sign_rune_to_evm_transfer_question(p, msg) ==
    /\ Transferable(msg.dep)
    /\ msg.net = fee[p]
    /\ msg.dep \notin Dust

SelfAnswer(n) ==
    /\ pc[n] = "sign"
    /\ status[n][cur[n]] = "ACCEPTED"
    /\ answer_sign_rune_to_evm_transfer_question(n, Msg(n, cur[n]))
    /\ LET s == [signer |-> n, msg |-> Msg(n, cur[n])]
       IN  /\ answers' = [answers EXCEPT ![n] = <<s>>]
           /\ signed' = signed \cup {s}
    /\ pc' = [pc EXCEPT ![n] = "ask"]
    /\ UNCHANGED <<btcVars, dbVars, cur, todo, asked, numRequired, txHash,
                   cfgVars, txs, mintVars, adminVars>>

SelfAnswerRaises(n) ==
    /\ pc[n] = "sign"
    /\ ~(/\ status[n][cur[n]] = "ACCEPTED"
         /\ answer_sign_rune_to_evm_transfer_question(n, Msg(n, cur[n]))
         /\ cur[n] \notin spent)
    /\ NextDeposit(n)
    /\ UNCHANGED <<btcVars, dbVars, cfgVars, txs, mintVars, adminVars, signed>>

(* Only followers register a callback for the question. *)
WillSign(p, msg) ==
    p \notin leads /\ answer_sign_rune_to_evm_transfer_question(p, msg)

(* network.ask calls the peers one after the other, in their order. *)
AskPeer(n, p) ==
    /\ pc[n] = "ask"
    /\ p \in Peers(n) \ asked[n]
    /\ \A i, j \in DOMAIN PeerOrder :
          i < j /\ PeerOrder[j] = p => PeerOrder[i] \notin Peers(n) \ asked[n]
    /\ asked' = [asked EXCEPT ![n] = @ \cup {p}]
    /\ UNCHANGED <<btcVars, dbVars, pc, cur, todo, numRequired, txHash,
                   cfgVars, txs, mintVars, adminVars>>

PeerAnswers(n, p) ==
    /\ AskPeer(n, p)
    /\ WillSign(p, Msg(n, cur[n]))
    /\ LET s == [signer |-> p, msg |-> Msg(n, cur[n])]
       IN  /\ answers' = [answers EXCEPT ![n] = Append(@, s)]
           /\ signed' = signed \cup {s}

(* The peer is down, refuses, answers too late, or its answer is lost. *)
NoAnswerFromPeer(n, p) ==
    /\ AskPeer(n, p)
    /\ \/ UNCHANGED signed
       \/ /\ WillSign(p, Msg(n, cur[n]))
          /\ signed' = signed \cup {[signer |-> p, msg |-> Msg(n, cur[n])]}
    /\ UNCHANGED answers

(* Variant: signers are compared within one round of answers only. *)
NewAnswersOfRound(n, d) ==
    {i \in DOMAIN answers[n] :
        /\ answers[n][i].signer \in federators
        /\ answers[n][i].msg = Msg(n, d)
        /\ \A j \in DOMAIN answers[n] : j < i => answers[n][j].signer # answers[n][i].signer}

(* The positions of the answers that are stored: valid for the current      *)
(* message hash, and by a signer with no signature stored yet.              *)
NewAnswers(n, d) ==
    {i \in DOMAIN answers[n] :
        LET a == answers[n][i]
        IN  /\ a.signer \in federators
            /\ a.msg = Msg(n, d)
            /\ \A j \in DOMAIN signatures[n][d] : signatures[n][d][j].signer # a.signer
            /\ \A j \in DOMAIN answers[n] : j < i => answers[n][j].signer # a.signer}

(* Variant: every round starts a new list. *)
ExtendedSignaturesOfRound(n, d) ==
    LET new == NewAnswersOfRound(n, d)
    IN  {[k \in 1 .. Cardinality(new) |-> answers[n][f[k]]] :
           f \in {g \in [1 .. Cardinality(new) -> new] :
                    \A j, k \in 1 .. Cardinality(new) : j < k => g[j] < g[k]}}

(* The stored list, extended by the new answers in their order. *)
ExtendedSignatures(n, d) ==
    LET new == NewAnswers(n, d)
    IN  {signatures[n][d] \o [k \in 1 .. Cardinality(new) |-> answers[n][f[k]]] :
           f \in {g \in [1 .. Cardinality(new) -> new] :
                    \A j, k \in 1 .. Cardinality(new) : j < k => g[j] < g[k]}}

update_rune_deposit_signatures(n) ==
    LET d == cur[n]
    IN  /\ pc[n] = "ask"
        /\ asked[n] = Peers(n)
        /\ status[n][d] = "ACCEPTED"
        /\ \E s \in ExtendedSignatures(n, d) :
              /\ signatures' = [signatures EXCEPT ![n][d] = s]
              /\ IF Len(s) >= numRequiredFederators(federators)
                 THEN /\ pc' = [pc EXCEPT ![n] = "send"]
                      /\ UNCHANGED <<cur, todo, asked, answers, numRequired, txHash>>
                 ELSE NextDeposit(n)
        /\ UNCHANGED <<btcVars, status, net, evmTxHash, dropped, cfgVars, txs,
                       mintVars, adminVars, signed>>

-----------------------------------------------------------------------------
(* Sending: SENDING_TO_EVM is committed before anything is sent. *)

Sendable(n, d) ==
    /\ ~frozen
    /\ status[n][d] = "ACCEPTED"
    /\ Len(signatures[n][d]) >= numRequiredFederators(federators)

CommitSending(n) ==
    /\ pc[n] = "send"
    /\ Sendable(n, cur[n])
    /\ status' = [status EXCEPT ![n][cur[n]] = "SENDING_TO_EVM"]
    /\ numRequired' = [numRequired EXCEPT ![n] = numRequiredFederators(federators)]
    /\ pc' = [pc EXCEPT ![n] = "sending"]
    /\ UNCHANGED <<btcVars, net, signatures, evmTxHash, dropped, cur, todo, asked, answers,
                   txHash, cfgVars, txs, mintVars, adminVars, signed>>

NotSent(n) ==
    /\ pc[n] = "send"
    /\ ~Sendable(n, cur[n])
    /\ NextDeposit(n)
    /\ UNCHANGED <<btcVars, dbVars, cfgVars, txs, mintVars, adminVars, signed>>

NumPending(n) == Cardinality({i \in DOMAIN txs : txs[i].from = n /\ txs[i].state = "pending"})

Submitted(n) ==
    [from |-> n, msg |-> Msg(n, cur[n]), state |-> "pending",
     sigs |-> [i \in 1 .. numRequired[n] |-> signatures[n][cur[n]][i]]]

Transact(n) ==
    /\ pc[n] = "sending"
    /\ NumPending(n) < MaxPending
    /\ txs' = Append(txs, Submitted(n))
    /\ txHash' = [txHash EXCEPT ![n] = Len(txs) + 1]
    /\ pc' = [pc EXCEPT ![n] = "sent"]
    /\ UNCHANGED <<btcVars, dbVars, cur, todo, asked, answers, numRequired,
                   cfgVars, mintVars, adminVars, signed>>

(* Variant: a call of transact that raises is made again. *)
TransactIsRetried(n) ==
    /\ RpcMayFail
    /\ pc[n] = "sending"
    /\ NumPending(n) < MaxPending
    /\ txs' \in {txs, Append(txs, Submitted(n))}
    /\ UNCHANGED <<btcVars, dbVars, loopVars, cfgVars, mintVars, adminVars, signed>>

(* transact raised.  The EVM node may have accepted the transaction all the *)
(* same.                                                                    *)
TransactRaises(n) ==
    /\ RpcMayFail
    /\ pc[n] = "sending"
    /\ NumPending(n) < MaxPending
    /\ txs' \in {txs, Append(txs, Submitted(n))}
    /\ status' = [status EXCEPT ![n][cur[n]] = "SENDING_TO_EVM_FAILED"]
    /\ NextDeposit(n)
    /\ UNCHANGED <<btcVars, net, signatures, evmTxHash, dropped, cfgVars,
                   mintVars, adminVars, signed>>

TooManyPending(n) ==
    /\ pc[n] = "sending"
    /\ NumPending(n) >= MaxPending
    /\ NextDeposit(n)
    /\ UNCHANGED <<btcVars, dbVars, cfgVars, txs, mintVars, adminVars, signed>>

CommitSent(n) ==
    /\ pc[n] = "sent"
    /\ status' = [status EXCEPT ![n][cur[n]] = "SENT_TO_EVM"]
    /\ evmTxHash' = [evmTxHash EXCEPT ![n][cur[n]] = txHash[n]]
    /\ pc' = [pc EXCEPT ![n] = "own"]
    /\ UNCHANGED <<btcVars, net, signatures, dropped, cur, todo, asked, answers,
                   numRequired, txHash, cfgVars, txs, mintVars, adminVars, signed>>

ConfirmOwn(n) ==
    /\ pc[n] = "own"
    /\ status' = [status EXCEPT ![n][cur[n]] = ReceiptStatus(n, cur[n])]
    /\ NextDeposit(n)
    /\ UNCHANGED <<btcVars, net, signatures, evmTxHash, dropped, cfgVars, txs,
                   mintVars, adminVars, signed>>

(* A call to a remote service raises (the balance check of the leader's     *)
(* account included); nothing is committed, the loop goes on.               *)
HandlingRaises(n) ==
    /\ RpcMayFail
    /\ pc[n] \in {"sign", "ask", "send", "sending", "own"}
    /\ NextDeposit(n)
    /\ UNCHANGED <<btcVars, dbVars, cfgVars, txs, mintVars, adminVars, signed>>

-----------------------------------------------------------------------------
(* The EVM: a transaction of an account is mined after the account's        *)
(* earlier ones.                                                            *)

AcceptsTransfer(tx) ==
    /\ tx.from \in federators
    /\ ~frozen
    /\ Transferable(tx.msg.dep)
    /\ checkFederatorSignatures(federators, tx.msg, tx.sigs)
    /\ tx.msg.dep \notin processed

Minable(i) ==
    /\ txs[i].state = "pending"
    /\ \A j \in DOMAIN txs : j < i /\ txs[j].from = txs[i].from => txs[j].state # "pending"

acceptTransferFromBtc(i) ==
    /\ Minable(i)
    /\ AcceptsTransfer(txs[i])
    /\ txs' = [txs EXCEPT ![i].state = "ok"]
    /\ processed' = processed \cup {txs[i].msg.dep}
    /\ mints' = [mints EXCEPT ![txs[i].msg.dep] = Append(@, txs[i].msg.net)]
    /\ UNCHANGED <<btcVars, dbVars, loopVars, cfgVars, adminVars, signed>>

Revert(i) ==
    /\ Minable(i)
    /\ ~AcceptsTransfer(txs[i])
    /\ txs' = [txs EXCEPT ![i].state = "reverted"]
    /\ UNCHANGED <<btcVars, dbVars, loopVars, cfgVars, mintVars, adminVars, signed>>

-----------------------------------------------------------------------------
(* Governance of the contracts, and operators who restart nodes *)

Governs ==
    /\ governance < MaxGovernance
    /\ governance' = governance + 1
    /\ UNCHANGED <<btcVars, dbVars, loopVars, cfgVars, txs, mintVars, signed>>

addFederator(p) ==
    /\ Governs
    /\ federators' = federators \cup {p}
    /\ UNCHANGED <<frozen, registered, runePaused>>

removeFederator(p) ==
    /\ Governs
    /\ federators' = federators \ {p}
    /\ UNCHANGED <<frozen, registered, runePaused>>

setFrozen(b) ==
    /\ Governs
    /\ frozen = ~b
    /\ frozen' = b
    /\ UNCHANGED <<federators, registered, runePaused>>

registerRune(r) ==
    /\ Governs
    /\ r \notin registered
    /\ registered' = registered \cup {r}
    /\ UNCHANGED <<federators, frozen, runePaused>>

setRunePaused(r, b) ==
    /\ Governs
    /\ runePaused' = IF b THEN runePaused \cup {r} ELSE runePaused \ {r}
    /\ UNCHANGED <<federators, frozen, registered>>

(* Node n stops anywhere and starts again, perhaps with another fee setting *)
(* and as a leader or as a follower.                                        *)
Restart(n, f, leader) ==
    /\ restarts < MaxRestarts
    /\ restarts' = restarts + 1
    /\ leader => n \in Candidate
    /\ fee' = [fee EXCEPT ![n] = f]
    /\ leads' = IF leader THEN leads \cup {n} ELSE leads \ {n}
    /\ pc' = [m \in Candidate |-> IF m = n THEN "idle" ELSE pc[m]]
    /\ cur' = [m \in Candidate |-> IF m = n THEN NoDeposit ELSE cur[m]]
    /\ todo' = [m \in Candidate |-> IF m = n THEN {} ELSE todo[m]]
    /\ asked' = [m \in Candidate |-> IF m = n THEN {} ELSE asked[m]]
    /\ answers' = [m \in Candidate |-> IF m = n THEN <<>> ELSE answers[m]]
    /\ numRequired' = [m \in Candidate |-> IF m = n THEN 0 ELSE numRequired[m]]
    /\ txHash' = [m \in Candidate |-> IF m = n THEN 0 ELSE txHash[m]]
    /\ UNCHANGED <<btcVars, dbVars, txs, mintVars, adminVars, signed>>

-----------------------------------------------------------------------------
Bitcoin == \E d \in Deposit : MineBtc(d) \/ SpendOutput(d)

RunIteration(n) ==
    \/ scan_rune_deposits(n)
    \/ \E d \in Deposit : confirm_sent_rune_deposits(n, d)
    \/ BeginHandling(n)
    \/ EndIteration(n)
    \/ IterationRaises(n)

CollectSignatures(n) ==
    \/ \E d \in Deposit : StartDeposit(n, d) \/ SkipDeposit(n, d)
    \/ SelfAnswer(n)
    \/ SelfAnswerRaises(n)
    \/ \E p \in Node : PeerAnswers(n, p) \/ NoAnswerFromPeer(n, p)
    \/ update_rune_deposit_signatures(n)

Send(n) ==
    \/ CommitSending(n)
    \/ NotSent(n)
    \/ Transact(n)
    \/ TransactRaises(n)
    \/ TooManyPending(n)
    \/ CommitSent(n)
    \/ ConfirmOwn(n)
    \/ HandlingRaises(n)

MineEvm == \E i \in DOMAIN txs : acceptTransferFromBtc(i) \/ Revert(i)

Governance ==
    \/ \E p \in Node : addFederator(p) \/ removeFederator(p)
    \/ \E b \in BOOLEAN : setFrozen(b)
    \/ \E r \in Rune : registerRune(r) \/ \E b \in BOOLEAN : setRunePaused(r, b)

Operators == \E n \in Node, f \in Fee, leader \in BOOLEAN : Restart(n, f, leader)

Next ==
    \/ Bitcoin
    \/ \E n \in Candidate : RunIteration(n) \/ CollectSignatures(n) \/ Send(n)
    \/ MineEvm
    \/ Governance
    \/ Operators

Spec == Init /\ [][Next]_vars

(* The leader's loop keeps running, and so does the EVM.  A peer that is    *)
(* asked again and again answers sooner or later: the loop asks every peer  *)
(* in every iteration, and a peer that never answers in time is a peer that *)
(* is down.  Nothing is assumed of two peers answering in the same          *)
(* iteration, nor of what a peer is asked about.                            *)
Fairness ==
    /\ \A n \in Candidate : WF_vars(RunIteration(n) \/ CollectSignatures(n) \/ Send(n))
    /\ \A n \in Candidate : \A p \in Node \ {n} : SF_vars(PeerAnswers(n, p))
    /\ WF_vars(MineEvm)

FairSpec == Spec /\ Fairness

-----------------------------------------------------------------------------
(* Properties *)

(* Every variable holds a value of its kind. *)
TypeOK ==
    /\ depth \in [Deposit -> Depth]
    /\ spent \subseteq Deposit
    /\ status \in [Candidate -> [Deposit -> Status]]
    /\ net \in [Candidate -> [Deposit -> Fee]]
    /\ signatures \in [Candidate -> [Deposit -> Seq(Signature)]]
    /\ evmTxHash \in [Candidate -> [Deposit -> Nat]]
    /\ dropped \in [Candidate -> SUBSET Deposit]
    /\ pc \in [Candidate -> Loop]
    /\ cur \in [Candidate -> Deposit \cup {NoDeposit}]
    /\ todo \in [Candidate -> SUBSET Deposit]
    /\ asked \in [Candidate -> SUBSET Node]
    /\ answers \in [Candidate -> Seq(Signature)]
    /\ numRequired \in [Candidate -> Nat]
    /\ txHash \in [Candidate -> Nat]
    /\ leads \subseteq Candidate
    /\ fee \in [Node -> Fee]
    /\ txs \in Seq(Transaction)
    /\ processed \subseteq Deposit
    /\ mints \in [Deposit -> Seq(Fee)]
    /\ federators \subseteq Node
    /\ frozen \in BOOLEAN
    /\ registered \subseteq Rune
    /\ runePaused \subseteq Rune
    /\ signed \subseteq Signature
    /\ governance \in Nat
    /\ restarts \in Nat

(* A node sends at most one transaction for a deposit, whatever restarts    *)
(* and failing calls come in between: SENDING_TO_EVM is committed before    *)
(* the transaction is sent and nothing leads back to ACCEPTED.              *)
SentOnce ==
    \A i, j \in DOMAIN txs :
        txs[i].from = txs[j].from /\ txs[i].msg.dep = txs[j].msg.dep => i = j

(* A deposit is never minted twice, even when two nodes are configured as   *)
(* leader and both send a transaction for it.                               *)
MintedOnce == \A d \in Deposit : Len(mints[d]) <= 1

(* What the database calls confirmed has been minted. *)
ConfirmedIsMinted ==
    \A n \in Candidate, d \in Deposit :
        status[n][d] = "CONFIRMED_IN_EVM" => mints[d] # <<>>

(* A deposit whose transaction failed may be handled by hand: it has been   *)
(* minted only if a second leader's transaction minted it.                  *)
FailedIsNotMinted ==
    \A n \in Candidate, d \in Deposit :
        status[n][d] = "EVM_TRANSACTION_FAILED" /\ mints[d] # <<>> =>
            \E i \in DOMAIN txs : /\ txs[i].from # n
                                  /\ txs[i].msg.dep = d
                                  /\ txs[i].state = "ok"

(* The contract refuses a transaction only because governance acted, because *)
(* a signature in it is for an amount computed with an earlier fee setting,  *)
(* or because a second leader's transaction was first.  Otherwise what       *)
(* update_rune_deposit_signatures collects always satisfies                  *)
(* checkFederatorSignatures.                                                 *)
RevertsHaveACause ==
    \A i \in DOMAIN txs :
        txs[i].state = "reverted" =>
            \/ governance > 0
            \/ \E k \in DOMAIN txs[i].sigs : txs[i].sigs[k].msg # txs[i].msg
            \/ \E j \in DOMAIN txs : /\ txs[j].from # txs[i].from
                                     /\ txs[j].msg.dep = txs[i].msg.dep
                                     /\ txs[j].state = "ok"

(* No step takes a deposit's status anywhere but along the life cycle       *)
(* DETECTED, ACCEPTED, SENDING, SENT, CONFIRMED and its failures: a rescan  *)
(* of a deposit that is still listed, a late receipt or a restart never     *)
(* reopens one.                                                             *)
LifeCycle ==
    {<<"NONE", "DETECTED">>, <<"NONE", "ACCEPTED">>, <<"DETECTED", "ACCEPTED">>,
     <<"ACCEPTED", "SENDING_TO_EVM">>, <<"SENDING_TO_EVM", "SENT_TO_EVM">>,
     <<"SENDING_TO_EVM", "SENDING_TO_EVM_FAILED">>,
     <<"SENT_TO_EVM", "CONFIRMED_IN_EVM">>, <<"SENT_TO_EVM", "EVM_TRANSACTION_FAILED">>}

StatusFollowsLifeCycle ==
    [][\A n \in Candidate, d \in Deposit :
          status'[n][d] # status[n][d] => <<status[n][d], status'[n][d]>> \in LifeCycle]_vars

(* The abstract specification of the direction: an amount is minted for a   *)
(* deposit once, and only with the votes of a strict majority of those who  *)
(* are federators at that moment, each for exactly that deposit and amount. *)
Mint == INSTANCE FederatedMint
            WITH Member <- Node, Transfer <- Deposit, Amount <- Fee,
                 members <- federators, votes <- signed, minted <- mints

ImplementsFederatedMint == Mint!Spec

(* The leader has begun to send d and no longer works on it. *)
Interrupted(n, d) == status[n][d] = "SENDING_TO_EVM" /\ cur[n] # d

(* While governance, operators and RPC failures leave the bridge alone,     *)
(* every deposit with enough confirmations is eventually confirmed on the   *)
(* EVM, although peers may leave any number of questions unanswered and may *)
(* never answer in the same iteration, so that their signatures have to add *)
(* up over iterations, unless its turn came while the mempool was full, or  *)
(* the wallet spent its output.                                             *)
DepositsAreConfirmed ==
    \A d \in Deposit \ (LowPostage \cup Dust) :
        depth[d] >= 2 ~> \/ status[FirstLeader][d] = "CONFIRMED_IN_EVM"
                        \/ Interrupted(FirstLeader, d)
                        \/ d \in spent

(* "Raising an exception here is fine, transactions will just be resumed":  *)
(* a deposit the leader has begun to send is sent sooner or later, also     *)
(* when the mempool limit was reached first.                                *)
TransactionsAreResumed ==
    \A n \in Candidate, d \in Deposit :
        status[n][d] = "SENDING_TO_EVM" ~>
            \E i \in DOMAIN txs : txs[i].from = n /\ txs[i].msg.dep = d
=============================================================================

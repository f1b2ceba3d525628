------------------------------ MODULE TapToRsk ------------------------------
(***************************************************************************)
(* The Tap -> RSK direction of the Tap bridge: a node records the assets   *)
(* its tapd has received on the deposit addresses it gave out; the leader  *)
(* groups its own deposits into batches, collects a signature per transfer *)
(* from its peers, sends one transaction per transfer to the Bridge        *)
(* contract and finalises the batch when the last one has succeeded.       *)
(*                                                                         *)
(* Peers keep a row for every batch they sign, in the table they would     *)
(* take their own batches from as a leader, with no transfers linked to it.*)
(***************************************************************************)
EXTENDS Integers, FiniteSets, FiniteSetsExt, Sequences, SequencesExt

CONSTANTS
    Node,           \* the bridge nodes, each a federator
    FirstLeader,    \* the node that is the leader initially
    Required,       \* numRequiredSigners of the contract, initially
    NumDeposits,    \* bound: the deposits are 1, 2, ...
    Home,           \* the node that gave out the address of each deposit
    BatchLimit,     \* batch_limit
    NoSignature,    \* "the node is not a key of signatures"
    MaxIncidents    \* bound on lost answers, calls of transact that raise, restarts
                    \* and changes of the contract by its owner, together

Deposit == 1 .. NumDeposits

ASSUME FederationAssumption ==
    /\ IsFiniteSet(Node)
    /\ FirstLeader \in Node
    /\ Required \in 1 .. Cardinality(Node)
ASSUME DepositAssumption ==
    /\ NumDeposits \in Nat
    /\ Home \in [Deposit -> Node]
    /\ BatchLimit \in Nat \ {0}
    /\ NoSignature \notin Deposit \cup Seq(Deposit)
ASSUME BoundAssumption ==
    MaxIncidents \in Nat

VARIABLES
    received,       \* deposits that tapd reports as completed
    \* the database of each node
    rows,           \* TapToRskTransfer, in the order of insertion
    batches,        \* TapToRskTransferBatch, in the order of id
    \* the iteration of each node
    pc,
    current,        \* batch_id
    known,          \* the federators and the threshold it has read
    asked,          \* peers network.ask has called
    collected,      \* signatures_by_signer
    sent,           \* tx_hashes
    \* RSK
    txs,            \* transactions sent to the contract, oldest first
    processed,      \* processedByBtcTxIdAndVout
    listed,         \* the asset is bridgeable
    federators, required,
    \* configuration and bounds
    leads, faults, governance

dbVars    == <<rows, batches>>
loopVars  == <<pc, current, known, asked, collected, sent>>
rskVars   == <<txs, processed>>
ownerVars == <<listed, federators, required, governance>>
vars == <<received, dbVars, loopVars, rskVars, ownerVars, leads, faults>>

-----------------------------------------------------------------------------
Status == {"CREATED", "SIGNATURES_COLLECTED", "SENDING_TO_RSK", "SENT_TO_RSK", "FINALIZED"}
Loop == {"idle", "batch", "ask", "send", "transact", "receipt"}

Signatures == [Node -> Seq(Deposit) \cup {NoSignature}]
NoSignatures == [n \in Node |-> NoSignature]

(* The hash of a batch stands for the transfers it was computed from. *)
Batch == [hash : Seq(Deposit), transfers : Seq(Deposit), status : Status,
          signatures : Signatures, tx : Nat]
Transaction == [by : Node, dep : Deposit,
                signatures : [Node -> Deposit \cup {NoSignature}],
                state : {"pending", "ok", "failed"}]
Known == [federators : SUBSET Node, threshold : Int]

Signers(s) == {n \in Node : s[n] # NoSignature}
Peers(n) == Node \ {n}

Init ==
    /\ received = {}
    /\ rows = [n \in Node |-> <<>>]
    /\ batches = [n \in Node |-> <<>>]
    /\ pc = [n \in Node |-> "idle"]
    /\ current = [n \in Node |-> 0]
    /\ known = [n \in Node |-> [federators |-> {}, threshold |-> 0]]
    /\ asked = [n \in Node |-> {}]
    /\ collected = [n \in Node |-> NoSignatures]
    /\ sent = [n \in Node |-> <<>>]
    /\ txs = <<>>
    /\ processed = {}
    /\ listed = TRUE
    /\ federators = Node
    /\ required = Required
    /\ leads = {FirstLeader}
    /\ faults = 0
    /\ governance = 0

-----------------------------------------------------------------------------
(* An iteration: every node scans, the leader handles its current batch. *)

Completed(d) ==
    /\ d \notin received
    /\ received' = received \cup {d}
    /\ UNCHANGED <<dbVars, loopVars, rskVars, ownerVars, leads, faults>>

(* What tapd has received on the addresses the node gave out. *)
list_receives(n) == {d \in received : Home[d] = n}

(* scan_new_deposits: those that have no row yet, in the order of their     *)
(* addresses, which is any.                                                 *)
NewDeposits(n) == SetToSeqs(list_receives(n) \ Range(rows[n]))

RunIteration(n) ==
    /\ pc[n] = "idle"
    /\ \E new \in NewDeposits(n) : rows' = [rows EXCEPT ![n] = @ \o new]
    /\ pc' = [pc EXCEPT ![n] = IF n \in leads THEN "batch" ELSE "idle"]
    /\ UNCHANGED <<received, batches, current, known, asked, collected, sent,
                   rskVars, ownerVars, leads, faults>>

Unfinished(n) == {i \in DOMAIN batches[n] : batches[n][i].status # "FINALIZED"}

Unbatched(n) ==
    LET linked == UNION {Range(batches[n][i].transfers) : i \in DOMAIN batches[n]}
        left   == {k \in DOMAIN rows[n] : rows[n][k] \notin linked}
    IN  [i \in 1 .. Cardinality(left) |->
            rows[n][CHOOSE k \in left : Cardinality({j \in left : j <= k}) = i]]

OldestUnfinished(n) == batches[n][Min(Unfinished(n))]

CurrentBatch(n) == batches[n][current[n]]
SetCurrent(n, b) == batches' = [batches EXCEPT ![n][current[n]] = b]

NewBatch(transfers) ==
    [hash |-> transfers, transfers |-> transfers, status |-> "CREATED",
     signatures |-> NoSignatures, tx |-> 0]

CreateBatch(n) ==
    LET first == SubSeq(Unbatched(n), 1, Min({BatchLimit, Len(Unbatched(n))}))
    IN  batches' = [batches EXCEPT ![n] = Append(@, NewBatch(first))]

EndIteration(n) ==
    /\ pc' = [pc EXCEPT ![n] = "idle"]
    /\ current' = [current EXCEPT ![n] = 0]
    /\ asked' = [asked EXCEPT ![n] = {}]
    /\ collected' = [collected EXCEPT ![n] = NoSignatures]
    /\ sent' = [sent EXCEPT ![n] = <<>>]
    /\ known' = [known EXCEPT ![n] = [federators |-> {}, threshold |-> 0]]

NoCurrentBatch(n) ==
    /\ pc[n] = "batch"
    /\ Unfinished(n) = {}
    /\ Unbatched(n) = <<>>
    /\ EndIteration(n)
    /\ UNCHANGED <<received, dbVars, rskVars, ownerVars, leads, faults>>

(* The current batch is read, or made and committed; a CREATED one is       *)
(* about to be signed by the peers.                                         *)
BeginCollecting(n) ==
    /\ pc[n] = "batch"
    /\ \/ /\ Unfinished(n) # {}
          /\ OldestUnfinished(n).status = "CREATED"
          /\ collected' = [collected EXCEPT ![n] = OldestUnfinished(n).signatures]
          /\ current' = [current EXCEPT ![n] = Min(Unfinished(n))]
          /\ UNCHANGED batches
       \/ /\ Unfinished(n) = {}
          /\ Unbatched(n) # <<>>
          /\ CreateBatch(n)
          /\ current' = [current EXCEPT ![n] = Len(batches[n]) + 1]
          /\ UNCHANGED collected
    /\ known' = [known EXCEPT ![n] = [federators |-> federators, threshold |-> required - 1]]
    /\ pc' = [pc EXCEPT ![n] = "ask"]
    /\ UNCHANGED <<received, rows, asked, sent, rskVars, ownerVars, leads, faults>>

(* Variant: a batch that was left in SENDING_TO_RSK is signed again. *)
TakeUpAgain(n) ==
    /\ pc[n] = "batch"
    /\ Unfinished(n) # {}
    /\ OldestUnfinished(n).status \in {"SENDING_TO_RSK", "SIGNATURES_COLLECTED"}
    /\ current' = [current EXCEPT ![n] = Min(Unfinished(n))]
    /\ batches' = [batches EXCEPT ![n][Min(Unfinished(n))].status = "SIGNATURES_COLLECTED"]
    /\ pc' = [pc EXCEPT ![n] = "send"]
    /\ UNCHANGED <<known, asked, collected, sent>>
    /\ UNCHANGED <<received, rows, rskVars, ownerVars, leads, faults>>

(* A batch that an earlier iteration left signed or sent is taken up there; *)
(* one it left in SENDING_TO_RSK raises.                                    *)
TakeUp(n) ==
    /\ pc[n] = "batch"
    /\ Unfinished(n) # {}
    /\ CASE OldestUnfinished(n).status = "SIGNATURES_COLLECTED" ->
                /\ pc' = [pc EXCEPT ![n] = "send"]
                /\ current' = [current EXCEPT ![n] = Min(Unfinished(n))]
                /\ UNCHANGED <<known, asked, collected, sent>>
         [] OldestUnfinished(n).status = "SENT_TO_RSK" ->
                /\ pc' = [pc EXCEPT ![n] = "receipt"]
                /\ current' = [current EXCEPT ![n] = Min(Unfinished(n))]
                /\ UNCHANGED <<known, asked, collected, sent>>
         [] OldestUnfinished(n).status = "SENDING_TO_RSK" -> EndIteration(n)
         [] OTHER -> FALSE
    /\ UNCHANGED <<received, dbVars, rskVars, ownerVars, leads, faults>>

-----------------------------------------------------------------------------
(* _answer_sign_transfer_batch, on peer p, for the batch b of the leader *)

Existing(p, b) == {i \in DOMAIN batches[p] : batches[p][i].hash = b.hash}

InMessage(p, b) == p \notin leads /\ b.signatures[p] # NoSignature
Repeats(p, b) ==
    p \notin leads /\ b.signatures[p] = NoSignature /\ Existing(p, b) # {}
SignsNew(p, b) ==
    /\ p \notin leads
    /\ b.signatures[p] = NoSignature
    /\ Existing(p, b) = {}
    /\ Range(b.transfers) \cap processed = {}

(* Variant: a peer that has signed a batch does not answer again. *)
AnswersOnlyOnce(p, b) ==
    IF InMessage(p, b) THEN b.signatures[p]
    ELSE IF SignsNew(p, b) THEN b.transfers
    ELSE NoSignature

(* NoSignature if the peer raises: it is a leader itself, the existing      *)
(* batch is its own and unsigned, or a transfer has been processed.         *)
AnswerOf(p, b) ==
    IF InMessage(p, b) THEN b.signatures[p]
    ELSE IF Repeats(p, b) THEN batches[p][Min(Existing(p, b))].signatures[p]
    ELSE IF SignsNew(p, b) THEN b.transfers
    ELSE NoSignature

StoredBatch(p, b) ==
    [hash |-> b.hash, transfers |-> <<>>, status |-> "CREATED",
     signatures |-> [b.signatures EXCEPT ![p] = b.transfers], tx |-> 0]

BatchesAfterAnswer(p, b) ==
    IF SignsNew(p, b) THEN [batches EXCEPT ![p] = Append(@, StoredBatch(p, b))] ELSE batches

Fault == faults + governance < MaxIncidents /\ faults' = faults + 1

AskPeer(n, p) ==
    /\ pc[n] = "ask"
    /\ p \in Peers(n) \ asked[n]
    /\ asked' = [asked EXCEPT ![n] = @ \cup {p}]
    /\ UNCHANGED <<received, rows, pc, current, known, sent, rskVars, ownerVars, leads>>

(* Variant: the number of signatures is not looked at. *)
ValidUncounted(n, p, answer) ==
    /\ p \in known[n].federators
    /\ \A i \in DOMAIN answer : i <= Len(CurrentBatch(n).transfers)
                                  => answer[i] = CurrentBatch(n).transfers[i]

Valid(n, p, answer) ==
    p \in known[n].federators /\ answer = CurrentBatch(n).transfers

PeerAnswers(n, p) ==
    LET answer == AnswerOf(p, CurrentBatch(n))
    IN  /\ AskPeer(n, p)
        /\ batches' = BatchesAfterAnswer(p, CurrentBatch(n))
        /\ collected' = IF answer # NoSignature /\ Valid(n, p, answer)
                        THEN [collected EXCEPT ![n][p] = answer] ELSE collected
        /\ UNCHANGED faults

(* The peer is down, or it answers and the answer does not arrive. *)
AnswerIsLost(n, p) ==
    /\ AskPeer(n, p)
    /\ Fault
    /\ batches' \in {batches, BatchesAfterAnswer(p, CurrentBatch(n))}
    /\ UNCHANGED collected

(* Variant: the leader's own signature is subtracted twice. *)
EnoughSignaturesButOne(n) ==
    Cardinality(Signers(collected[n])) >= known[n].threshold - 1

EnoughSignatures(n) == Cardinality(Signers(collected[n])) >= known[n].threshold

StoreSignatures(n) ==
    /\ pc[n] = "ask"
    /\ asked[n] = Peers(n)
    /\ \/ /\ EnoughSignatures(n)
          /\ SetCurrent(n, [CurrentBatch(n) EXCEPT !.signatures = collected[n],
                                                   !.status = "SIGNATURES_COLLECTED"])
          /\ pc' = [pc EXCEPT ![n] = "send"]
          /\ UNCHANGED <<current, known, asked, collected, sent>>
       \/ /\ ~EnoughSignatures(n)
          /\ SetCurrent(n, [CurrentBatch(n) EXCEPT !.signatures = collected[n]])
          /\ EndIteration(n)
    /\ UNCHANGED <<received, rows, rskVars, ownerVars, leads, faults>>

-----------------------------------------------------------------------------
(* Sending: one transaction per transfer, after SENDING_TO_RSK is committed *)

(* The shortest of the zipped lists: none at all if nobody has signed. *)
NumCalls(b) ==
    IF Signers(b.signatures) = {} THEN 0
    ELSE Min({Len(b.transfers)} \cup {Len(b.signatures[s]) : s \in Signers(b.signatures)})

BeginSending(n) ==
    /\ pc[n] = "send"
    /\ SetCurrent(n, [CurrentBatch(n) EXCEPT !.status = "SENDING_TO_RSK"])
    /\ pc' = [pc EXCEPT ![n] = "transact"]
    /\ UNCHANGED <<received, rows, current, known, asked, collected, sent,
                   rskVars, ownerVars, leads, faults>>

Call(n, b, i) ==
    [by |-> n, dep |-> b.transfers[i],
     signatures |-> [s \in Node |-> IF b.signatures[s] = NoSignature
                                    THEN NoSignature ELSE b.signatures[s][i]],
     state |-> "pending"]

NextCall(n) == Append(txs, Call(n, CurrentBatch(n), Len(sent[n]) + 1))
MoreCalls(n) == Len(sent[n]) < NumCalls(CurrentBatch(n))

Transact(n) ==
    /\ pc[n] = "transact"
    /\ MoreCalls(n)
    /\ txs' = NextCall(n)
    /\ sent' = [sent EXCEPT ![n] = Append(@, Len(txs) + 1)]
    /\ UNCHANGED <<received, dbVars, pc, current, known, asked, collected,
                   processed, ownerVars, leads, faults>>

(* Variant: a call that fails is made again. *)
TransactIsRetried(n) ==
    /\ pc[n] = "transact"
    /\ MoreCalls(n)
    /\ Fault
    /\ txs' \in {txs, NextCall(n)}
    /\ UNCHANGED <<received, dbVars, loopVars, processed, ownerVars, leads>>

(* The call fails; the transaction may have been sent all the same. *)
TransactRaises(n) ==
    /\ pc[n] = "transact"
    /\ MoreCalls(n)
    /\ Fault
    /\ txs' \in {txs, NextCall(n)}
    /\ EndIteration(n)
    /\ UNCHANGED <<received, dbVars, processed, ownerVars, leads>>

MarkSent(n) ==
    /\ pc[n] = "transact"
    /\ ~MoreCalls(n)
    /\ sent[n] # <<>>
    /\ SetCurrent(n, [CurrentBatch(n) EXCEPT !.status = "SENT_TO_RSK", !.tx = Last(sent[n])])
    /\ pc' = [pc EXCEPT ![n] = "receipt"]
    /\ UNCHANGED <<received, rows, current, known, asked, collected, sent,
                   rskVars, ownerVars, leads, faults>>

(* tx_hashes[-1] of an empty list raises: the batch stays as it is. *)
NothingSent(n) ==
    /\ pc[n] = "transact"
    /\ ~MoreCalls(n)
    /\ sent[n] = <<>>
    /\ EndIteration(n)
    /\ UNCHANGED <<received, dbVars, rskVars, ownerVars, leads, faults>>

(* Variant: the status in the receipt is not looked at. *)
ReceiptOkAnyStatus(n) ==
    /\ pc[n] = "receipt"
    /\ txs[CurrentBatch(n).tx].state # "pending"
    /\ SetCurrent(n, [CurrentBatch(n) EXCEPT !.status = "FINALIZED"])
    /\ EndIteration(n)
    /\ UNCHANGED <<received, rows, rskVars, ownerVars, leads, faults>>

ReceiptOk(n) ==
    /\ pc[n] = "receipt"
    /\ txs[CurrentBatch(n).tx].state = "ok"
    /\ SetCurrent(n, [CurrentBatch(n) EXCEPT !.status = "FINALIZED"])
    /\ EndIteration(n)
    /\ UNCHANGED <<received, rows, rskVars, ownerVars, leads, faults>>

(* The transaction failed, or waiting for it times out. *)
ReceiptRaises(n) ==
    /\ pc[n] = "receipt"
    /\ txs[CurrentBatch(n).tx].state # "ok"
    /\ EndIteration(n)
    /\ UNCHANGED <<received, dbVars, rskVars, ownerVars, leads, faults>>

-----------------------------------------------------------------------------
(* The Bridge contract *)

(* A signature for something else recovers to a stranger. *)
SignaturesAreValid(tx) ==
    /\ \A s \in Signers(tx.signatures) : tx.signatures[s] = tx.dep /\ s \in federators
    /\ Cardinality(Signers(tx.signatures) \cup {tx.by}) >= required

acceptTransferFromTap(tx) ==
    /\ tx.by \in federators
    /\ tx.dep \notin processed
    /\ listed
    /\ SignaturesAreValid(tx)

(* Transactions of one account are mined in the order they were sent in. *)
Mine(i) ==
    /\ txs[i].state = "pending"
    /\ \A j \in 1 .. i - 1 : txs[j].by = txs[i].by => txs[j].state # "pending"
    /\ \/ /\ acceptTransferFromTap(txs[i])
          /\ processed' = processed \cup {txs[i].dep}
          /\ txs' = [txs EXCEPT ![i].state = "ok"]
       \/ /\ ~acceptTransferFromTap(txs[i])
          /\ txs' = [txs EXCEPT ![i].state = "failed"]
          /\ UNCHANGED processed
    /\ UNCHANGED <<received, dbVars, loopVars, ownerVars, leads, faults>>

OwnerChanges ==
    /\ faults + governance < MaxIncidents
    /\ governance' = governance + 1
    /\ UNCHANGED <<received, dbVars, loopVars, rskVars, leads, faults>>

addBridgeableAsset ==
    OwnerChanges /\ ~listed /\ listed' = TRUE /\ UNCHANGED <<federators, required>>
removeBridgeableAsset ==
    OwnerChanges /\ listed /\ listed' = FALSE /\ UNCHANGED <<federators, required>>
addFederator(n) ==
    /\ OwnerChanges
    /\ n \notin federators
    /\ federators' = federators \cup {n}
    /\ UNCHANGED <<listed, required>>
removeFederator(n) ==
    /\ OwnerChanges
    /\ n \in federators
    /\ federators' = federators \ {n}
    /\ UNCHANGED <<listed, required>>
setNumRequiredSigners(k) ==
    /\ OwnerChanges
    /\ k <= Cardinality(federators)
    /\ required' = k
    /\ UNCHANGED <<listed, federators>>

Govern ==
    \/ addBridgeableAsset
    \/ removeBridgeableAsset
    \/ \E n \in Node : addFederator(n) \/ removeFederator(n)
    \/ \E k \in 1 .. Cardinality(Node) : setNumRequiredSigners(k)

(* Node n stops anywhere and starts again, as leader or as follower. *)
Restart(n, leader) ==
    /\ Fault
    /\ leads' = IF leader THEN leads \cup {n} ELSE leads \ {n}
    /\ EndIteration(n)
    /\ UNCHANGED <<received, dbVars, rskVars, ownerVars>>

-----------------------------------------------------------------------------
process_current_transfer_batch(n) ==
    \/ NoCurrentBatch(n)
    \/ BeginCollecting(n)
    \/ TakeUp(n)
    \/ \E p \in Node : PeerAnswers(n, p) \/ AnswerIsLost(n, p)
    \/ StoreSignatures(n)
    \/ BeginSending(n)
    \/ Transact(n)
    \/ TransactRaises(n)
    \/ MarkSent(n)
    \/ NothingSent(n)
    \/ ReceiptOk(n)
    \/ ReceiptRaises(n)

Next ==
    \/ \E d \in Deposit : Completed(d)
    \/ \E n \in Node : RunIteration(n) \/ process_current_transfer_batch(n)
    \/ \E i \in DOMAIN txs : Mine(i)
    \/ Govern
    \/ \E n \in Node, leader \in BOOLEAN : Restart(n, leader)

Spec == Init /\ [][Next]_vars

(* The main loop of the first leader keeps running, and transactions are    *)
(* mined; nothing is assumed of the other nodes' main loops.                *)
Fairness ==
    /\ WF_vars(\/ RunIteration(FirstLeader)
               \/ process_current_transfer_batch(FirstLeader))
    /\ WF_vars(\E i \in DOMAIN txs : Mine(i))

FairSpec == Spec /\ Fairness

-----------------------------------------------------------------------------
(* Properties *)

(* Every variable holds a value of its kind. *)
TypeOK ==
    /\ received \subseteq Deposit
    /\ rows \in [Node -> Seq(Deposit)]
    /\ batches \in [Node -> Seq(Batch)]
    /\ pc \in [Node -> Loop]
    /\ current \in [Node -> Nat]
    /\ known \in [Node -> Known]
    /\ asked \in [Node -> SUBSET Node]
    /\ collected \in [Node -> Signatures]
    /\ sent \in [Node -> Seq(Nat)]
    /\ txs \in Seq(Transaction)
    /\ processed \subseteq Deposit
    /\ listed \in BOOLEAN
    /\ federators \subseteq Node
    /\ required \in Nat
    /\ leads \subseteq Node
    /\ {faults, governance} \subseteq Nat

(* A transfer is sent to the contract at most once, whatever restarts,      *)
(* changes of the leader and failing calls come in between: SENDING_TO_RSK  *)
(* is committed before the first transaction and is never left again        *)
(* without the hash of the last one.                                        *)
SentOnce == \A i, j \in DOMAIN txs : txs[i].dep = txs[j].dep => i = j

(* A node makes a new batch only when its earlier ones are finalised, so    *)
(* transfers are sent in the order of the rows.                             *)
OneBatchAtATime ==
    \A n \in Node : \A i, j \in DOMAIN batches[n] :
        i < j /\ batches[n][i].transfers # <<>> /\ batches[n][j].transfers # <<>>
            => batches[n][i].status = "FINALIZED"

(* Unless the owner changes it, the contract accepts what is sent to it:    *)
(* the leader counts its own signature just as the contract does.           *)
SentIsAccepted ==
    governance = 0 => \A i \in DOMAIN txs : txs[i].state # "failed"

(* Whatever the owner does, every transfer of a finalised batch has had its *)
(* transaction mined, and the contract has accepted the last one.           *)
FinalizedIsSettled ==
    \A n \in Node : \A i \in DOMAIN batches[n] :
        batches[n][i].status = "FINALIZED" =>
            /\ \A d \in Range(batches[n][i].transfers) :
                   \E k \in DOMAIN txs : txs[k].dep = d /\ txs[k].state # "pending"
            /\ Last(batches[n][i].transfers) \in processed

(* A batch that counts as signed has the signatures to send every transfer  *)
(* of it, unless no peer at all had to sign it, the owner having set the    *)
(* threshold to one: the calls are zipped with the signatures, so that then *)
(* there are none.                                                          *)
SignedInFull ==
    \A n \in Node : \A i \in DOMAIN batches[n] :
        LET b == batches[n][i]
        IN  b.status \in {"SIGNATURES_COLLECTED", "SENDING_TO_RSK"} /\ Signers(b.signatures) # {}
                => NumCalls(b) = Len(b.transfers)

(* Variables are typed, batches come one at a time, and a signed one can be *)
(* sent in full.                                                            *)
BatchInvariant == TypeOK /\ OneBatchAtATime /\ SignedInFull

(* get_transfers_by_address: the status of the batch, or "seen". *)
ShownStatus(n, d) ==
    LET linked == {i \in DOMAIN batches[n] : d \in Range(batches[n][i].transfers)}
    IN  IF linked = {} THEN "seen" ELSE batches[n][Min(linked)].status

StatusOrder == <<"seen", "CREATED", "SIGNATURES_COLLECTED", "SENDING_TO_RSK", "SENT_TO_RSK", "FINALIZED">>

(* What users are shown of a deposit never goes back and skips no step,     *)
(* whoever is the leader and wherever it stops.                             *)
ShownStatusAdvances ==
    [][\A n \in Node : \A d \in Range(rows[n]) :
          \E i \in DOMAIN StatusOrder :
              /\ ShownStatus(n, d) = StatusOrder[i]
              /\ ShownStatus(n, d)' \in Range(SubSeq(StatusOrder, i, Min({i + 1, 6})))]_vars

(* A batch is SENDING_TO_RSK and nobody is sending it. *)
Interrupted(n) ==
    \E i \in DOMAIN batches[n] :
        batches[n][i].status = "SENDING_TO_RSK" /\ pc[n] # "transact"

(* Node p holds a batch that it has signed without its transfers, because a *)
(* leader that had once signed the batch as a follower asked it to: it      *)
(* gives that answer to everyone who asks about this batch again.           *)
SignedBlank(p) ==
    \E i \in DOMAIN batches[p] :
        batches[p][i].signatures[p] \notin {NoSignature, batches[p][i].hash}

(* A deposit the first leader gave out the address for is processed in the  *)
(* end, although answers are lost after the peers have stored the batch and *)
(* the leader restarts, unless it was stopped while sending a batch, which  *)
(* blocks all later ones, or is no longer the only leader, or the other one *)
(* has left a blank batch behind, or the owner has changed the contract.    *)
DepositsAreProcessed ==
    \A d \in Deposit :
        (d \in received /\ Home[d] = FirstLeader)
            ~> \/ d \in processed
               \/ Interrupted(FirstLeader)
               \/ leads # {FirstLeader}
               \/ \E p \in Node : SignedBlank(p)
               \/ governance > 0
=============================================================================

--------------------------- MODULE RuneDepositScan ---------------------------
(***************************************************************************)
(* How rune deposits get from the Bitcoin block chain into the database:   *)
(* RuneBridgeService.scan_rune_deposits, with the block chain growing and  *)
(* reorganising between its calls, with ord indexing behind bitcoind, with *)
(* the wallet spending the deposited outputs, and with restarts.           *)
(*                                                                         *)
(* A scan lists the transactions since the last scanned block, asks ord    *)
(* for the runes of each output and then writes everything, the new last   *)
(* block included, in one database transaction.  A block is named by its   *)
(* height.  When a reorganisation removes the block whose hash is stored   *)
(* or in flight, bitcoind goes by the last ancestor it has in common with  *)
(* the active chain, so the height becomes that of the ancestor.           *)
(***************************************************************************)
EXTENDS Integers, FiniteSets

CONSTANTS
    Deposit,     \* outputs paying runes to addresses of the wallet
    Foreign,     \* the ones among them whose address has no DepositAddress row
    Scanner,     \* processes that scan into the same database
    Required,    \* btc_min_confirmations
    Buffer,      \* btc_listsinceblock_buffer
    SpendConfs,  \* min_non_change_rune_utxo_confirmations
    ReorgDepth,  \* the most blocks a reorganisation removes
    MaxHeight,   \* bound on the height of the chain
    MaxReorgs,   \* bound on reorganisations
    MaxRestarts  \* bound on restarts

ASSUME ScanAssumption ==
    /\ Foreign \subseteq Deposit
    /\ Required \in Nat \ {0}
    /\ Buffer \in Nat \ {0}
    /\ SpendConfs \in Nat \ {0}
    /\ ReorgDepth \in Nat
    /\ ReorgDepth < Required
    /\ MaxHeight \in Nat
    /\ MaxReorgs \in Nat
    /\ MaxRestarts \in Nat

VARIABLES
    \* bitcoind and ord
    tip,        \* height of the chain
    height,     \* the block of each deposit; 0 while it is in the mempool
    selected,   \* outputs the wallet has spent in a transfer to a user
    spendBlock, \* the block of that spending transaction; 0 while it is in none
    ordTip,     \* height up to which ord has indexed
    \* the database
    lastBlock,  \* <bridge>:btc:deposits:last_scanned_block; 0 before the first scan
    txStatus,   \* IncomingBtcTx.status
    status,     \* RuneDeposit.status
    \* the local variables of a scan
    pc,
    from,       \* last_bitcoin_block
    newLast,    \* new_last_block
    listed,     \* the transactions of the response
    confs,      \* and their confirmations
    todo,       \* outputs to ask ord for
    runes,      \* outputs ord has returned runes for
    \* bounds
    reorgs, restarts

chainVars == <<tip, height, selected, spendBlock, ordTip, reorgs>>
dbVars    == <<lastBlock, txStatus, status>>
scanVars  == <<pc, from, newLast, listed, confs, todo, runes>>
vars == <<chainVars, dbVars, scanVars, restarts>>

Status == {"NONE", "DETECTED", "ACCEPTED"}
Step == {"idle", "list", "sync", "outputs", "handle"}

Init ==
    /\ tip = 0
    /\ height = [d \in Deposit |-> 0]
    /\ selected = {}
    /\ spendBlock = [d \in Deposit |-> 0]
    /\ ordTip = 0
    /\ lastBlock = 0
    /\ txStatus = [d \in Deposit |-> "NONE"]
    /\ status = [d \in Deposit |-> "NONE"]
    /\ pc = [s \in Scanner |-> "idle"]
    /\ from = [s \in Scanner |-> 0]
    /\ newLast = [s \in Scanner |-> 0]
    /\ listed = [s \in Scanner |-> {}]
    /\ confs = [s \in Scanner |-> [d \in Deposit |-> 0]]
    /\ todo = [s \in Scanner |-> {}]
    /\ runes = [s \in Scanner |-> {}]
    /\ reorgs = 0
    /\ restarts = 0

Confirmations(d) == IF height[d] = 0 THEN 0 ELSE tip - height[d] + 1
Lower(a, b) == IF a < b THEN a ELSE b

-----------------------------------------------------------------------------
(* bitcoind and ord *)

(* A block with some of the waiting deposits and spending transactions. *)
MineBlock(D, S) ==
    /\ tip < MaxHeight
    /\ D \subseteq {d \in Deposit : height[d] = 0}
    /\ S \subseteq {d \in selected : spendBlock[d] = 0 /\ (height[d] > 0 \/ d \in D)}
    /\ tip' = tip + 1
    /\ height' = [d \in Deposit |-> IF d \in D THEN tip + 1 ELSE height[d]]
    /\ spendBlock' = [d \in Deposit |-> IF d \in S THEN tip + 1 ELSE spendBlock[d]]
    /\ UNCHANGED <<selected, ordTip, reorgs, dbVars, scanVars, restarts>>

(* A longer branch replaces the last k blocks.  A deposit of a removed      *)
(* block is in some block of the branch, or waits again; a spending         *)
(* transaction waits again.                                                 *)
Reorganise(k, h) ==
    LET fork == tip - k
    IN  /\ tip < MaxHeight
        /\ reorgs < MaxReorgs
        /\ fork >= 0
        /\ \A d \in Deposit : IF height[d] > fork THEN h[d] = 0 \/ h[d] > fork
                                                  ELSE h[d] = height[d]
        /\ tip' = tip + 1
        /\ height' = h
        /\ spendBlock' = [d \in Deposit |-> IF spendBlock[d] > fork THEN 0 ELSE spendBlock[d]]
        /\ ordTip' = Lower(ordTip, fork)
        /\ lastBlock' = Lower(lastBlock, fork)
        /\ from' = [s \in Scanner |-> Lower(from[s], fork)]
        /\ newLast' = [s \in Scanner |-> Lower(newLast[s], fork)]
        /\ reorgs' = reorgs + 1
        /\ UNCHANGED <<selected, txStatus, status, pc, listed, confs, todo, runes, restarts>>

OrdIndexes ==
    /\ ordTip < tip
    /\ ordTip' = ordTip + 1
    /\ UNCHANGED <<tip, height, selected, spendBlock, reorgs, dbVars, scanVars, restarts>>

(* ord knows the runes of an output from the block that creates it until    *)
(* the block that spends it.                                                *)
SpentForOrd(d) == spendBlock[d] > 0 /\ spendBlock[d] <= ordTip
IndexedByOrd(d) == height[d] > 0 /\ height[d] <= ordTip /\ ~SpentForOrd(d)

-----------------------------------------------------------------------------
(* The scan *)

(* The last block is read in a database transaction of its own; a buffer    *)
(* smaller than the required confirmations is refused.                      *)
ReadLastBlock(s) ==
    /\ pc[s] = "idle"
    /\ Buffer >= Required
    /\ from' = [from EXCEPT ![s] = lastBlock]
    /\ pc' = [pc EXCEPT ![s] = "list"]
    /\ UNCHANGED <<chainVars, dbVars, newLast, listed, confs, todo, runes, restarts>>

(* listsinceblock: everything in later blocks and in the mempool, and the   *)
(* block with Buffer confirmations as the next one to start from.           *)
LastBlockTooHigh == IF tip + 2 < Buffer THEN 0 ELSE tip + 2 - Buffer  \* variant: off by one
LastBlockOfResponse == IF tip + 1 < Buffer THEN 0 ELSE tip + 1 - Buffer

listsinceblock(s) ==
    /\ pc[s] = "list"
    /\ listed' = [listed EXCEPT ![s] =
                     {d \in Deposit : height[d] = 0 \/ height[d] > from[s]}]
    /\ confs' = [confs EXCEPT ![s] = [d \in Deposit |-> Confirmations(d)]]
    /\ newLast' = [newLast EXCEPT ![s] = LastBlockOfResponse]
    /\ pc' = [pc EXCEPT ![s] = "sync"]
    /\ UNCHANGED <<chainVars, dbVars, from, todo, runes, restarts>>

(* _sync_ord_with_bitcoind: wait until ord is as far as bitcoind *)
SyncOrd(s) ==
    /\ pc[s] = "sync"
    /\ ordTip >= tip
    /\ todo' = [todo EXCEPT ![s] = {d \in listed[s] : confs[s][d] > 0}]
    /\ pc' = [pc EXCEPT ![s] = "outputs"]
    /\ UNCHANGED <<chainVars, dbVars, from, newLast, listed, confs, runes, restarts>>

(* ord returns the output, or says that it is spent. *)
GetOutput(s, d) ==
    /\ pc[s] = "outputs"
    /\ d \in todo[s]
    /\ IndexedByOrd(d) \/ SpentForOrd(d)
    /\ todo' = [todo EXCEPT ![s] = @ \ {d}]
    /\ runes' = [runes EXCEPT ![s] = IF IndexedByOrd(d) THEN @ \cup {d} ELSE @]
    /\ UNCHANGED <<chainVars, dbVars, pc, from, newLast, listed, confs, restarts>>

ScanReset(s, step) ==
    /\ pc' = [pc EXCEPT ![s] = step]
    /\ from' = [from EXCEPT ![s] = 0]
    /\ newLast' = [newLast EXCEPT ![s] = 0]
    /\ listed' = [listed EXCEPT ![s] = {}]
    /\ confs' = [confs EXCEPT ![s] = [d \in Deposit |-> 0]]
    /\ todo' = [todo EXCEPT ![s] = {}]
    /\ runes' = [runes EXCEPT ![s] = {}]

(* Whatever raises ends the iteration and writes nothing: ord does not      *)
(* catch up in time, or has not indexed an output after all retries, or the *)
(* last block is no longer the one that was read.                           *)
ScanRaises(s) ==
    /\ \/ pc[s] = "sync" /\ ordTip < tip
       \/ pc[s] = "outputs" /\ \E d \in todo[s] : ~IndexedByOrd(d) /\ ~SpentForOrd(d)
       \/ pc[s] = "outputs" /\ todo[s] = {} /\ lastBlock # from[s]
    /\ ScanReset(s, "idle")
    /\ UNCHANGED <<chainVars, dbVars, restarts>>

DeepOffByOne(s, d) == confs[s][d] + 1 >= Required  \* variant
Deep(s, d) == confs[s][d] >= Required

Advance(old, deep) ==
    IF old = "ACCEPTED" \/ deep THEN "ACCEPTED" ELSE "DETECTED"

(* Variant: the last block is overwritten without comparing it. *)
CommitScanBlindly(s) ==
    /\ pc[s] = "outputs"
    /\ todo[s] = {}
    /\ txStatus' = [d \in Deposit |->
          IF d \in listed[s] THEN Advance(txStatus[d], Deep(s, d)) ELSE txStatus[d]]
    /\ status' = [d \in Deposit |->
          IF d \in runes[s] \ Foreign THEN Advance(status[d], Deep(s, d)) ELSE status[d]]
    /\ lastBlock' = newLast[s]
    /\ ScanReset(s, "handle")
    /\ UNCHANGED <<chainVars, restarts>>

(* Variant: what the scan has written is rolled back. *)
CommitScanRolledBack(s) ==
    /\ pc[s] = "outputs"
    /\ todo[s] = {}
    /\ lastBlock = from[s]
    /\ ScanReset(s, "handle")
    /\ UNCHANGED <<chainVars, dbVars, restarts>>

(* The database transaction at the end of the scan *)
CommitScan(s) ==
    /\ pc[s] = "outputs"
    /\ todo[s] = {}
    /\ lastBlock = from[s]
    /\ txStatus' = [d \in Deposit |->
          IF d \in listed[s] THEN Advance(txStatus[d], Deep(s, d)) ELSE txStatus[d]]
    /\ status' = [d \in Deposit |->
          IF d \in runes[s] \ Foreign THEN Advance(status[d], Deep(s, d)) ELSE status[d]]
    /\ lastBlock' = newLast[s]
    /\ ScanReset(s, "handle")
    /\ UNCHANGED <<chainVars, restarts>>

-----------------------------------------------------------------------------
(* After the scan, in the same iteration, the leader may spend outputs of   *)
(* the wallet for transfers to users.                                       *)
SelectOutput(s, d) ==
    /\ pc[s] = "handle"
    /\ d \notin selected
    /\ Confirmations(d) >= SpendConfs
    /\ IndexedByOrd(d)
    /\ selected' = selected \cup {d}
    /\ UNCHANGED <<tip, height, spendBlock, ordTip, reorgs, dbVars, scanVars, restarts>>

EndIteration(s) ==
    /\ pc[s] = "handle"
    /\ pc' = [pc EXCEPT ![s] = "idle"]
    /\ UNCHANGED <<chainVars, dbVars, from, newLast, listed, confs, todo, runes, restarts>>

Restart(s) ==
    /\ restarts < MaxRestarts
    /\ pc[s] # "idle"
    /\ restarts' = restarts + 1
    /\ ScanReset(s, "idle")
    /\ UNCHANGED <<chainVars, dbVars>>

-----------------------------------------------------------------------------
Chain ==
    \/ \E D, S \in SUBSET Deposit : MineBlock(D, S)
    \/ \E k \in 1 .. ReorgDepth : \E h \in [Deposit -> 0 .. tip + 1] : Reorganise(k, h)
    \/ OrdIndexes

Scan(s) ==
    \/ ReadLastBlock(s)
    \/ listsinceblock(s)
    \/ SyncOrd(s)
    \/ \E d \in Deposit : GetOutput(s, d)
    \/ ScanRaises(s)
    \/ CommitScan(s)
    \/ EndIteration(s)

Next ==
    \/ Chain
    \/ \E s \in Scanner : Scan(s) \/ Restart(s) \/ \E d \in Deposit : SelectOutput(s, d)

Spec == Init /\ [][Next]_vars

(* The main loop keeps scanning, and ord keeps indexing. *)
FairSpec ==
    /\ Spec
    /\ WF_vars(OrdIndexes)
    /\ \A s \in Scanner : WF_vars(Scan(s))

-----------------------------------------------------------------------------
(* Every variable holds a value of its kind. *)
TypeOK ==
    /\ tip \in Nat
    /\ height \in [Deposit -> 0 .. tip]
    /\ selected \subseteq Deposit
    /\ spendBlock \in [Deposit -> Nat]
    /\ ordTip \in Nat
    /\ lastBlock \in Nat
    /\ txStatus \in [Deposit -> Status]
    /\ status \in [Deposit -> Status]
    /\ pc \in [Scanner -> Step]
    /\ from \in [Scanner -> Nat]
    /\ newLast \in [Scanner -> Nat]
    /\ listed \in [Scanner -> SUBSET Deposit]
    /\ confs \in [Scanner -> [Deposit -> Nat]]
    /\ todo \in [Scanner -> SUBSET Deposit]
    /\ runes \in [Scanner -> SUBSET Deposit]
    /\ reorgs \in Nat
    /\ restarts \in Nat

(* Once the last scanned block has moved past a deposit, and no later scan  *)
(* lists it, the deposit is accepted, unless the wallet had already spent   *)
(* its output.                                                              *)
NothingMissed ==
    \A d \in Deposit \ (Foreign \cup selected) :
        0 < height[d] /\ height[d] <= lastBlock => status[d] = "ACCEPTED"

(* An accepted deposit is in the block chain for good: the reorganisations  *)
(* that btc_min_confirmations guards against do not remove it, although the *)
(* confirmations are those of the listing and the chain has moved on when   *)
(* the status is written.                                                   *)
AcceptedIsFinal ==
    \A d \in Deposit : status[d] = "ACCEPTED" => height[d] > 0

(* Only a reorganisation moves the last scanned block back: of two scans    *)
(* that overlap, the one that would overwrite the other's result is rolled  *)
(* back ("Last block changed ... while processing deposits!").              *)
LastBlockAdvances == [][reorgs' = reorgs => lastBlock' >= lastBlock]_vars

(* A deposit with enough confirmations is eventually accepted, unless the   *)
(* wallet spends its output first.                                          *)
DepositsAreAccepted ==
    \A d \in Deposit \ Foreign :
        Confirmations(d) >= Required ~> status[d] = "ACCEPTED" \/ d \in selected
=============================================================================

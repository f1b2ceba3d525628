--------------------------- MODULE EvmEventScanner ---------------------------
(***************************************************************************)
(* EvmEventScanner.scan_new_events and its two users, which turn contract  *)
(* events into rows of the database: a range of blocks behind the head is  *)
(* fetched in batches, with retries, while the chain grows and             *)
(* reorganises; rows and the last scanned block are committed together.    *)
(***************************************************************************)
EXTENDS Integers, Sequences, FiniteSets

CONSTANTS
    Event,          \* contract events, each in a transaction of its own
    LogIndex,       \* logIndex, the position of a log in its block
    StartBlock,     \* default_start_block
    Margin,         \* block_safety_margin
    BatchSize,      \* batch_size of get_events (100 in the code)
    Retries,        \* retries of get_event_batch_with_retries (10 in the code)
    MaxReorg,       \* how many blocks a reorganisation removes at most
    MaxBlocks,      \* bound on the length of the chain
    MaxReorgs,      \* bound on the number of reorganisations
    MaxFaults       \* bound on raising calls and restarts

ASSUME ScannerAssumption ==
    /\ StartBlock \in Nat
    /\ Margin \in Nat
    /\ BatchSize \in Nat
    /\ Retries \in Nat
    /\ MaxReorg \in Nat
    /\ MaxBlocks \in Nat
    /\ MaxReorgs \in Nat
    /\ MaxFaults \in Nat

VARIABLES
    chain,      \* the logs of each block, pairs of an event and its log index
    reorgs, faults,
    deep,       \* history: how many reorganisations removed more than the margin
    \* the database
    last,       \* the last scanned block
    rows,       \* the recorded logs
    \* a running scan
    pc,
    toBlock,    \* to_block
    batchFrom,  \* batch_from_block
    retries,
    found       \* all_event_logs

chainVars == <<chain, reorgs, deep>>
dbVars    == <<last, rows>>
scanVars  == <<pc, toBlock, batchFrom, retries, found>>
vars == <<chainVars, faults, dbVars, scanVars>>

-----------------------------------------------------------------------------
(* A log as get_logs returns it: era is history, the number of deep          *)
(* reorganisations before it was fetched.                                   *)
EventsIn(from, to) ==
    {r \in [block : from .. to, event : Event, index : LogIndex, era : {deep}] :
        r.block \in DOMAIN chain /\ <<r.event, r.index>> \in chain[r.block]}

OnChain(c) == {log[1] : log \in UNION {c[b] : b \in DOMAIN c}}

(* A block: its events, each at a position of its own among all its logs.   *)
Blocks(events) ==
    {logs \in SUBSET (events \X LogIndex) :
        \A l, m \in logs : l # m => l[1] # m[1] /\ l[2] # m[2]}

Smaller(x, y) == IF x <= y THEN x ELSE y

Init ==
    /\ chain = <<>>
    /\ reorgs = 0
    /\ deep = 0
    /\ faults = 0
    /\ last = StartBlock
    /\ rows = {}
    /\ pc = "idle"
    /\ toBlock = 0
    /\ batchFrom = 0
    /\ retries = 0
    /\ found = {}

-----------------------------------------------------------------------------
(* The EVM: a block is added, or the last blocks give way to a longer       *)
(* branch, in which the events of the old one may or may not occur, in      *)
(* other blocks and at other positions.                                     *)

AddBlock ==
    /\ Len(chain) < MaxBlocks
    /\ \E logs \in Blocks(Event \ OnChain(chain)) : chain' = Append(chain, logs)
    /\ UNCHANGED <<reorgs, deep, faults, dbVars, scanVars>>

Reorganise(k) ==
    /\ k <= MaxReorg
    /\ k <= Len(chain)
    /\ Len(chain) < MaxBlocks
    /\ reorgs < MaxReorgs
    /\ reorgs' = reorgs + 1
    /\ deep' = IF k > Margin THEN deep + 1 ELSE deep
    /\ LET stem == SubSeq(chain, 1, Len(chain) - k)
       IN  \E branch \in [1 .. k + 1 -> Blocks(Event \ OnChain(stem))] :
              /\ \A i, j \in 1 .. k + 1 : i # j =>
                    \A l \in branch[i], m \in branch[j] : l[1] # m[1]
              /\ chain' = stem \o branch
    /\ UNCHANGED <<faults, dbVars, scanVars>>

-----------------------------------------------------------------------------
(* The scan *)

(* Variant: the scan goes up to the head. *)
ScanToHead == Len(chain)

ScanTo == Len(chain) - Margin

BeginScan ==
    /\ pc = "idle"
    /\ ScanTo >= last + 1
    /\ pc' = "fetch"
    /\ toBlock' = ScanTo
    /\ batchFrom' = last + 1
    /\ retries' = Retries
    /\ found' = {}
    /\ UNCHANGED <<chainVars, faults, dbVars>>

(* There are no new blocks behind the margin: the scan returns at once. *)
NothingToScan ==
    /\ pc = "idle"
    /\ ScanTo < last + 1
    /\ UNCHANGED vars

BatchTo == Smaller(batchFrom + BatchSize, toBlock)

FetchBatch ==
    /\ pc = "fetch"
    /\ batchFrom <= toBlock
    /\ found' = found \cup EventsIn(batchFrom, BatchTo)
    /\ batchFrom' = BatchTo + 1
    /\ retries' = Retries
    /\ UNCHANGED <<chainVars, faults, dbVars, pc, toBlock>>

Fault == faults < MaxFaults /\ faults' = faults + 1

FetchIsRetried ==
    /\ pc = "fetch"
    /\ batchFrom <= toBlock
    /\ retries > 0
    /\ Fault
    /\ retries' = retries - 1
    /\ UNCHANGED <<chainVars, dbVars, pc, toBlock, batchFrom, found>>

EndScan ==
    /\ pc' = "idle"
    /\ toBlock' = 0
    /\ batchFrom' = 0
    /\ retries' = 0
    /\ found' = {}

(* The transaction of the scan is rolled back: the retries are used up, the *)
(* callback raises, or the node restarts.                                   *)
RollBack ==
    /\ EndScan
    /\ UNCHANGED <<chainVars, dbVars>>

ScanRaises == pc = "fetch" /\ Fault /\ RollBack

(* Variant: the transaction hash is missing from the constraint. *)
ViolatesUniqueConstraintOfIndex ==
    \/ \E r \in rows, f \in found : r.index = f.index
    \/ \E f, g \in found : f # g /\ f.index = g.index

(* Two logs with one transaction hash and one log index. *)
ViolatesUniqueConstraint ==
    \/ \E r \in rows, f \in found : r.event = f.event /\ r.index = f.index
    \/ \E f, g \in found : f # g /\ f.event = g.event /\ f.index = g.index

(* Variant: the events of the last block are left out. *)
CommitScanWithoutLast ==
    /\ pc = "fetch"
    /\ batchFrom > toBlock
    /\ ~ViolatesUniqueConstraint
    /\ rows' = rows \cup {f \in found : f.block < toBlock}
    /\ last' = toBlock
    /\ EndScan
    /\ UNCHANGED <<chainVars, faults>>

CommitScan ==
    /\ pc = "fetch"
    /\ batchFrom > toBlock
    /\ ~ViolatesUniqueConstraint
    /\ rows' = rows \cup found
    /\ last' = toBlock
    /\ EndScan
    /\ UNCHANGED <<chainVars, faults>>

CommitFails ==
    /\ pc = "fetch"
    /\ batchFrom > toBlock
    /\ ViolatesUniqueConstraint
    /\ RollBack
    /\ UNCHANGED faults

-----------------------------------------------------------------------------
ScanNext ==
    \/ BeginScan \/ NothingToScan \/ FetchBatch \/ FetchIsRetried
    \/ ScanRaises \/ CommitScan \/ CommitFails

Next ==
    \/ AddBlock
    \/ \E k \in 1 .. MaxReorg : Reorganise(k)
    \/ ScanNext

Spec == Init /\ [][Next]_vars

(* The main loop scans in every iteration. *)
FairSpec == Spec /\ WF_vars(ScanNext)

-----------------------------------------------------------------------------
(* Properties *)

Log == [block : Nat, event : Event, index : LogIndex, era : Nat]

(* Every variable holds a value of its kind. *)
TypeOK ==
    /\ chain \in Seq(SUBSET (Event \X LogIndex))
    /\ reorgs \in Nat
    /\ deep \in Nat
    /\ faults \in Nat
    /\ last \in Nat
    /\ rows \subseteq Log
    /\ pc \in {"idle", "fetch"}
    /\ toBlock \in Nat
    /\ batchFrom \in Nat
    /\ retries \in 0 .. Retries
    /\ found \subseteq Log

(* Unless a reorganisation was deeper than the safety margin, the rows are  *)
(* exactly the events of the blocks after the start block and up to the     *)
(* last scanned one, each with its block and its log index, as the chain    *)
(* has them for good: nothing is missed between batches, scans, faults and  *)
(* restarts, and nothing is recorded that a reorganisation takes back.      *)
RowsMatchChain == deep = 0 => rows = EventsIn(StartBlock + 1, last)

(* What makes RowsMatchChain inductive: a running scan has found the events *)
(* of the blocks before its next batch, and no scan goes further than       *)
(* reorganisations do not reach.                                            *)
ScanInvariant ==
    /\ last > StartBlock => last + Margin <= Len(chain)
    /\ last >= StartBlock
    /\ pc = "fetch" => /\ toBlock > last
                       /\ toBlock + Margin <= Len(chain)
                       /\ batchFrom \in last + 1 .. toBlock + 1
                       /\ deep = 0 => found = EventsIn(last + 1, batchFrom - 1)
    /\ RowsMatchChain

(* A log that is recorded again, at another place, was taken back by a      *)
(* reorganisation deeper than the margin in between: the unique constraint  *)
(* does not recognise it at another log index, so that nothing but the      *)
(* safety margin keeps an event from becoming two rows, and it can become   *)
(* at most one more with each such reorganisation.                          *)
SecondRowNeedsDeepReorganisation ==
    \A r, s \in rows : r.event = s.event /\ r.era = s.era => r = s

(* The chain has no event twice. *)
EventsAreOnChainOnce ==
    \A b, c \in DOMAIN chain : \A l \in chain[b], m \in chain[c] :
        l[1] = m[1] => b = c /\ l = m

(* What was found since the last deep reorganisation is on the chain, and   *)
(* stays there: it is as deep as the margin.                                *)
NewestEraIsOnChain ==
    \A r \in rows \cup found :
        /\ r.era <= deep
        /\ r.block + Margin <= Len(chain)
        /\ r.era = deep => /\ r.block \in DOMAIN chain
                           /\ <<r.event, r.index>> \in chain[r.block]

(* What makes SecondRowNeedsDeepReorganisation inductive. *)
EraInvariant ==
    /\ EventsAreOnChainOnce
    /\ NewestEraIsOnChain
    /\ \A r, s \in rows \cup found : r.event = s.event /\ r.era = s.era => r = s

(* Unless a reorganisation was deeper than the margin, an event behind the  *)
(* margin is recorded in the end, also when calls raise until the retries   *)
(* of a batch are used up.                                                  *)
EventsAreRecorded ==
    \A e \in Event, b \in 1 .. MaxBlocks :
        (\E r \in EventsIn(StartBlock + 1, Len(chain) - Margin) : r.event = e /\ r.block = b)
            ~> (\E r \in rows : r.event = e /\ r.block = b) \/ deep > 0
=============================================================================

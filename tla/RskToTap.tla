------------------------------ MODULE RskToTap ------------------------------
(***************************************************************************)
(* The RSK -> Tap direction of the Tap bridge: every node scans the        *)
(* TransferToTap events into its own database; the leader groups them into *)
(* batches and lets its tapd send a whole batch at once.  No peer signs    *)
(* anything, and only the status of the batch says whether it was sent.    *)
(***************************************************************************)
EXTENDS Integers, FiniteSets, FiniteSetsExt, Sequences, SequencesExt

CONSTANTS
    Node,           \* the bridge nodes
    FirstLeader,    \* the node that is the leader initially
    BatchLimit,     \* batch_limit
    MaxTransfers,   \* bound on transfers through the contract, both directions
    MaxFaults,      \* bound on calls of send_assets that raise
    MaxRestarts     \* bound on node restarts

ASSUME FederationAssumption == FirstLeader \in Node
ASSUME BoundAssumption ==
    BatchLimit \in Nat \ {0} /\ {MaxTransfers, MaxFaults, MaxRestarts} \subseteq Nat

VARIABLES
    numTransfersTotal,  \* of the contract, counting both directions
    events,             \* counters of the TransferToTap events, oldest first
    rows,               \* how many of them each node has scanned
    batches,            \* RskToTapTransferBatch of each node, in the order of id
    pc, current,        \* the leader's iteration and its batch_id
    sends,              \* counters of the transfers each node's tapd has sent
    leads, faults, restarts

vars == <<numTransfersTotal, events, rows, batches, pc, current, sends, leads, faults, restarts>>
chainVars == <<numTransfersTotal, events>>
cfgVars == <<leads, restarts>>

Status == {"CREATED", "SENDING_TO_TAP", "SENT_TO_TAP", "FINALIZED"}
Loop == {"idle", "batch", "begin", "send", "sent", "finalize"}
Batch == [transfers : Seq(Nat), status : Status]

Init ==
    /\ numTransfersTotal = 0
    /\ events = <<>>
    /\ rows = [n \in Node |-> 0]
    /\ batches = [n \in Node |-> <<>>]
    /\ pc = [n \in Node |-> "idle"]
    /\ current = [n \in Node |-> 0]
    /\ sends = [n \in Node |-> <<>>]
    /\ leads = {FirstLeader}
    /\ faults = 0
    /\ restarts = 0

-----------------------------------------------------------------------------
(* The contract: a transfer in either direction takes the next counter. *)

NextCounter ==
    /\ numTransfersTotal < MaxTransfers
    /\ numTransfersTotal' = numTransfersTotal + 1

transferToTap ==
    /\ NextCounter
    /\ events' = Append(events, numTransfersTotal')
    /\ UNCHANGED <<rows, batches, pc, current, sends, cfgVars, faults>>

acceptTransferFromTap ==
    /\ NextCounter
    /\ UNCHANGED <<events, rows, batches, pc, current, sends, cfgVars, faults>>

-----------------------------------------------------------------------------
(* The scan records the events up to some block behind the head. *)
RunIteration(n) ==
    /\ pc[n] = "idle"
    /\ \E k \in rows[n] .. Len(events) : rows' = [rows EXCEPT ![n] = k]
    /\ pc' = [pc EXCEPT ![n] = IF n \in leads THEN "batch" ELSE "idle"]
    /\ UNCHANGED <<chainVars, batches, current, sends, cfgVars, faults>>

(* Variant: a batch that was left in SENDING_TO_TAP is passed over. *)
UnfinishedSkipsSending(n) ==
    {i \in DOMAIN batches[n] : batches[n][i].status \notin {"SENDING_TO_TAP", "FINALIZED"}}

Unfinished(n) == {i \in DOMAIN batches[n] : batches[n][i].status # "FINALIZED"}

(* The scanned transfers that are in no batch, in the order of their counters. *)
Unbatched(n) ==
    LET linked == UNION {Range(batches[n][i].transfers) : i \in DOMAIN batches[n]}
        left   == {k \in 1 .. rows[n] : events[k] \notin linked}
    IN  [i \in 1 .. Cardinality(left) |->
            events[CHOOSE k \in left : Cardinality({j \in left : j <= k}) = i]]

CreateBatch(n) ==
    LET first == SubSeq(Unbatched(n), 1, Min({BatchLimit, Len(Unbatched(n))}))
    IN  batches' = [batches EXCEPT ![n] = Append(@, [transfers |-> first, status |-> "CREATED"])]

GoTo(n, step) == pc' = [pc EXCEPT ![n] = step]
Take(n, i) == current' = [current EXCEPT ![n] = i]

EndIteration(n) == GoTo(n, "idle") /\ Take(n, 0)

SetStatus(n, s) == batches' = [batches EXCEPT ![n][current[n]].status = s]

NoCurrentBatch(n) ==
    /\ pc[n] = "batch"
    /\ Unfinished(n) = {}
    /\ Unbatched(n) = <<>>
    /\ EndIteration(n)
    /\ UNCHANGED <<chainVars, rows, batches, sends, cfgVars, faults>>

NewBatch(n) ==
    /\ pc[n] = "batch"
    /\ Unfinished(n) = {}
    /\ Unbatched(n) # <<>>
    /\ CreateBatch(n)
    /\ GoTo(n, "begin")
    /\ Take(n, Len(batches[n]) + 1)
    /\ UNCHANGED <<chainVars, rows, sends, cfgVars, faults>>

(* Where to go on with a batch an earlier iteration has left. *)
StepFor(s) ==
    CASE s = "CREATED" -> "begin"
      [] s = "SENT_TO_TAP" -> "finalize"
      [] s = "SENDING_TO_TAP" -> "idle"

TakeUp(n) ==
    /\ pc[n] = "batch"
    /\ Unfinished(n) # {}
    /\ LET i == Min(Unfinished(n))
           step == StepFor(batches[n][i].status)
       IN  GoTo(n, step) /\ Take(n, IF step = "idle" THEN 0 ELSE i)
    /\ UNCHANGED <<chainVars, rows, batches, sends, cfgVars, faults>>

BeginSending(n) ==
    /\ pc[n] = "begin"
    /\ SetStatus(n, "SENDING_TO_TAP")
    /\ GoTo(n, "send")
    /\ UNCHANGED <<chainVars, rows, current, sends, cfgVars, faults>>

(* One Tap transaction for all recipients of the batch. *)
AssetsSent(n) == sends' = [sends EXCEPT ![n] = @ \o batches[n][current[n]].transfers]

send_assets(n) ==
    /\ pc[n] = "send"
    /\ AssetsSent(n)
    /\ GoTo(n, "sent")
    /\ UNCHANGED <<chainVars, rows, batches, current, cfgVars, faults>>

(* Variant: an exception while sending is ignored. *)
SendRaisesIgnored(n) ==
    /\ pc[n] = "send"
    /\ faults < MaxFaults
    /\ faults' = faults + 1
    /\ AssetsSent(n) \/ UNCHANGED sends
    /\ GoTo(n, "sent")
    /\ UNCHANGED <<chainVars, rows, batches, current, cfgVars>>

(* The request fails; tapd may have sent the assets all the same. *)
SendRaises(n) ==
    /\ pc[n] = "send"
    /\ faults < MaxFaults
    /\ faults' = faults + 1
    /\ AssetsSent(n) \/ UNCHANGED sends
    /\ EndIteration(n)
    /\ UNCHANGED <<chainVars, rows, batches, cfgVars>>

MarkSent(n) ==
    /\ pc[n] = "sent"
    /\ SetStatus(n, "SENT_TO_TAP")
    /\ GoTo(n, "finalize")
    /\ UNCHANGED <<chainVars, rows, current, sends, cfgVars, faults>>

(* Variant: the batch is not finalised. *)
FinalizeNever(n) ==
    /\ pc[n] = "finalize"
    /\ EndIteration(n)
    /\ UNCHANGED <<chainVars, rows, batches, sends, cfgVars, faults>>

Finalize(n) ==
    /\ pc[n] = "finalize"
    /\ SetStatus(n, "FINALIZED")
    /\ EndIteration(n)
    /\ UNCHANGED <<chainVars, rows, sends, cfgVars, faults>>

(* Node n stops anywhere and starts again, as leader or as follower. *)
Restart(n, leader) ==
    /\ restarts < MaxRestarts
    /\ restarts' = restarts + 1
    /\ leads' = IF leader THEN leads \cup {n} ELSE leads \ {n}
    /\ EndIteration(n)
    /\ UNCHANGED <<chainVars, rows, batches, sends, faults>>

-----------------------------------------------------------------------------
process_current_transfer_batch(n) ==
    \/ NoCurrentBatch(n) \/ NewBatch(n) \/ TakeUp(n) \/ BeginSending(n)
    \/ send_assets(n) \/ SendRaises(n) \/ MarkSent(n) \/ Finalize(n)

Next ==
    \/ transferToTap
    \/ acceptTransferFromTap
    \/ \E n \in Node : RunIteration(n) \/ process_current_transfer_batch(n)
    \/ \E n \in Node, leader \in BOOLEAN : Restart(n, leader)

Spec == Init /\ [][Next]_vars

(* A scan that finds all there is keeps happening. *)
ScanAll(n) == RunIteration(n) /\ rows'[n] = Len(events)

(* The main loop of every node keeps running and reaches the head. *)
Fairness ==
    \A n \in Node : /\ WF_vars(process_current_transfer_batch(n))
                    /\ SF_vars(ScanAll(n))

FairSpec == Spec /\ Fairness

-----------------------------------------------------------------------------
(* Properties *)

(* Every variable holds a value of its kind. *)
TypeOK ==
    /\ numTransfersTotal \in Nat
    /\ events \in Seq(Nat)
    /\ rows \in [Node -> Nat]
    /\ batches \in [Node -> Seq(Batch)]
    /\ pc \in [Node -> Loop]
    /\ current \in [Node -> Nat]
    /\ sends \in [Node -> Seq(Nat)]
    /\ leads \subseteq Node
    /\ {faults, restarts} \subseteq Nat

(* What a node has sent are the first transfers of the contract, each once, *)
(* in the order of their counters: no restart or failing call makes it send *)
(* a transfer again, or a later one before an earlier one.                  *)
SentInOrder ==
    \A n \in Node : IsPrefix(sends[n], events)

(* What a status says of a batch is true except while it is SENDING_TO_TAP: *)
(* before, none of it was sent, and after, all of it.                       *)
StatusTellsSent ==
    \A n \in Node : \A i \in DOMAIN batches[n] :
        LET b == batches[n][i]
        IN  /\ b.status = "CREATED" => Range(b.transfers) \cap Range(sends[n]) = {}
            /\ b.status \in {"SENT_TO_TAP", "FINALIZED"}
                   => Range(b.transfers) \subseteq Range(sends[n])

(* Variables are typed, and statuses tell the truth. *)
StatusInvariant == TypeOK /\ StatusTellsSent

Interrupted(n) ==
    \E i \in DOMAIN batches[n] :
        batches[n][i].status = "SENDING_TO_TAP" /\ pc[n] \notin {"send", "sent"}

(* The first leader sends every transfer in the end, unless it was stopped  *)
(* while a batch was SENDING_TO_TAP, which blocks all later batches, or is  *)
(* no longer the leader.                                                    *)
TransfersAreSent ==
    \A c \in 1 .. MaxTransfers :
        c \in Range(events) ~> \/ c \in Range(sends[FirstLeader])
                               \/ Interrupted(FirstLeader)
                               \/ FirstLeader \notin leads
=============================================================================

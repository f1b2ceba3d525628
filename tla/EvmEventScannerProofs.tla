----------------------- MODULE EvmEventScannerProofs ------------------------
(***************************************************************************)
(* Theorems about the event scanner for any chain, batch size, number of   *)
(* retries, reorganisations and faults.                                    *)
(***************************************************************************)
EXTENDS EvmEventScanner, SequenceTheorems, TLAPS

(* The logs of the blocks from .. to of a chain c, fetched in era e. *)
In(c, e, from, to) ==
    {r \in [block : from .. to, event : Event, index : LogIndex, era : {e}] :
        r.block \in DOMAIN c /\ <<r.event, r.index>> \in c[r.block]}

Block == SUBSET (Event \X LogIndex)

Chain == Seq(Block)

-----------------------------------------------------------------------------
(* Facts about chains *)

(* Blocks that two chains share have the same events in both. *)
LEMMA InStable ==
    ASSUME NEW c \in Chain, NEW d \in Chain, NEW from \in Nat \ {0}, NEW to \in Nat,
           to <= Len(c), to <= Len(d), \A b \in 1 .. to : c[b] = d[b]
    PROVE  \A e : In(c, e, from, to) = In(d, e, from, to)
<1>1. \A b \in from .. to : b \in DOMAIN c /\ b \in DOMAIN d /\ c[b] = d[b]
  BY DEF Chain
<1> QED  BY <1>1 DEF In

(* A range of blocks is the union of its two parts. *)
LEMMA InSplit ==
    ASSUME NEW c \in Chain, NEW e, NEW a \in Nat, NEW b \in Nat, NEW d \in Nat,
           a <= b + 1, b <= d
    PROVE  In(c, e, a, d) = In(c, e, a, b) \cup In(c, e, b + 1, d)
<1>1. \A n : n \in a .. d <=> n \in a .. b \/ n \in b + 1 .. d
  OBVIOUS
<1> QED  BY <1>1 DEF In

LEMMA InEmpty ==
    ASSUME NEW c, NEW e, NEW a \in Nat, NEW b \in Nat, b < a
    PROVE  In(c, e, a, b) = {}
<1>1. a .. b = {}
  OBVIOUS
<1> QED  BY <1>1 DEF In

LEMMA InType ==
    ASSUME NEW c, NEW e \in Nat, NEW a \in Nat, NEW b \in Int
    PROVE  In(c, e, a, b) \subseteq Log
<1>1. a .. b \subseteq Nat
  OBVIOUS
<1> QED  BY <1>1 DEF In, Log

(* A block is a set of logs, none of an event that is taken. *)
LEMMA BlocksType ==
    ASSUME NEW events, NEW logs \in Blocks(events), events \subseteq Event
    PROVE  /\ logs \in Block
           /\ \A l \in logs : l[1] \in events
           /\ \A l, m \in logs : l[1] = m[1] => l = m
BY DEF Blocks, Block

(* A new block leaves the others alone, and a reorganisation leaves alone   *)
(* all but the blocks it removes, in the margin unless deep is set;         *)
(* either makes the chain longer.                                           *)
LEMMA BlocksStay ==
    ASSUME TypeOK,
           AddBlock \/ \E k \in 1 .. MaxReorg : Reorganise(k)
    PROVE  /\ chain' \in Chain
           /\ Len(chain') >= Len(chain)
           /\ deep' \in Nat
           /\ deep' >= deep
           /\ deep' = deep => \A b \in 1 .. Len(chain) - Margin : chain'[b] = chain[b]
<1> USE ScannerAssumption
<1>0. chain \in Chain
  BY DEF TypeOK, Chain, Block
<1>1. CASE AddBlock
  <2>1. PICK logs \in Block : chain' = Append(chain, logs)
    BY <1>1, BlocksType DEF AddBlock
  <2>2. deep' = deep
    BY <1>1 DEF AddBlock
  <2> QED  BY <1>0, <2>1, <2>2 DEF Chain, TypeOK
<1>2. CASE \E k \in 1 .. MaxReorg : Reorganise(k)
  <2>1. PICK k \in 1 .. MaxReorg : Reorganise(k)
    BY <1>2
  <2> DEFINE stem == SubSeq(chain, 1, Len(chain) - k)
  <2>2. k <= Len(chain) /\ k \in Nat \ {0}
    BY <2>1 DEF Reorganise
  <2>3. PICK branch \in [1 .. k + 1 -> Blocks(Event \ OnChain(stem))] : chain' = stem \o branch
    BY <2>1 DEF Reorganise
  <2>4. /\ stem \in Chain
        /\ Len(stem) = Len(chain) - k
        /\ \A b \in 1 .. Len(chain) - k : stem[b] = chain[b]
    BY <1>0, <2>2 DEF Chain
  <2>5. branch \in Chain /\ Len(branch) = k + 1
    <3>1. branch \in [1 .. k + 1 -> Block]
      BY <2>3, BlocksType
    <3> QED  BY <3>1, <2>2 DEF Chain
  <2> HIDE DEF stem
  <2>6. /\ stem \o branch \in Seq(Block)
        /\ Len(stem \o branch) = Len(stem) + Len(branch)
        /\ \A i \in 1 .. Len(stem) + Len(branch) : (stem \o branch)[i] =
               IF i <= Len(stem) THEN stem[i] ELSE branch[i - Len(stem)]
    <3>1. stem \in Seq(Block) /\ branch \in Seq(Block)
      BY <2>4, <2>5 DEF Chain
    <3> QED  BY ONLY <3>1, ConcatProperties, Zenon
  <2>7. /\ chain' \in Chain
        /\ Len(chain) \in Nat /\ Len(chain') = (Len(chain) - k) + (k + 1)
    BY <1>0, <2>3, <2>4, <2>5, <2>6 DEF Chain
  <2>8. \A b \in 1 .. (Len(chain) - k) + (k + 1) :
           chain'[b] = IF b <= Len(chain) - k THEN stem[b] ELSE branch[b - (Len(chain) - k)]
    BY <2>3, <2>4, <2>5, <2>6, Zenon
  <2>9. \A b \in 1 .. Len(chain) - k : chain'[b] = chain[b]
    BY <2>2, <2>4, <2>7, <2>8
  <2>10. deep' = IF k > Margin THEN deep + 1 ELSE deep
    BY <2>1 DEF Reorganise
  <2>11. Len(chain') >= Len(chain)
         /\ (~(k > Margin) => 1 .. Len(chain) - Margin \subseteq 1 .. Len(chain) - k)
    BY <2>2, <2>7
  <2>12. deep' \in Nat /\ deep' >= deep /\ (deep' = deep => ~(k > Margin))
    BY <2>10 DEF TypeOK
  <2> QED  BY <2>7, <2>9, <2>11, <2>12
<1> QED  BY <1>1, <1>2

-----------------------------------------------------------------------------
(* The variables keep their types, whatever the chain does.                 *)
THEOREM TypeCorrect == Spec => []TypeOK
<1> USE ScannerAssumption
<1>1. Init => TypeOK
  <2>1. Init => chain \in Seq(Block) /\ last \in Nat /\ retries \in 0 .. Retries
    BY DEF Init
  <2> QED  BY <2>1 DEF Init, TypeOK, Block
<1>2. TypeOK /\ [Next]_vars => TypeOK'
  <2> SUFFICES ASSUME TypeOK, [Next]_vars PROVE TypeOK'
    OBVIOUS
  <2>1. CASE AddBlock \/ \E k \in 1 .. MaxReorg : Reorganise(k)
    <3>1. chain' \in Seq(Block)
      BY <2>1, BlocksStay DEF Chain
    <3>2. deep' \in Nat
      BY <2>1, BlocksStay
    <3>3. UNCHANGED <<faults, last, rows, pc, toBlock, batchFrom, retries, found>>
      BY <2>1 DEF AddBlock, Reorganise, dbVars, scanVars
    <3>4. reorgs' = reorgs \/ reorgs' = reorgs + 1
      BY <2>1 DEF AddBlock, Reorganise
    <3>5. reorgs' \in Nat
      BY <3>4 DEF TypeOK
    <3> QED  BY <3>1, <3>2, <3>3, <3>5 DEF TypeOK, Block
  <2>2. CASE BeginScan
    <3>1. ScanTo \in Nat
      BY <2>2 DEF BeginScan, ScanTo, TypeOK
    <3> QED  BY <2>2, <3>1 DEF BeginScan, TypeOK, chainVars, dbVars
  <2>3. CASE FetchBatch
    <3>1. EventsIn(batchFrom, BatchTo) \subseteq Log
      BY InType DEF EventsIn, In, BatchTo, Smaller, TypeOK
    <3>2. BatchTo + 1 \in Nat
      BY DEF BatchTo, Smaller, TypeOK
    <3> QED  BY <2>3, <3>1, <3>2 DEF FetchBatch, TypeOK, chainVars, dbVars
  <2>4. CASE FetchIsRetried
    BY <2>4 DEF FetchIsRetried, Fault, TypeOK, chainVars, dbVars
  <2>5. CASE ScanRaises
    BY <2>5 DEF ScanRaises, RollBack, EndScan, Fault, TypeOK, chainVars, dbVars
  <2>6. CASE CommitScan
    BY <2>6 DEF CommitScan, EndScan, TypeOK, chainVars
  <2>7. CASE CommitFails
    BY <2>7 DEF CommitFails, RollBack, EndScan, TypeOK, chainVars, dbVars
  <2>8. CASE NothingToScan \/ UNCHANGED vars
    BY <2>8 DEF NothingToScan, vars, chainVars, dbVars, scanVars, TypeOK
  <2> QED
    BY <2>1, <2>2, <2>3, <2>4, <2>5, <2>6, <2>7, <2>8 DEF Next, ScanNext
<1> QED  BY <1>1, <1>2, PTL DEF Spec

-----------------------------------------------------------------------------
(* Initially nothing has been scanned and nothing has been recorded.        *)
LEMMA ScanInvariantInit == Init => ScanInvariant
<1> SUFFICES ASSUME Init PROVE ScanInvariant
  OBVIOUS
<1>1. EventsIn(StartBlock + 1, last) = {}
  BY ScannerAssumption, InEmpty DEF Init, EventsIn, In
<1> QED  BY <1>1, ScannerAssumption DEF Init, ScanInvariant, RowsMatchChain

(* Blocks as deep as the margin stay, and with them all that a scan has     *)
(* recorded or found.                                                       *)
LEMMA ChainKeepsScanInvariant ==
    ASSUME TypeOK, ScanInvariant,
           AddBlock \/ \E k \in 1 .. MaxReorg : Reorganise(k)
    PROVE  ScanInvariant'
<1> USE ScannerAssumption
<1>0. UNCHANGED <<last, rows, pc, toBlock, batchFrom, found>>
  BY DEF AddBlock, Reorganise, dbVars, scanVars
<1>1. /\ chain \in Chain /\ chain' \in Chain
      /\ Len(chain) \in Nat /\ Len(chain') \in Nat
      /\ Len(chain') >= Len(chain)
      /\ deep' = 0 => /\ deep = 0
                      /\ \A b \in 1 .. Len(chain) - Margin : chain'[b] = chain[b]
  BY BlocksStay DEF TypeOK, Chain, Block
<1>2. ASSUME deep' = 0, NEW from \in Nat \ {0}, NEW to \in Nat, to + Margin <= Len(chain)
      PROVE  In(chain', deep', from, to) = In(chain, deep, from, to)
  <2>1. to <= Len(chain) /\ to <= Len(chain') /\ \A b \in 1 .. to : chain'[b] = chain[b]
    BY <1>1, <1>2
  <2>2. deep' = deep
    BY <1>1, <1>2
  <2> QED  BY <1>1, <2>1, <2>2, InStable
<1>3. ASSUME deep' = 0
      PROVE  rows = In(chain', deep', StartBlock + 1, last)
  <2>1. rows = In(chain, deep, StartBlock + 1, last)
    BY <1>1, <1>3 DEF ScanInvariant, RowsMatchChain, EventsIn, In
  <2>2. CASE last = StartBlock
    <3>1. In(chain, deep, StartBlock + 1, last) = {} /\ In(chain', deep', StartBlock + 1, last) = {}
      BY <2>2 DEF In, TypeOK
    <3> QED  BY <2>1, <3>1
  <2>3. CASE last > StartBlock
    <3>1. last + Margin <= Len(chain)
      BY <2>3 DEF ScanInvariant
    <3> QED  BY <2>1, <3>1, <1>2, <1>3 DEF TypeOK
  <2> QED  BY <2>2, <2>3 DEF ScanInvariant, TypeOK
<1>4. ASSUME deep' = 0, pc = "fetch"
      PROVE  found = In(chain', deep', last + 1, batchFrom - 1)
  <2>1. found = In(chain, deep, last + 1, batchFrom - 1)
    BY <1>1, <1>4 DEF ScanInvariant, EventsIn, In
  <2>2. batchFrom - 1 \in Nat /\ batchFrom - 1 + Margin <= Len(chain)
    BY <1>1, <1>4 DEF ScanInvariant, TypeOK
  <2> QED  BY <2>1, <2>2, <1>2, <1>4 DEF TypeOK
<1>5. deep' = 0 => rows' = EventsIn(StartBlock + 1, last)'
  BY <1>0, <1>3 DEF EventsIn, In
<1>6. deep' = 0 /\ pc' = "fetch" => found' = EventsIn(last + 1, batchFrom - 1)'
  BY <1>0, <1>4 DEF EventsIn, In
<1> QED  BY <1>0, <1>1, <1>5, <1>6 DEF ScanInvariant, RowsMatchChain, TypeOK

(* A batch adds the events of its blocks and of no others.                  *)
LEMMA FetchKeepsScanInvariant ==
    ASSUME TypeOK, ScanInvariant, FetchBatch
    PROVE  ScanInvariant'
<1> USE ScannerAssumption
<1>0. /\ pc = "fetch" /\ batchFrom <= toBlock
      /\ found' = found \cup EventsIn(batchFrom, BatchTo)
      /\ batchFrom' = BatchTo + 1
      /\ UNCHANGED <<chain, deep, last, rows, pc, toBlock>>
  BY DEF FetchBatch, chainVars, dbVars
<1>1. BatchTo \in Nat /\ batchFrom <= BatchTo /\ BatchTo <= toBlock
  BY <1>0 DEF BatchTo, Smaller, TypeOK
<1>2. (deep = 0 => found = In(chain, deep, last + 1, batchFrom - 1)) /\ last + 1 <= batchFrom
  BY <1>0 DEF ScanInvariant, EventsIn, In, TypeOK
<1>3. In(chain, deep, last + 1, BatchTo)
        = In(chain, deep, last + 1, batchFrom - 1) \cup In(chain, deep, batchFrom, BatchTo)
  <2>1. /\ chain \in Chain /\ last + 1 \in Nat /\ batchFrom - 1 \in Nat
        /\ last + 1 <= (batchFrom - 1) + 1 /\ batchFrom - 1 <= BatchTo
        /\ (batchFrom - 1) + 1 = batchFrom
    BY <1>0, <1>1, <1>2 DEF TypeOK, Chain, Block
  <2> QED  BY <2>1, <1>1, InSplit
<1>4. deep = 0 => found' = In(chain, deep, last + 1, BatchTo)
  BY <1>0, <1>2, <1>3 DEF EventsIn, In
<1>5. batchFrom' - 1 = BatchTo
  BY <1>0, <1>1
<1>6. deep' = 0 => found' = EventsIn(last + 1, batchFrom - 1)'
  BY <1>0, <1>4, <1>5 DEF EventsIn, In
<1>7. RowsMatchChain'
  BY <1>0 DEF ScanInvariant, RowsMatchChain, EventsIn
<1> QED  BY <1>0, <1>1, <1>2, <1>6, <1>7 DEF ScanInvariant, TypeOK

(* The commit adds what the scan has found to what was recorded, and moves  *)
(* the last scanned block to where the scan has ended.                      *)
LEMMA CommitKeepsScanInvariant ==
    ASSUME TypeOK, ScanInvariant, CommitScan
    PROVE  ScanInvariant'
<1> USE ScannerAssumption
<1>0. /\ pc = "fetch" /\ batchFrom > toBlock /\ pc' = "idle"
      /\ rows' = rows \cup found /\ last' = toBlock /\ UNCHANGED <<chain, deep>>
  BY DEF CommitScan, EndScan, chainVars
<1>1. batchFrom - 1 = toBlock /\ toBlock > last /\ last >= StartBlock
  BY <1>0 DEF ScanInvariant, TypeOK
<1>2. deep = 0 => /\ found = In(chain, deep, last + 1, toBlock)
               /\ rows = In(chain, deep, StartBlock + 1, last)
  BY <1>0, <1>1 DEF ScanInvariant, RowsMatchChain, EventsIn, In
<1>3. In(chain, deep, StartBlock + 1, toBlock)
        = In(chain, deep, StartBlock + 1, last) \cup In(chain, deep, last + 1, toBlock)
  <2>1. chain \in Chain /\ StartBlock + 1 \in Nat /\ last \in Nat /\ toBlock \in Nat
    BY DEF TypeOK, Chain, Block
  <2> QED  BY <2>1, <1>1, InSplit
<1>4. deep' = 0 => rows' = EventsIn(StartBlock + 1, last)'
  BY <1>0, <1>2, <1>3 DEF EventsIn, In
<1>5. toBlock + Margin <= Len(chain)
  BY <1>0 DEF ScanInvariant
<1> QED  BY <1>0, <1>1, <1>4, <1>5 DEF ScanInvariant, RowsMatchChain, TypeOK

(* The inductive invariant of the scanner. *)
THEOREM ScanInvariantHolds == Spec => []ScanInvariant
<1> USE ScannerAssumption
<1>1. TypeOK /\ ScanInvariant /\ [Next]_vars => ScanInvariant'
  <2> SUFFICES ASSUME TypeOK, ScanInvariant, [Next]_vars PROVE ScanInvariant'
    OBVIOUS
  <2>1. CASE AddBlock \/ \E k \in 1 .. MaxReorg : Reorganise(k)
    BY <2>1, ChainKeepsScanInvariant
  <2>2. CASE BeginScan
    <3>1. /\ pc' = "fetch" /\ toBlock' = Len(chain) - Margin /\ batchFrom' = last + 1
          /\ found' = {} /\ last + 1 <= Len(chain) - Margin
          /\ UNCHANGED <<chain, deep, last, rows>>
      BY <2>2 DEF BeginScan, ScanTo, chainVars, dbVars
    <3>2. In(chain, deep, last + 1, last) = {} /\ batchFrom' - 1 = last
      BY <3>1, InEmpty DEF TypeOK
    <3>3. found' = EventsIn(last + 1, batchFrom - 1)'
      BY <3>1, <3>2 DEF EventsIn, In
    <3>4. RowsMatchChain'
      BY <3>1 DEF ScanInvariant, RowsMatchChain, EventsIn
    <3> QED  BY <3>1, <3>3, <3>4 DEF ScanInvariant, TypeOK
  <2>3. CASE FetchBatch
    BY <2>3, FetchKeepsScanInvariant
  <2>4. CASE FetchIsRetried
    BY <2>4 DEF FetchIsRetried, ScanInvariant, RowsMatchChain, EventsIn, chainVars, dbVars
  <2>5. CASE ScanRaises \/ CommitFails
    BY <2>5 DEF ScanRaises, CommitFails, RollBack, EndScan, ScanInvariant, RowsMatchChain,
                EventsIn, chainVars, dbVars
  <2>6. CASE CommitScan
    BY <2>6, CommitKeepsScanInvariant
  <2>7. CASE NothingToScan \/ UNCHANGED vars
    BY <2>7 DEF NothingToScan, vars, chainVars, dbVars, scanVars, ScanInvariant,
                RowsMatchChain, EventsIn
  <2> QED
    BY <2>1, <2>2, <2>3, <2>4, <2>5, <2>6, <2>7 DEF Next, ScanNext
<1> QED  BY <1>1, ScanInvariantInit, TypeCorrect, PTL DEF Spec

(* Unless a reorganisation was deeper than block_safety_margin, the rows of *)
(* the database are the events of the scanned blocks, for good.             *)
THEOREM RowsAreTheEvents == Spec => []RowsMatchChain
<1>1. ScanInvariant => RowsMatchChain
  BY DEF ScanInvariant
<1> QED  BY <1>1, ScanInvariantHolds, PTL

-----------------------------------------------------------------------------
(* Rows of one event *)

(* A chain that comes of adding a block, or of a reorganisation, has no     *)
(* event twice either.                                                      *)
LEMMA OnceStays ==
    ASSUME TypeOK, EventsAreOnChainOnce,
           AddBlock \/ \E k \in 1 .. MaxReorg : Reorganise(k)
    PROVE  EventsAreOnChainOnce'
<1>0. chain \in Chain
  BY DEF TypeOK, Chain, Block
<1>1. CASE AddBlock
  <2>1. PICK logs \in Blocks(Event \ OnChain(chain)) : chain' = Append(chain, logs)
    BY <1>1 DEF AddBlock
  <2>2. /\ \A l \in logs : l[1] \notin OnChain(chain)
        /\ \A l, m \in logs : l[1] = m[1] => l = m
    BY <2>1, BlocksType
  <2>3. \A b \in DOMAIN chain : \A l \in chain[b] : l[1] \in OnChain(chain)
    BY DEF OnChain
  <2>4. /\ DOMAIN chain = 1 .. Len(chain) /\ DOMAIN chain' = 1 .. Len(chain) + 1
        /\ \A b \in DOMAIN chain : chain'[b] = chain[b]
        /\ chain'[Len(chain) + 1] = logs
    BY <1>0, <2>1 DEF Chain
  <2>5. \A b \in DOMAIN chain' : b \in DOMAIN chain \/ b = Len(chain) + 1
    BY <1>0, <2>4 DEF Chain
  <2> SUFFICES ASSUME NEW b \in DOMAIN chain', NEW c \in DOMAIN chain',
                      NEW l \in chain'[b], NEW m \in chain'[c], l[1] = m[1]
               PROVE  b = c /\ l = m
    BY DEF EventsAreOnChainOnce
  <2>6. CASE b \in DOMAIN chain /\ c \in DOMAIN chain
    BY <2>4, <2>6 DEF EventsAreOnChainOnce
  <2>7. CASE b \in DOMAIN chain /\ c = Len(chain) + 1
    BY <2>2, <2>3, <2>4, <2>7
  <2>8. CASE b = Len(chain) + 1 /\ c \in DOMAIN chain
    BY <2>2, <2>3, <2>4, <2>8
  <2>9. CASE b = Len(chain) + 1 /\ c = Len(chain) + 1
    BY <2>2, <2>4, <2>9
  <2> QED  BY <2>5, <2>6, <2>7, <2>8, <2>9
<1>2. CASE \E k \in 1 .. MaxReorg : Reorganise(k)
  <2>1. PICK k \in 1 .. MaxReorg : Reorganise(k)
    BY <1>2
  <2> DEFINE stem == SubSeq(chain, 1, Len(chain) - k)
             n == Len(chain) - k
  <2>2. k <= Len(chain) /\ k \in Nat \ {0} /\ n \in Nat
    BY <1>0, <2>1 DEF Reorganise, Chain
  <2>3. PICK branch \in [1 .. k + 1 -> Blocks(Event \ OnChain(stem))] :
           /\ \A i, j \in 1 .. k + 1 : i # j =>
                 \A l \in branch[i], m \in branch[j] : l[1] # m[1]
           /\ chain' = stem \o branch
    BY <2>1 DEF Reorganise
  <2>4. /\ stem \in Chain /\ Len(stem) = n /\ DOMAIN stem = 1 .. n
        /\ \A b \in 1 .. n : b \in DOMAIN chain /\ stem[b] = chain[b]
    BY <1>0, <2>2 DEF Chain
  <2>5. /\ branch \in Chain /\ Len(branch) = k + 1
        /\ \A i \in 1 .. k + 1 : /\ \A l \in branch[i] : l[1] \notin OnChain(stem)
                                 /\ \A l, m \in branch[i] : l[1] = m[1] => l = m
    <3>1. branch \in [1 .. k + 1 -> Block]
      BY <2>3, BlocksType
    <3>2. \A i \in 1 .. k + 1 : branch[i] \in Blocks(Event \ OnChain(stem))
      BY <2>3
    <3>3. branch \in Chain /\ Len(branch) = k + 1
      BY <3>1, <2>2 DEF Chain
    <3> QED  BY <3>2, <3>3, BlocksType
  <2>6. \A b \in 1 .. n : \A l \in stem[b] : l[1] \in OnChain(stem)
    BY <2>4 DEF OnChain
  <2> HIDE DEF stem, n
  <2>7. /\ chain' \in Seq(Block)
        /\ Len(chain') = n + (k + 1)
        /\ \A i \in 1 .. n + (k + 1) :
               chain'[i] = IF i <= n THEN stem[i] ELSE branch[i - n]
    <3>1. stem \in Seq(Block) /\ branch \in Seq(Block)
      BY <2>4, <2>5 DEF Chain
    <3>2. /\ stem \o branch \in Seq(Block)
          /\ Len(stem \o branch) = Len(stem) + Len(branch)
          /\ \A i \in 1 .. Len(stem) + Len(branch) : (stem \o branch)[i] =
                 IF i <= Len(stem) THEN stem[i] ELSE branch[i - Len(stem)]
      BY ONLY <3>1, ConcatProperties, Zenon
    <3> QED  BY <3>2, <2>3, <2>4, <2>5, Zenon
  <2>8. \A b \in DOMAIN chain' : \/ b \in 1 .. n /\ chain'[b] = stem[b]
                                 \/ b - n \in 1 .. k + 1 /\ chain'[b] = branch[b - n]
    BY <2>2, <2>7
  <2>9. \A b, c \in DOMAIN chain' : b \in Int /\ c \in Int /\ (b - n = c - n => b = c)
    BY <2>2, <2>7
  <2>10. \A b, c \in 1 .. n : \A l \in stem[b], m \in stem[c] : l[1] = m[1] => b = c /\ l = m
    BY <2>4 DEF EventsAreOnChainOnce
  <2> SUFFICES ASSUME NEW b \in DOMAIN chain', NEW c \in DOMAIN chain',
                      NEW l \in chain'[b], NEW m \in chain'[c], l[1] = m[1]
               PROVE  b = c /\ l = m
    BY DEF EventsAreOnChainOnce
  <2>11. CASE b \in 1 .. n /\ chain'[b] = stem[b]
    <3>1. l[1] \in OnChain(stem)
      BY <2>6, <2>11
    <3>2. ~(c - n \in 1 .. k + 1 /\ chain'[c] = branch[c - n])
      BY <2>5, <3>1
    <3>3. c \in 1 .. n /\ chain'[c] = stem[c]
      BY <2>8, <3>2
    <3> QED  BY <2>10, <2>11, <3>3
  <2>12. CASE b - n \in 1 .. k + 1 /\ chain'[b] = branch[b - n]
    <3>1. l[1] \notin OnChain(stem)
      BY <2>5, <2>12
    <3>2. ~(c \in 1 .. n /\ chain'[c] = stem[c])
      BY <2>6, <3>1
    <3>3. c - n \in 1 .. k + 1 /\ chain'[c] = branch[c - n]
      BY <2>8, <3>2
    <3>4. b - n = c - n
      BY <2>3, <2>12, <3>3
    <3> QED  BY <2>5, <2>9, <2>12, <3>3, <3>4
  <2> QED  BY <2>8, <2>11, <2>12
<1> QED  BY <1>1, <1>2

(* A batch finds logs that are on the chain, behind the margin.             *)
LEMMA FetchKeepsEraInvariant ==
    ASSUME TypeOK, ScanInvariant, EraInvariant, FetchBatch
    PROVE  EraInvariant'
<1> USE ScannerAssumption
<1>0. /\ pc = "fetch" /\ batchFrom <= toBlock
      /\ found' = found \cup EventsIn(batchFrom, BatchTo)
      /\ UNCHANGED <<chain, deep, rows>>
  BY DEF FetchBatch, chainVars, dbVars
<1>1. BatchTo \in Nat /\ BatchTo <= toBlock /\ toBlock + Margin <= Len(chain)
  BY <1>0 DEF BatchTo, Smaller, TypeOK, ScanInvariant
<1>2. \A r \in EventsIn(batchFrom, BatchTo) :
         /\ r.era = deep /\ r.event \in Event /\ r.index \in LogIndex
         /\ r.block \in batchFrom .. BatchTo
         /\ r.block \in DOMAIN chain
         /\ <<r.event, r.index>> \in chain[r.block]
         /\ r = [block |-> r.block, event |-> r.event, index |-> r.index, era |-> r.era]
  BY DEF EventsIn
<1>3. \A r \in EventsIn(batchFrom, BatchTo) : r.block + Margin <= Len(chain)
  <2>1. Len(chain) \in Nat /\ batchFrom \in Nat /\ toBlock \in Nat
    BY DEF TypeOK
  <2> SUFFICES ASSUME NEW r \in EventsIn(batchFrom, BatchTo) PROVE r.block + Margin <= Len(chain)
    OBVIOUS
  <2>2. r.block \in batchFrom .. BatchTo
    BY <1>2
  <2> QED  BY <1>1, <2>1, <2>2
<1>4. EventsAreOnChainOnce'
  BY <1>0 DEF EraInvariant, EventsAreOnChainOnce
<1>5. NewestEraIsOnChain'
  <2>0. deep \in Nat
    BY DEF TypeOK
  <2>1. ASSUME NEW r \in EventsIn(batchFrom, BatchTo) PROVE r.era <= deep
    <3>1. r.era = deep
      BY <1>2
    <3> QED  BY <2>0, <3>1
  <2> QED  BY <1>0, <1>2, <1>3, <2>1 DEF EraInvariant, NewestEraIsOnChain
<1>6. ASSUME NEW r \in rows \cup found', NEW s \in EventsIn(batchFrom, BatchTo),
             r.event = s.event, r.era = s.era
      PROVE  r = s
  <2>1. r.era = deep /\ s.era = deep
    BY <1>2, <1>6
  <2>2. /\ r.block \in DOMAIN chain /\ <<r.event, r.index>> \in chain[r.block]
        /\ s.block \in DOMAIN chain /\ <<s.event, s.index>> \in chain[s.block]
    BY <1>0, <1>5, <1>2, <2>1 DEF NewestEraIsOnChain
  <2>3. r.block = s.block /\ <<r.event, r.index>> = <<s.event, s.index>>
    <3>1. <<r.event, r.index>>[1] = <<s.event, s.index>>[1]
      BY <1>6
    <3> QED  BY <2>2, <3>1 DEF EraInvariant, EventsAreOnChainOnce
  <2>4. r.index = s.index
    BY <2>3
  <2>5. /\ r = [block |-> r.block, event |-> r.event, index |-> r.index, era |-> r.era]
        /\ s = [block |-> s.block, event |-> s.event, index |-> s.index, era |-> s.era]
    <3>1. r \in rows \/ r \in found => r \in Log
      BY DEF TypeOK
    <3> QED  BY <3>1, <1>0, <1>2, <1>6 DEF Log
  <2> QED  BY <1>6, <2>3, <2>4, <2>5
<1>7. \A r, s \in rows \cup found' : r.event = s.event /\ r.era = s.era => r = s
  BY <1>0, <1>6 DEF EraInvariant
<1> QED  BY <1>0, <1>4, <1>5, <1>7 DEF EraInvariant

(* A reorganisation takes back logs only of a past era: a deep one begins   *)
(* the next, and others do not reach behind the margin.                     *)
LEMMA ChainKeepsEraInvariant ==
    ASSUME TypeOK, EraInvariant,
           AddBlock \/ \E k \in 1 .. MaxReorg : Reorganise(k)
    PROVE  EraInvariant'
<1> USE ScannerAssumption
<1>0. UNCHANGED <<rows, found>>
  BY DEF AddBlock, Reorganise, dbVars, scanVars
<1>1. /\ chain \in Chain /\ chain' \in Chain
      /\ Len(chain) \in Nat /\ Len(chain') \in Nat /\ Len(chain') >= Len(chain)
      /\ deep' \in Nat /\ deep' >= deep
      /\ deep' = deep => \A b \in 1 .. Len(chain) - Margin : chain'[b] = chain[b]
  BY BlocksStay DEF TypeOK, Chain, Block
<1>2. NewestEraIsOnChain'
  <2> SUFFICES ASSUME NEW r \in rows \cup found
               PROVE  /\ r.era <= deep'
                      /\ r.block + Margin <= Len(chain')
                      /\ r.era = deep' => /\ r.block \in DOMAIN chain'
                                          /\ <<r.event, r.index>> \in chain'[r.block]
    BY <1>0 DEF NewestEraIsOnChain
  <2>1. r \in Log /\ r.era \in Nat /\ r.block \in Nat
    BY DEF TypeOK, Log
  <2>2. /\ r.era <= deep /\ r.block + Margin <= Len(chain)
        /\ r.era = deep => r.block \in DOMAIN chain /\ <<r.event, r.index>> \in chain[r.block]
    BY DEF EraInvariant, NewestEraIsOnChain
  <2>3. ASSUME r.era = deep'
        PROVE  r.block \in DOMAIN chain' /\ <<r.event, r.index>> \in chain'[r.block]
    <3>1. deep' = deep /\ r.era = deep
      BY <1>1, <2>1, <2>2, <2>3 DEF TypeOK
    <3>2. r.block \in 1 .. Len(chain) - Margin /\ r.block \in 1 .. Len(chain')
      BY <1>1, <2>1, <2>2, <3>1 DEF Chain
    <3>3. DOMAIN chain' = 1 .. Len(chain')
      BY <1>1 DEF Chain
    <3> QED  BY <1>1, <2>2, <3>1, <3>2, <3>3
  <2> QED  BY <1>1, <2>1, <2>2, <2>3 DEF TypeOK
<1>3. EventsAreOnChainOnce'
  BY OnceStays DEF EraInvariant
<1> QED  BY <1>0, <1>2, <1>3 DEF EraInvariant

(* The inductive invariant about the rows of one event. *)
THEOREM EraInvariantHolds == Spec => []EraInvariant
<1>1. Init => EraInvariant
  BY DEF Init, EraInvariant, EventsAreOnChainOnce, NewestEraIsOnChain
<1>2. TypeOK /\ ScanInvariant /\ EraInvariant /\ [Next]_vars => EraInvariant'
  <2> SUFFICES ASSUME TypeOK, ScanInvariant, EraInvariant, [Next]_vars PROVE EraInvariant'
    OBVIOUS
  <2>1. CASE AddBlock \/ \E k \in 1 .. MaxReorg : Reorganise(k)
    BY <2>1, ChainKeepsEraInvariant
  <2>2. CASE FetchBatch
    BY <2>2, FetchKeepsEraInvariant
  <2>3. CASE UNCHANGED <<chain, deep>> /\ (rows \cup found)' \subseteq rows \cup found
    BY <2>3 DEF EraInvariant, EventsAreOnChainOnce, NewestEraIsOnChain
  <2>4. CASE ScanNext /\ ~FetchBatch
    <3>1. CASE CommitScan
      BY <3>1, <2>3 DEF CommitScan, EndScan, chainVars
    <3>2. CASE ~CommitScan
      BY <2>3, <2>4, <3>2 DEF ScanNext, BeginScan, NothingToScan, FetchIsRetried, ScanRaises,
                        CommitFails, RollBack, EndScan, vars, chainVars, dbVars, scanVars
    <3> QED  BY <3>1, <3>2
  <2>5. CASE UNCHANGED vars
    BY <2>3, <2>5 DEF vars, chainVars, dbVars, scanVars
  <2> QED  BY <2>1, <2>2, <2>4, <2>5 DEF Next
<1> QED  BY <1>1, <1>2, TypeCorrect, ScanInvariantHolds, PTL DEF Spec

(* An event becomes a second row only when a reorganisation was deeper than *)
(* block_safety_margin since the first was found.                           *)
THEOREM SecondRowsNeedDeepReorganisations == Spec => []SecondRowNeedsDeepReorganisation
<1>1. EraInvariant => SecondRowNeedsDeepReorganisation
  BY DEF EraInvariant, SecondRowNeedsDeepReorganisation
<1> QED  BY <1>1, EraInvariantHolds, PTL
=============================================================================

--------------------------- MODULE TapToRskProofs ---------------------------
(***************************************************************************)
(* Proofs about TapToRsk, for any number of nodes, deposits and required   *)
(* signers, any homes of the deposits and any number of incidents.         *)
(***************************************************************************)
EXTENDS TapToRsk, TLAPS, FiniteSetTheorems, SequenceTheorems, WellFoundedInduction

(* Where a node is in its iteration, and what its current batch is there.   *)
(* Only leaders get beyond the scan.                                        *)
StepOf(n) ==
    /\ pc[n] # "idle" => n \in leads
    /\ pc[n] \in {"ask", "send", "transact", "receipt"} => current[n] \in 1 .. Len(batches[n])
    /\ pc[n] = "ask" => batches[n][current[n]].status = "CREATED"
    /\ pc[n] = "send" => batches[n][current[n]].status = "SIGNATURES_COLLECTED"
    /\ pc[n] = "transact" => batches[n][current[n]].status = "SENDING_TO_RSK"
    /\ pc[n] = "receipt" => batches[n][current[n]].status = "SENT_TO_RSK"
    /\ pc[n] \in {"idle", "batch"} => collected[n] = NoSignatures
    /\ pc[n] \in {"idle", "batch", "ask", "send"} => sent[n] = <<>>

StepInv == \A n \in Node : StepOf(n)

(* The batches of node n cut its rows into pieces: batch i has those after  *)
(* the first cut[i - 1] up to the first cut[i].  A batch signed for another *)
(* node has none.                                                           *)
IsCut(n, cut) ==
    /\ cut \in [0 .. Len(batches[n]) -> Nat]
    /\ cut[0] = 0
    /\ cut[Len(batches[n])] <= Len(rows[n])
    /\ \A i, j \in 0 .. Len(batches[n]) : i <= j => cut[i] <= cut[j]
    /\ \A k \in 1 .. cut[Len(batches[n])] :
          \E i \in 1 .. Len(batches[n]) : cut[i - 1] < k /\ k <= cut[i]
    /\ \A i \in 1 .. Len(batches[n]) :
          /\ Len(batches[n][i].transfers) = cut[i] - cut[i - 1]
          /\ \A k \in 1 .. Len(batches[n][i].transfers) :
                batches[n][i].transfers[k] = rows[n][cut[i - 1] + k]

(* A node has one row for each deposit it has recorded, all on addresses it *)
(* gave out.                                                                *)
RowsOf(n) ==
    /\ \A j, k \in 1 .. Len(rows[n]) : rows[n][j] = rows[n][k] => j = k
    /\ \A k \in 1 .. Len(rows[n]) : Home[rows[n][k]] = n

RowsInv == \A n \in Node : RowsOf(n)

CutInv == \A n \in Node : \E cut : IsCut(n, cut)

LoopInv == TypeOK /\ StepInv /\ RowsInv /\ CutInv

-----------------------------------------------------------------------------
(* Facts about sets, batches and signatures *)

LEMMA MinIsLeast ==
  ASSUME NEW S \in SUBSET Nat, S # {}
  PROVE  Min(S) \in S /\ \A y \in S : Min(S) <= y
<1>1. \E x \in S : \A y \in S : x <= y
  <2>1. PICK x \in S : \A y \in S : <<y, x>> \notin OpToRel(<, Nat)
    BY NatLessThanWellFounded, WFMin
  <2>2. ASSUME NEW y \in S
        PROVE  x <= y
    <3>1. <<y, x>> \in Nat \X Nat /\ <<y, x>>[1] = y /\ <<y, x>>[2] = x
      OBVIOUS
    <3>2. ~(y < x)
      BY <2>1, <3>1 DEF OpToRel
    <3>3. QED
      BY <3>2
  <2>3. QED
    BY <2>2
<1>2. QED
  BY <1>1 DEF Min

LEMMA BatchesAreTyped ==
  ASSUME TypeOK, NEW n \in Node
  PROVE  /\ batches[n] \in Seq(Batch) /\ Len(batches[n]) \in Nat
         /\ DOMAIN batches[n] = 1 .. Len(batches[n])
         /\ \A i \in 1 .. Len(batches[n]) :
               /\ batches[n][i] \in Batch
               /\ batches[n][i].transfers \in Seq(Deposit)
               /\ batches[n][i].status \in Status
               /\ batches[n][i].signatures \in Signatures
               /\ batches[n][i].tx \in Nat
<1>1. batches[n] \in Seq(Batch)
  BY DEF TypeOK
<1>2. \A i \in 1 .. Len(batches[n]) : batches[n][i] \in Batch
  BY <1>1
<1>3. QED
  BY <1>1, <1>2 DEF Batch

(* A signer has a sequence of signatures. *)
LEMMA SignersSign ==
  ASSUME NEW signatures \in Signatures
  PROVE  /\ Signers(signatures) \subseteq Node
         /\ \A s \in Node : s \in Signers(signatures) <=> signatures[s] # NoSignature
         /\ \A s \in Signers(signatures) : signatures[s] \in Seq(Deposit)
BY DEF Signers, Signatures

LEMMA NumCallsBounds ==
  ASSUME NEW b \in Batch
  PROVE  /\ NumCalls(b) \in Nat
         /\ NumCalls(b) <= Len(b.transfers)
         /\ \A s \in Signers(b.signatures) : NumCalls(b) <= Len(b.signatures[s])
         /\ Signers(b.signatures) = {} => NumCalls(b) = 0
         /\ Signers(b.signatures) # {} /\ (\A s \in Signers(b.signatures) :
               Len(b.signatures[s]) >= Len(b.transfers)) => NumCalls(b) = Len(b.transfers)
<1> DEFINE S == Signers(b.signatures)
           lengths == {Len(b.transfers)} \cup {Len(b.signatures[s]) : s \in S}
<1>1. b.transfers \in Seq(Deposit) /\ b.signatures \in Signatures
  BY DEF Batch
<1>2. \A s \in S : b.signatures[s] \in Seq(Deposit)
  BY <1>1, SignersSign
<1>3. \A s \in S : Len(b.signatures[s]) \in Nat
  BY <1>2
<1>4. lengths \in SUBSET Nat /\ lengths # {} /\ Len(b.transfers) \in lengths
      /\ \A s \in S : Len(b.signatures[s]) \in lengths
  BY <1>1, <1>3
<1>5. Min(lengths) \in lengths /\ \A y \in lengths : Min(lengths) <= y
  BY <1>4, MinIsLeast
<1>6. NumCalls(b) = IF S = {} THEN 0 ELSE Min(lengths)
  BY DEF NumCalls
<1>7. ASSUME \A s \in S : Len(b.signatures[s]) >= Len(b.transfers)
      PROVE  Min(lengths) = Len(b.transfers)
  <2>1. \A y \in lengths : y >= Len(b.transfers)
    BY <1>1, <1>7
  <2>2. Min(lengths) >= Len(b.transfers) /\ Min(lengths) <= Len(b.transfers)
    BY <1>4, <1>5, <2>1
  <2>3. Min(lengths) \in Nat /\ Len(b.transfers) \in Nat
    BY <1>1, <1>4, <1>5
  <2> HIDE DEF lengths
  <2>4. QED
    BY <2>2, <2>3
<1> HIDE DEF lengths
<1>8. CASE S = {}
  BY <1>1, <1>6, <1>8
<1>9. CASE S # {}
  <2>1. NumCalls(b) = Min(lengths)
    BY <1>6, <1>9
  <2>2. NumCalls(b) \in Nat
    BY <1>4, <1>5, <2>1
  <2>3. QED
    BY <1>4, <1>5, <1>7, <1>9, <2>1, <2>2
<1>10. QED
  BY <1>8, <1>9

(* A change of the current batch of a node *)
LEMMA CurrentIsSet ==
  ASSUME TypeOK, NEW n \in Node, current[n] \in 1 .. Len(batches[n]),
         NEW b \in Batch, SetCurrent(n, b)
  PROVE  /\ batches' \in [Node -> Seq(Batch)]
         /\ \A o \in Node \ {n} : batches'[o] = batches[o]
         /\ Len(batches'[n]) = Len(batches[n])
         /\ \A i \in 1 .. Len(batches[n]) :
               batches'[n][i] = IF i = current[n] THEN b ELSE batches[n][i]
<1> DEFINE own == [batches[n] EXCEPT ![current[n]] = b]
<1>1. batches[n] \in Seq(Batch)
  BY BatchesAreTyped
<1>2. batches' = [batches EXCEPT ![n] = own]
  BY DEF SetCurrent
<1>3. /\ own \in Seq(Batch) /\ Len(own) = Len(batches[n])
      /\ \A i \in 1 .. Len(batches[n]) : own[i] = IF i = current[n] THEN b ELSE batches[n][i]
  BY <1>1
<1> HIDE DEF own
<1>4. batches'[n] = own /\ \A o \in Node \ {n} : batches'[o] = batches[o]
  BY <1>2 DEF TypeOK
<1>5. batches' \in [Node -> Seq(Batch)]
  BY <1>2, <1>3 DEF TypeOK
<1>6. QED
  BY <1>3, <1>4, <1>5

(* A batch added to those of a node *)
LEMMA BatchIsAdded ==
  ASSUME TypeOK, NEW n \in Node, NEW b \in Batch,
         batches' = [batches EXCEPT ![n] = Append(batches[n], b)]
  PROVE  /\ batches' \in [Node -> Seq(Batch)]
         /\ \A o \in Node \ {n} : batches'[o] = batches[o]
         /\ Len(batches'[n]) = Len(batches[n]) + 1
         /\ batches'[n][Len(batches[n]) + 1] = b
         /\ \A i \in 1 .. Len(batches[n]) : batches'[n][i] = batches[n][i]
<1>1. batches[n] \in Seq(Batch)
  BY BatchesAreTyped
<1>2. batches'[n] = Append(batches[n], b) /\ \A o \in Node \ {n} : batches'[o] = batches[o]
  BY DEF TypeOK
<1>3. Append(batches[n], b) \in Seq(Batch)
  BY <1>1
<1>4. batches' \in [Node -> Seq(Batch)]
  BY <1>3 DEF TypeOK
<1>5. QED
  BY <1>1, <1>2, <1>4

LEMMA AnswersAreTyped ==
  ASSUME TypeOK, NEW p \in Node, NEW b \in Batch
  PROVE  /\ AnswerOf(p, b) \in Seq(Deposit) \cup {NoSignature}
         /\ StoredBatch(p, b) \in Batch
<1>1. /\ b.transfers \in Seq(Deposit) /\ b.hash \in Seq(Deposit)
      /\ b.signatures \in Signatures
  BY DEF Batch
<1>2. b.signatures[p] \in Seq(Deposit) \cup {NoSignature}
  BY <1>1 DEF Signatures
<1>3. ASSUME Repeats(p, b)
      PROVE  batches[p][Min(Existing(p, b))].signatures[p] \in Seq(Deposit) \cup {NoSignature}
  <2>1. Existing(p, b) # {} /\ Existing(p, b) \subseteq 1 .. Len(batches[p])
    BY <1>3, BatchesAreTyped DEF Repeats, Existing
  <2>2. Existing(p, b) \in SUBSET Nat
    BY <2>1
  <2>3. Min(Existing(p, b)) \in 1 .. Len(batches[p])
    BY <2>1, <2>2, MinIsLeast
  <2>4. batches[p][Min(Existing(p, b))].signatures \in Signatures
    BY <2>3, BatchesAreTyped
  <2>5. QED
    BY <2>4 DEF Signatures
<1>4. AnswerOf(p, b) \in Seq(Deposit) \cup {NoSignature}
  BY <1>1, <1>2, <1>3 DEF AnswerOf
<1>5. StoredBatch(p, b) \in Batch
  <2>1. [b.signatures EXCEPT ![p] = b.transfers] \in Signatures
    BY <1>1 DEF Signatures
  <2>2. <<>> \in Seq(Deposit)
    OBVIOUS
  <2>3. QED
    BY <1>1, <2>1, <2>2 DEF StoredBatch, Batch, Status
<1>6. QED
  BY <1>4, <1>5

LEMMA IterationEnds ==
  ASSUME TypeOK, NEW n \in Node, EndIteration(n)
  PROVE  /\ pc' \in [Node -> Loop] /\ current' \in [Node -> Nat]
         /\ asked' \in [Node -> SUBSET Node] /\ collected' \in [Node -> Signatures]
         /\ sent' \in [Node -> Seq(Nat)] /\ known' \in [Node -> Known]
         /\ pc'[n] = "idle" /\ collected'[n] = NoSignatures /\ sent'[n] = <<>>
         /\ \A o \in Node \ {n} : /\ pc'[o] = pc[o] /\ current'[o] = current[o]
                                  /\ collected'[o] = collected[o] /\ sent'[o] = sent[o]
                                  /\ known'[o] = known[o]
<1>1. /\ "idle" \in Loop /\ NoSignatures \in Signatures /\ <<>> \in Seq(Nat)
      /\ [federators |-> {}, threshold |-> 0] \in Known
  BY DEF Loop, NoSignatures, Signatures, Known
<1>2. QED
  BY <1>1 DEF EndIteration, TypeOK

LEMMA NewBatchIsTyped ==
  ASSUME NEW transfers \in Seq(Deposit)
  PROVE  /\ NewBatch(transfers) \in Batch
         /\ NewBatch(transfers).transfers = transfers
         /\ NewBatch(transfers).status = "CREATED"
         /\ NewBatch(transfers).signatures = NoSignatures
BY DEF NewBatch, Batch, Status, NoSignatures, Signatures

(* The elements left of a sequence when the first m are taken out *)
Rest(s, left) ==
    [i \in 1 .. Cardinality(left) |->
        s[CHOOSE k \in left : Cardinality({j \in left : j <= k}) = i]]

LEMMA RestInOrder ==
  ASSUME NEW s, NEW m \in Nat, NEW r \in Nat, m <= r
  PROVE  Rest(s, m + 1 .. r) = [i \in 1 .. r - m |-> s[m + i]]
<1> DEFINE left == m + 1 .. r
           pos(i) == CHOOSE k \in left : Cardinality({j \in left : j <= k}) = i
<1>1. Cardinality(left) = r - m
  <2>1. m + 1 \in Int /\ r \in Int
    OBVIOUS
  <2>2. Cardinality(m + 1 .. r) = IF m + 1 > r THEN 0 ELSE r - (m + 1) + 1
    BY <2>1, FS_Interval, Zenon
  <2>3. QED
    BY <2>2
<1>2. ASSUME NEW k \in left
      PROVE  Cardinality({j \in left : j <= k}) = k - m
  <2>1. {j \in left : j <= k} = m + 1 .. k
    OBVIOUS
  <2>2. Cardinality(m + 1 .. k) = k - m
    BY FS_Interval
  <2>3. QED
    BY <2>1, <2>2
<1>3. ASSUME NEW i \in 1 .. r - m
      PROVE  pos(i) = m + i
  <2>1. m + i \in left
    OBVIOUS
  <2>2. \A k \in left : Cardinality({j \in left : j <= k}) = i <=> k = m + i
    BY <1>2
  <2>3. QED
    BY <2>1, <2>2
<1> HIDE DEF pos
<1>4. [i \in 1 .. Cardinality(left) |-> s[pos(i)]] = [i \in 1 .. r - m |-> s[m + i]]
  BY <1>1, <1>3
<1>5. QED
  BY <1>4 DEF pos, Rest

LEMMA SmallerOfTwo ==
  ASSUME NEW a \in Nat, NEW b \in Nat
  PROVE  /\ Min({a, b}) \in {a, b}
         /\ Min({a, b}) <= a /\ Min({a, b}) <= b
<1>1. \E x \in {a, b} : \A y \in {a, b} : x <= y
  OBVIOUS
<1>2. QED
  BY <1>1 DEF Min

-----------------------------------------------------------------------------
(* The transfers of a batch are rows of its own *)

LEMMA CutBounds ==
  ASSUME TypeOK, NEW n \in Node, NEW cut, IsCut(n, cut)
  PROVE  /\ Len(rows[n]) \in Nat /\ Len(batches[n]) \in Nat
         /\ cut[Len(batches[n])] \in Nat /\ cut[Len(batches[n])] <= Len(rows[n])
         /\ \A i \in 1 .. Len(batches[n]) :
               /\ cut[i - 1] \in Nat /\ cut[i] \in Nat
               /\ cut[i - 1] <= cut[i] /\ cut[i] <= cut[Len(batches[n])]
               /\ \A k \in 1 .. Len(batches[n][i].transfers) :
                     /\ cut[i - 1] + k \in 1 .. cut[i]
                     /\ cut[i - 1] + k \in 1 .. Len(rows[n])
<1> DEFINE num == Len(batches[n])
           max == Len(rows[n])
<1>1. num \in Nat /\ max \in Nat
  BY BatchesAreTyped DEF TypeOK
<1>2. /\ cut[num] \in Nat /\ cut[num] <= max
      /\ \A i \in 0 .. num : cut[i] \in Nat
      /\ \A i, j \in 0 .. num : i <= j => cut[i] <= cut[j]
  <2>1. /\ cut \in [0 .. num -> Nat] /\ cut[num] <= max
        /\ \A i, j \in 0 .. num : i <= j => cut[i] <= cut[j]
    BY Zenon DEF IsCut
  <2>2. num \in 0 .. num
    BY <1>1
  <2>3. QED
    BY <2>1, <2>2
<1>3. ASSUME NEW i \in 1 .. num
      PROVE  /\ cut[i - 1] \in Nat /\ cut[i] \in Nat
             /\ cut[i - 1] <= cut[i] /\ cut[i] <= cut[num]
             /\ \A k \in 1 .. Len(batches[n][i].transfers) :
                   cut[i - 1] + k \in 1 .. cut[i] /\ cut[i - 1] + k \in 1 .. max
  <2>1. i - 1 \in 0 .. num /\ i \in 0 .. num /\ num \in 0 .. num /\ i - 1 <= i /\ i <= num
    BY <1>1
  <2>2. /\ cut[i - 1] \in Nat /\ cut[i] \in Nat
        /\ cut[i - 1] <= cut[i] /\ cut[i] <= cut[num]
    BY <1>2, <2>1
  <2>3. Len(batches[n][i].transfers) = cut[i] - cut[i - 1]
    BY DEF IsCut
  <2> HIDE DEF num, max
  <2>4. QED
    BY <1>1, <1>2, <2>2, <2>3
<1>4. QED
  BY <1>1, <1>2, <1>3

(* A step that keeps the rows and transfers of a node, whatever it adds to  *)
(* the rows, keeps its cut.                                                 *)
LEMMA CutIsKept ==
  ASSUME TypeOK, NEW n \in Node, \E cut : IsCut(n, cut),
         Len(batches'[n]) = Len(batches[n]),
         \A i \in 1 .. Len(batches[n]) : batches'[n][i].transfers = batches[n][i].transfers,
         Len(rows'[n]) \in Nat, Len(rows[n]) <= Len(rows'[n]),
         \A k \in 1 .. Len(rows[n]) : rows'[n][k] = rows[n][k]
  PROVE  \E cut : IsCut(n, cut)'
<1>1. PICK cut : IsCut(n, cut)
  OBVIOUS
<1> DEFINE num == Len(batches[n])
<1>2. /\ Len(rows[n]) \in Nat /\ cut[num] \in Nat /\ cut[num] <= Len(rows[n])
      /\ \A i \in 1 .. num : \A k \in 1 .. Len(batches[n][i].transfers) :
            cut[i - 1] + k \in 1 .. Len(rows[n])
  BY <1>1, CutBounds
<1>3. cut[num] <= Len(rows'[n])
  BY <1>2
<1>4. \A i \in 1 .. num : \A k \in 1 .. Len(batches'[n][i].transfers) :
         batches'[n][i].transfers[k] = rows'[n][cut[i - 1] + k]
  <2> SUFFICES ASSUME NEW i \in 1 .. num, NEW k \in 1 .. Len(batches'[n][i].transfers)
               PROVE  batches'[n][i].transfers[k] = rows'[n][cut[i - 1] + k]
    OBVIOUS
  <2>1. k \in 1 .. Len(batches[n][i].transfers)
    OBVIOUS
  <2>2. cut[i - 1] + k \in 1 .. Len(rows[n])
    BY <1>2, <2>1
  <2>3. QED
    BY <1>1, <2>1, <2>2 DEF IsCut
<1>5. \A i \in 1 .. num : Len(batches'[n][i].transfers) = cut[i] - cut[i - 1]
  BY <1>1 DEF IsCut
<1>6. /\ cut \in [0 .. num -> Nat] /\ cut[0] = 0
      /\ \A i, j \in 0 .. num : i <= j => cut[i] <= cut[j]
      /\ \A k \in 1 .. cut[num] : \E i \in 1 .. num : cut[i - 1] < k /\ k <= cut[i]
  BY <1>1, Zenon DEF IsCut
<1>7. Len(batches'[n]) = num
  OBVIOUS
<1> HIDE DEF num
<1>8. IsCut(n, cut)'
  BY <1>3, <1>4, <1>5, <1>6, <1>7 DEF IsCut
<1>9. QED
  BY <1>8

(* A batch of the next rows makes a longer cut. *)
LEMMA CutIsLonger ==
  ASSUME TypeOK, NEW n \in Node, NEW cut, IsCut(n, cut),
         Len(batches'[n]) = Len(batches[n]) + 1, rows'[n] = rows[n],
         \A i \in 1 .. Len(batches[n]) : batches'[n][i] = batches[n][i],
         NEW size \in Nat, NEW transfers, Len(transfers) = size,
         cut[Len(batches[n])] + size <= Len(rows[n]),
         batches'[n][Len(batches[n]) + 1].transfers = transfers,
         \A k \in 1 .. size : transfers[k] = rows[n][cut[Len(batches[n])] + k]
  PROVE  \E c : IsCut(n, c)'
<1> DEFINE num == Len(batches[n])
           longer == [i \in 0 .. num + 1 |-> IF i <= num THEN cut[i] ELSE cut[num] + size]
<1>2. num \in Nat /\ cut[num] \in Nat /\ Len(rows[n]) \in Nat
  BY CutBounds
<1>3. /\ cut \in [0 .. num -> Nat] /\ cut[0] = 0
      /\ \A i, j \in 0 .. num : i <= j => cut[i] <= cut[j]
      /\ \A k \in 1 .. cut[num] : \E i \in 1 .. num : cut[i - 1] < k /\ k <= cut[i]
  BY Zenon DEF IsCut
<1>4. /\ Len(batches'[n]) = num + 1
      /\ \A i \in 1 .. num : batches'[n][i] = batches[n][i]
      /\ batches'[n][num + 1].transfers = transfers
      /\ cut[num] + size <= Len(rows[n])
      /\ \A k \in 1 .. size : transfers[k] = rows[n][cut[num] + k]
  OBVIOUS
<1> HIDE DEF num
<1>5. PICK next :
          /\ next \in [0 .. num + 1 -> Nat] /\ next[num + 1] = cut[num] + size
          /\ \A i \in 0 .. num : next[i] = cut[i] /\ cut[i] \in Nat
  <2>1. size \in Nat /\ cut[num] + size \in Nat
    BY <1>2
  <2>2. num + 1 \in 0 .. num + 1 /\ ~(num + 1 <= num)
    BY <1>2
  <2>3. \A i \in 0 .. num : cut[i] \in Nat /\ i <= num /\ i \in 0 .. num + 1
    BY <1>2, <1>3
  <2>4. \A i \in 0 .. num + 1 : i <= num => i \in 0 .. num
    BY <1>2
  <2>5. /\ longer \in [0 .. num + 1 -> Nat] /\ longer[num + 1] = cut[num] + size
        /\ \A i \in 0 .. num : longer[i] = cut[i] /\ cut[i] \in Nat
    BY <2>1, <2>2, <2>3, <2>4
  <2> HIDE DEF longer
  <2>6. QED
    BY <2>5
<1>6. IsCut(n, next)'
  <2>1. next[0] = 0 /\ next[num + 1] <= Len(rows[n])
    BY <1>2, <1>3, <1>4, <1>5
  <2>2. \A i, j \in 0 .. num + 1 : i <= j => next[i] <= next[j]
    <3> SUFFICES ASSUME NEW i \in 0 .. num + 1, NEW j \in 0 .. num + 1, i <= j
                 PROVE  next[i] <= next[j]
      OBVIOUS
    <3>1. \A l \in 0 .. num : cut[l] <= cut[num] /\ cut[l] \in Nat /\ cut[l] <= cut[num] + size
      <4>1. \A l \in 0 .. num : cut[l] <= cut[num] /\ cut[l] \in Nat
        BY <1>2, <1>3, <1>5
      <4>2. QED
        BY <1>2, <4>1
    <3>2. CASE j \in 0 .. num
      <4>1. i \in 0 .. num
        BY <1>2, <3>2
      <4>2. QED
        BY <1>5, <1>3, <3>2, <4>1
    <3>3. CASE j = num + 1 /\ i \in 0 .. num
      BY <1>5, <3>1, <3>3
    <3>4. CASE j = num + 1 /\ i = num + 1
      BY <1>2, <1>5, <3>4
    <3>5. QED
      BY <1>2, <3>2, <3>3, <3>4
  <2>3. \A k \in 1 .. next[num + 1] : \E i \in 1 .. num + 1 : next[i - 1] < k /\ k <= next[i]
    <3> SUFFICES ASSUME NEW k \in 1 .. next[num + 1]
                 PROVE  \E i \in 1 .. num + 1 : next[i - 1] < k /\ k <= next[i]
      OBVIOUS
    <3>1. CASE k <= cut[num]
      <4>1. PICK i \in 1 .. num : cut[i - 1] < k /\ k <= cut[i]
        BY <1>3, <1>2, <3>1
      <4>2. next[i - 1] = cut[i - 1] /\ next[i] = cut[i] /\ i \in 1 .. num + 1
        BY <1>2, <1>5
      <4>3. QED
        BY <4>1, <4>2
    <3>2. CASE cut[num] < k
      <4>1. next[(num + 1) - 1] = cut[num] /\ num + 1 \in 1 .. num + 1
        BY <1>2, <1>5
      <4>2. QED
        BY <3>2, <4>1
    <3>3. k \in Nat
      BY <1>2, <1>4, <1>5
    <3>4. QED
      BY <1>2, <3>1, <3>2, <3>3
  <2>4. \A i \in 1 .. num + 1 :
           /\ Len(batches'[n][i].transfers) = next[i] - next[i - 1]
           /\ \A k \in 1 .. Len(batches'[n][i].transfers) :
                 batches'[n][i].transfers[k] = rows[n][next[i - 1] + k]
    <3> SUFFICES ASSUME NEW i \in 1 .. num + 1
                 PROVE  /\ Len(batches'[n][i].transfers) = next[i] - next[i - 1]
                        /\ \A k \in 1 .. Len(batches'[n][i].transfers) :
                              batches'[n][i].transfers[k] = rows[n][next[i - 1] + k]
      OBVIOUS
    <3>1. CASE i \in 1 .. num
      <4>1. /\ batches'[n][i] = batches[n][i]
            /\ next[i - 1] = cut[i - 1] /\ next[i] = cut[i]
        <5>1. i - 1 \in 0 .. num /\ i \in 0 .. num
          BY <1>2, <3>1
        <5>2. QED
          BY <1>4, <1>5, <3>1, <5>1
      <4>2. /\ Len(batches[n][i].transfers) = cut[i] - cut[i - 1]
            /\ \A k \in 1 .. Len(batches[n][i].transfers) :
                  batches[n][i].transfers[k] = rows[n][cut[i - 1] + k]
        BY <3>1, Zenon DEF IsCut, num
      <4>3. QED
        BY <4>1, <4>2
    <3>2. CASE i = num + 1
      <4>0. i - 1 = num /\ num \in 0 .. num
        BY <1>2, <3>2
      <4>1. next[i - 1] = cut[num] /\ next[i] = cut[num] + size
        BY <1>5, <3>2, <4>0
      <4>2. Len(batches'[n][i].transfers) = size /\ batches'[n][i].transfers = transfers
        BY <1>4, <3>2
      <4>3. size = (cut[num] + size) - cut[num]
        BY <1>2
      <4>4. QED
        BY <1>4, <4>1, <4>2, <4>3
    <3>3. QED
      BY <1>2, <3>1, <3>2
  <2>5. Len(batches'[n]) = num + 1 /\ rows'[n] = rows[n]
    BY <1>4
  <2>6. /\ next \in [0 .. Len(batches'[n]) -> Nat]
        /\ next[0] = 0
        /\ next[Len(batches'[n])] <= Len(rows'[n])
    BY <1>5, <2>1, <2>5, Zenon
  <2>7. \A i, j \in 0 .. Len(batches'[n]) : i <= j => next[i] <= next[j]
    BY <2>2, <2>5, Zenon
  <2>8. \A k \in 1 .. next[Len(batches'[n])] :
           \E i \in 1 .. Len(batches'[n]) : next[i - 1] < k /\ k <= next[i]
    BY <2>3, <2>5, Zenon
  <2>9. \A i \in 1 .. Len(batches'[n]) :
           /\ Len(batches'[n][i].transfers) = next[i] - next[i - 1]
           /\ \A k \in 1 .. Len(batches'[n][i].transfers) :
                 batches'[n][i].transfers[k] = rows'[n][next[i - 1] + k]
    BY <2>4, <2>5, Zenon
  <2>10. QED
    BY <2>6, <2>7, <2>8, <2>9, Zenon DEF IsCut
<1>7. QED
  BY <1>6

(* The rows in no batch are those after the end of the last. *)
LEMMA UnbatchedIsRest ==
  ASSUME TypeOK, RowsInv, NEW n \in Node, NEW cut, IsCut(n, cut)
  PROVE  /\ Unbatched(n) \in Seq(Deposit)
         /\ Len(Unbatched(n)) = Len(rows[n]) - cut[Len(batches[n])]
         /\ \A i \in 1 .. Len(Unbatched(n)) :
               Unbatched(n)[i] = rows[n][cut[Len(batches[n])] + i]
<1> DEFINE num == Len(batches[n])
           linked == UNION {Range(batches[n][i].transfers) : i \in DOMAIN batches[n]}
           left == {k \in DOMAIN rows[n] : rows[n][k] \notin linked}
           m == cut[num]
           r == Len(rows[n])
<1>1. /\ r \in Nat /\ m \in Nat /\ m <= r
      /\ \A i \in 1 .. num :
            /\ cut[i] \in Nat /\ cut[i] <= m
            /\ \A k \in 1 .. Len(batches[n][i].transfers) : cut[i - 1] + k \in 1 .. cut[i]
  BY CutBounds
<1>2. /\ num \in Nat /\ DOMAIN batches[n] = 1 .. num
      /\ rows[n] \in Seq(Deposit) /\ DOMAIN rows[n] = 1 .. r
      /\ \A i \in 1 .. num : batches[n][i].transfers \in Seq(Deposit)
  BY BatchesAreTyped DEF TypeOK
<1>3. \A c : c \in linked <=>
         \E i \in 1 .. num : \E k \in 1 .. Len(batches[n][i].transfers) :
            c = batches[n][i].transfers[k]
  <2>1. \A i \in 1 .. num : DOMAIN batches[n][i].transfers = 1 .. Len(batches[n][i].transfers)
    BY <1>2
  <2> SUFFICES ASSUME NEW c
               PROVE  c \in linked <=>
                         \E i \in 1 .. num : \E k \in 1 .. Len(batches[n][i].transfers) :
                            c = batches[n][i].transfers[k]
    OBVIOUS
  <2>2. c \in linked <=> \E i \in 1 .. num : c \in Range(batches[n][i].transfers)
    BY <1>2
  <2>3. \A i \in 1 .. num : c \in Range(batches[n][i].transfers) <=>
           \E k \in 1 .. Len(batches[n][i].transfers) : c = batches[n][i].transfers[k]
    BY <2>1 DEF Range
  <2> HIDE DEF linked, num
  <2>4. QED
    BY <2>2, <2>3, Zenon
<1> HIDE DEF linked
<1>4. ASSUME NEW k \in 1 .. r, k > m
      PROVE  rows[n][k] \notin linked
  <2> SUFFICES ASSUME rows[n][k] \in linked
               PROVE  FALSE
    OBVIOUS
  <2>0. PICK i \in 1 .. num : \E j \in 1 .. Len(batches[n][i].transfers) :
           rows[n][k] = batches[n][i].transfers[j]
    BY <1>3
  <2>1. PICK j \in 1 .. Len(batches[n][i].transfers) : rows[n][k] = batches[n][i].transfers[j]
    BY <2>0
  <2>2. rows[n][k] = rows[n][cut[i - 1] + j] /\ cut[i - 1] + j \in 1 .. cut[i] /\ cut[i] <= m
        /\ cut[i] \in Nat
    BY <1>1, <2>1 DEF IsCut
  <2> DEFINE l == cut[i - 1] + j
  <2>a. l \in 1 .. cut[i] /\ cut[i] \in Nat /\ cut[i] <= m
    BY <2>2
  <2>b. r \in Nat /\ m \in Nat /\ m <= r /\ k \in Int /\ k > m
    BY <1>1, <1>4
  <2> HIDE DEF l, m, r, num, left
  <2>3. l \in 1 .. r /\ l # k
    BY <2>a, <2>b
  <2>4. QED
    BY <2>2, <2>3, <1>4 DEF RowsInv, RowsOf, l, r
<1>5. ASSUME NEW k \in 1 .. r, k <= m
      PROVE  rows[n][k] \in linked
  <2>1. PICK i \in 1 .. num : cut[i - 1] < k /\ k <= cut[i]
    BY <1>1, <1>5 DEF IsCut
  <2>2. cut[i - 1] \in Nat /\ cut[i] \in Nat /\ Len(batches[n][i].transfers) = cut[i] - cut[i - 1]
    BY CutBounds DEF IsCut
  <2>3. k - cut[i - 1] \in 1 .. Len(batches[n][i].transfers)
    BY <2>1, <2>2
  <2>4. batches[n][i].transfers[k - cut[i - 1]] = rows[n][cut[i - 1] + (k - cut[i - 1])]
    BY <2>3 DEF IsCut
  <2>5. cut[i - 1] + (k - cut[i - 1]) = k
    BY <2>2
  <2>6. QED
    BY <1>3, <2>3, <2>4, <2>5
<1>6. left = m + 1 .. r
  BY <1>1, <1>2, <1>4, <1>5
<1> HIDE DEF left, m, r
<1>7. Unbatched(n) = Rest(rows[n], left)
  BY DEF Unbatched, Rest, left, linked
<1>8. Unbatched(n) = [i \in 1 .. r - m |-> rows[n][m + i]]
  <2>1. m \in Nat /\ r \in Nat /\ m <= r
    BY <1>1
  <2>2. Rest(rows[n], m + 1 .. r) = [i \in 1 .. r - m |-> rows[n][m + i]]
    BY <2>1, RestInOrder
  <2>3. QED
    BY <1>6, <1>7, <2>2, Zenon
<1>9. \A i \in 1 .. r - m : m + i \in 1 .. r /\ rows[n][m + i] \in Deposit
  BY <1>1, <1>2
<1>10. r - m \in Nat
  BY <1>1
<1>11. QED
  BY <1>8, <1>9, <1>10 DEF m, r

(* Transfer l of batch j is the row l after the cut before that batch. *)
LEMMA CutPlaces ==
  ASSUME LoopInv, NEW n \in Node
  PROVE  \E cut :
            /\ \A j \in 1 .. Len(batches[n]) :
                  /\ cut[j - 1] \in Nat /\ cut[j] \in Nat
                  /\ \A l \in 1 .. Len(batches[n][j].transfers) :
                        /\ cut[j - 1] + l \in 1 .. cut[j]
                        /\ cut[j - 1] + l \in 1 .. Len(rows[n])
                        /\ batches[n][j].transfers[l] = rows[n][cut[j - 1] + l]
            /\ \A j, x \in 0 .. Len(batches[n]) : j <= x => cut[j] <= cut[x]
<1>1. TypeOK
  BY DEF LoopInv
<1>2. PICK cut : IsCut(n, cut)
  BY DEF LoopInv, CutInv
<1>3. \A j \in 1 .. Len(batches[n]) :
         /\ cut[j - 1] \in Nat /\ cut[j] \in Nat
         /\ \A l \in 1 .. Len(batches[n][j].transfers) :
               /\ cut[j - 1] + l \in 1 .. cut[j]
               /\ cut[j - 1] + l \in 1 .. Len(rows[n])
  BY <1>1, <1>2, CutBounds
<1>4. \A j \in 1 .. Len(batches[n]) : \A l \in 1 .. Len(batches[n][j].transfers) :
         batches[n][j].transfers[l] = rows[n][cut[j - 1] + l]
  BY <1>2 DEF IsCut
<1>5. \A j, x \in 0 .. Len(batches[n]) : j <= x => cut[j] <= cut[x]
  BY <1>2 DEF IsCut
<1>6. QED
  BY <1>3, <1>4, <1>5

LEMMA OwnTransfers ==
  ASSUME LoopInv, NEW n \in Node,
         NEW i \in 1 .. Len(batches[n]), NEW k \in 1 .. Len(batches[n][i].transfers)
  PROVE  Home[batches[n][i].transfers[k]] = n
<1>1. \E q \in 1 .. Len(rows[n]) : batches[n][i].transfers[k] = rows[n][q]
  BY CutPlaces
<1>2. RowsOf(n)
  BY DEF LoopInv, RowsInv
<1>3. QED
  BY <1>1, <1>2 DEF RowsOf

(* A deposit is in one place of one batch of a node. *)
LEMMA LinkedOnce ==
  ASSUME LoopInv, NEW n \in Node,
         NEW i \in 1 .. Len(batches[n]), NEW k \in 1 .. Len(batches[n][i].transfers),
         NEW j \in 1 .. Len(batches[n]), NEW l \in 1 .. Len(batches[n][j].transfers),
         batches[n][i].transfers[k] = batches[n][j].transfers[l]
  PROVE  i = j /\ k = l
<1> DEFINE num == Len(batches[n])
           t(x) == batches[n][x].transfers
<1>1. TypeOK /\ RowsOf(n)
  BY DEF LoopInv, RowsInv
<1>2. PICK cut :
            /\ \A x \in 1 .. num :
                  /\ cut[x - 1] \in Nat /\ cut[x] \in Nat
                  /\ \A y \in 1 .. Len(t(x)) :
                        /\ cut[x - 1] + y \in 1 .. cut[x]
                        /\ cut[x - 1] + y \in 1 .. Len(rows[n])
                        /\ t(x)[y] = rows[n][cut[x - 1] + y]
            /\ \A x, y \in 0 .. num : x <= y => cut[x] <= cut[y]
  BY CutPlaces
<1>3. num \in Nat /\ \A x \in 1 .. num : Len(t(x)) \in Nat
  BY <1>1, BatchesAreTyped
<1>4. /\ i \in 1 .. num /\ k \in 1 .. Len(t(i)) /\ j \in 1 .. num /\ l \in 1 .. Len(t(j))
      /\ t(i)[k] = t(j)[l]
  OBVIOUS
<1> HIDE DEF num, t
<1>5. ASSUME NEW v \in 1 .. num, NEW w \in 1 .. Len(t(v)), NEW x \in 1 .. num,
             NEW y \in 1 .. Len(t(x)), v < x
      PROVE  cut[v - 1] + w < cut[x - 1] + y
  <2>1. v \in 0 .. num /\ x - 1 \in 0 .. num /\ v <= x - 1
    BY <1>3, <1>5
  <2>2. cut[v] <= cut[x - 1]
    BY <1>2, <2>1
  <2>3. cut[v - 1] + w <= cut[v] /\ cut[v - 1] \in Nat /\ cut[v] \in Nat /\ cut[x - 1] \in Nat
    BY <1>2
  <2>4. y \in Nat /\ 0 < y /\ w \in Nat
    BY <1>3
  <2> DEFINE low == cut[v - 1]
             mid == cut[v]
             high == cut[x - 1]
  <2>5. low \in Nat /\ mid \in Nat /\ high \in Nat /\ low + w <= mid /\ mid <= high
    BY <2>2, <2>3
  <2> HIDE DEF low, mid, high
  <2>6. low + w < high + y
    BY <2>4, <2>5
  <2>7. QED
    BY <2>6 DEF low, high
<1>6. cut[i - 1] + k = cut[j - 1] + l
  <2>1. rows[n][cut[i - 1] + k] = rows[n][cut[j - 1] + l]
    BY <1>2, <1>4
  <2>2. cut[i - 1] + k \in 1 .. Len(rows[n]) /\ cut[j - 1] + l \in 1 .. Len(rows[n])
    BY <1>2, <1>4
  <2>3. QED
    BY <1>1, <2>1, <2>2 DEF RowsOf
<1>7. cut[i - 1] + k \in Nat /\ cut[j - 1] + l \in Nat /\ i \in Nat /\ j \in Nat
  BY <1>2, <1>3, <1>4
<1>8. ~(i < j) /\ ~(j < i)
  BY <1>4, <1>5, <1>6, <1>7
<1>9. i = j
  BY <1>7, <1>8
<1>10. QED
  BY <1>2, <1>3, <1>4, <1>6, <1>9

(* A new batch takes the next rows. *)
LEMMA BatchIsCreated ==
  ASSUME LoopInv, NEW n \in Node, CreateBatch(n), Unbatched(n) # <<>>, rows' = rows
  PROVE  \E transfers \in Seq(Deposit) :
            /\ transfers # <<>>
            /\ batches' = [batches EXCEPT ![n] = Append(batches[n], NewBatch(transfers))]
            /\ \E cut : IsCut(n, cut)'
<1>1. PICK cut : IsCut(n, cut)
  BY DEF LoopInv, CutInv
<1> DEFINE num == Len(batches[n])
           unbatched == Unbatched(n)
           size == Min({BatchLimit, Len(unbatched)})
           first == SubSeq(unbatched, 1, size)
<1>2. /\ TypeOK
      /\ cut[num] \in Nat /\ Len(rows[n]) \in Nat /\ cut[num] <= Len(rows[n])
  BY <1>1, CutBounds DEF LoopInv
<1>3. /\ unbatched \in Seq(Deposit) /\ Len(unbatched) = Len(rows[n]) - cut[num]
      /\ \A i \in 1 .. Len(unbatched) : unbatched[i] = rows[n][cut[num] + i]
  BY <1>1, UnbatchedIsRest DEF LoopInv
<1>4. size \in 1 .. Len(unbatched)
  <2>1. Len(unbatched) \in Nat /\ Len(unbatched) # 0
    BY <1>3
  <2>2. QED
    BY <2>1, SmallerOfTwo, DepositAssumption
<1>5. batches' = [batches EXCEPT ![n] = Append(batches[n], NewBatch(first))]
  BY DEF CreateBatch
<1> HIDE DEF unbatched, size
<1>6. /\ first \in Seq(Deposit) /\ Len(first) = size
      /\ \A i \in 1 .. size : first[i] = rows[n][cut[num] + i]
  BY <1>3, <1>4
<1> HIDE DEF first
<1>7. NewBatch(first) \in Batch /\ NewBatch(first).transfers = first
  BY <1>6, NewBatchIsTyped
<1>8. PICK transfers : transfers = first
  OBVIOUS
<1>9. PICK length \in Nat : length = size
  BY <1>3, <1>4
<1>10. /\ Len(batches'[n]) = num + 1 /\ rows'[n] = rows[n]
       /\ \A i \in 1 .. num : batches'[n][i] = batches[n][i]
       /\ batches'[n][num + 1].transfers = transfers
  BY <1>2, <1>5, <1>7, <1>8, BatchIsAdded
<1>11. /\ Len(transfers) = length /\ cut[num] + length <= Len(rows[n])
       /\ \A k \in 1 .. length : transfers[k] = rows[n][cut[num] + k]
  BY <1>2, <1>3, <1>4, <1>6, <1>8, <1>9
<1>12. \E c : IsCut(n, c)'
  BY <1>1, <1>2, <1>10, <1>11, CutIsLonger
<1>13. first # <<>>
  BY <1>4, <1>6
<1>14. QED
  BY <1>5, <1>6, <1>12, <1>13

-----------------------------------------------------------------------------
(* What a step does to the batches, the loop and the rows of a node and to  *)
(* the transactions, whichever action it is of.  The invariants below are   *)
(* proved from this.                                                        *)

(* A batch that was there changes only as the current one, step by step. *)
OldBatchStep(n, i) ==
    \/ batches'[n][i] = batches[n][i]
    \/ /\ i = current[n]
       /\ batches'[n][i].transfers = batches[n][i].transfers
       /\ \/ /\ pc[n] = "ask"
             /\ batches'[n][i].signatures = collected[n]
             /\ batches'[n][i].status = "SIGNATURES_COLLECTED" => EnoughSignatures(n)
             /\ batches'[n][i].status \in {"CREATED", "SIGNATURES_COLLECTED"}
          \/ /\ pc[n] = "send"
             /\ batches'[n][i].signatures = batches[n][i].signatures
             /\ batches'[n][i].status = "SENDING_TO_RSK"
          \/ /\ pc[n] = "transact"
             /\ batches'[n][i].signatures = batches[n][i].signatures
             /\ ~MoreCalls(n) /\ sent[n] # <<>>
             /\ batches'[n][i].tx = Last(sent[n])
             /\ batches'[n][i].status = "SENT_TO_RSK"
          \/ /\ pc[n] = "receipt"
             /\ batches'[n][i].signatures = batches[n][i].signatures
             /\ batches'[n][i].tx = batches[n][i].tx
             /\ txs[batches[n][i].tx].state = "ok"
             /\ batches'[n][i].status = "FINALIZED"

(* A batch that is added has no transfers or is the only unfinished one. *)
NewBatchStep(n, i) ==
    /\ pc[n] \in {"idle", "batch"}
    /\ batches'[n][i].status = "CREATED"
    /\ \/ batches'[n][i].transfers = <<>>
       \/ /\ Unfinished(n) = {}
          /\ batches'[n][i].signatures = NoSignatures

BatchesStep(n) ==
    /\ Len(batches'[n]) \in {Len(batches[n]), Len(batches[n]) + 1}
    /\ \A i \in 1 .. Len(batches[n]) : OldBatchStep(n, i)
    /\ Len(batches'[n]) = Len(batches[n]) + 1 => NewBatchStep(n, Len(batches[n]) + 1)

RowsStep(n) ==
    /\ Len(rows'[n]) >= Len(rows[n])
    /\ \A k \in 1 .. Len(rows[n]) : rows'[n][k] = rows[n][k]

AskStep(n) ==
    \/ /\ pc[n] = "batch"
       /\ known'[n] = [federators |-> federators, threshold |-> required - 1]
       /\ collected'[n] = batches'[n][current'[n]].signatures
    \/ /\ pc[n] = "ask"
       /\ current'[n] = current[n]
       /\ known'[n] = known[n]
       /\ \A s \in Node : \/ collected'[n][s] = collected[n][s]
                          \/ s # n /\ collected'[n][s] = batches[n][current[n]].transfers

TransactStep(n) ==
    /\ current'[n] = current[n]
    /\ \/ pc[n] = "send" /\ sent'[n] = <<>>
       \/ pc[n] = "transact" /\ sent'[n] = sent[n]
       \/ /\ pc[n] = "transact"
          /\ MoreCalls(n)
          /\ sent'[n] = Append(sent[n], Len(txs) + 1)
          /\ txs' = NextCall(n)

NodeStep(n) ==
    /\ pc'[n] = "ask" => AskStep(n)
    /\ pc'[n] = "transact" => TransactStep(n)

OldTxStep(i) ==
    /\ txs'[i].by = txs[i].by
    /\ txs'[i].dep = txs[i].dep
    /\ txs'[i].signatures = txs[i].signatures
    /\ \/ txs'[i].state = txs[i].state
       \/ /\ txs[i].state = "pending"
          /\ \A j \in 1 .. i - 1 : txs[j].by = txs[i].by => txs[j].state # "pending"
          /\ \/ txs'[i].state = "ok" /\ txs[i].dep \in processed'
             \/ txs'[i].state = "failed" /\ ~acceptTransferFromTap(txs[i])

NewTxStep(n) ==
    /\ pc[n] = "transact"
    /\ MoreCalls(n)
    /\ txs' = NextCall(n)
    /\ pc'[n] = "transact" => sent'[n] = Append(sent[n], Len(txs) + 1)

TxsStep ==
    /\ Len(txs') \in {Len(txs), Len(txs) + 1}
    /\ \A i \in 1 .. Len(txs) : OldTxStep(i)
    /\ Len(txs') = Len(txs) + 1 => \E n \in Node : NewTxStep(n)
    /\ processed \subseteq processed'
    /\ \A d \in processed' \ processed :
          \E i \in 1 .. Len(txs) : txs'[i].state = "ok" /\ txs[i].dep = d

OwnerStep ==
    /\ governance' \in Nat /\ governance <= governance'
    /\ governance' = governance => UNCHANGED <<listed, federators, required>>

Shape ==
    /\ \A n \in Node : BatchesStep(n) /\ RowsStep(n) /\ NodeStep(n)
    /\ TxsStep
    /\ OwnerStep

(* All of it, for one node *)
MovesWell(n) ==
    /\ StepOf(n)' /\ RowsOf(n)' /\ \E cut : IsCut(n, cut)'
    /\ BatchesStep(n) /\ RowsStep(n) /\ NodeStep(n)

(* The step is not one of node o. *)
Stays(o) ==
    /\ pc'[o] = pc[o] /\ current'[o] = current[o] /\ collected'[o] = collected[o]
    /\ sent'[o] = sent[o] /\ known'[o] = known[o] /\ rows'[o] = rows[o]
    /\ (o \in leads') = (o \in leads)

LEMMA AllMoveWell ==
  ASSUME TypeOK', \A n \in Node : MovesWell(n), TxsStep, OwnerStep
  PROVE  LoopInv' /\ Shape
BY Zenon DEF LoopInv, Shape, MovesWell, StepInv, RowsInv, CutInv

LEMMA QuietMoves ==
  ASSUME LoopInv, NEW n \in Node, batches'[n] = batches[n], rows'[n] = rows[n],
         StepOf(n)', NodeStep(n)
  PROVE  MovesWell(n)
<1>1. TypeOK /\ RowsOf(n) /\ (\E cut : IsCut(n, cut)) /\ Len(rows[n]) \in Nat
      /\ Len(batches[n]) \in Nat
  BY BatchesAreTyped DEF LoopInv, RowsInv, CutInv, TypeOK
<1>2. \E cut : IsCut(n, cut)'
  BY <1>1, CutIsKept
<1>3. RowsOf(n)'
  BY <1>1 DEF RowsOf
<1>4. BatchesStep(n)
  BY <1>1 DEF BatchesStep, OldBatchStep
<1>5. RowsStep(n)
  BY <1>1 DEF RowsStep
<1>6. QED
  BY <1>2, <1>3, <1>4, <1>5 DEF MovesWell

LEMMA StayingMoves ==
  ASSUME LoopInv, NEW o \in Node, Stays(o), batches'[o] = batches[o]
  PROVE  MovesWell(o)
<1>1. StepOf(o)'
  BY DEF LoopInv, StepInv, StepOf, Stays
<1>2. NodeStep(o)
  BY DEF Stays, NodeStep, AskStep, TransactStep
<1>3. QED
  BY <1>1, <1>2, QuietMoves DEF Stays

LEMMA QuietChain ==
  ASSUME LoopInv, UNCHANGED rskVars
  PROVE  TxsStep
<1>1. Len(txs) \in Nat
  BY DEF LoopInv, TypeOK
<1>2. QED
  BY <1>1 DEF TxsStep, OldTxStep, rskVars

LEMMA QuietOwner ==
  ASSUME LoopInv, UNCHANGED ownerVars
  PROVE  OwnerStep
BY DEF LoopInv, TypeOK, OwnerStep, ownerVars

LEMMA EndingMoves ==
  ASSUME LoopInv, NEW n \in Node, EndIteration(n), rows' = rows,
         \A o \in Node \ {n} : (o \in leads') = (o \in leads)
  PROVE  StepOf(n)' /\ NodeStep(n) /\ \A o \in Node \ {n} : Stays(o)
<1>1. TypeOK
  BY DEF LoopInv
<1>2. /\ pc'[n] = "idle" /\ collected'[n] = NoSignatures /\ sent'[n] = <<>>
      /\ \A o \in Node \ {n} : /\ pc'[o] = pc[o] /\ current'[o] = current[o]
                               /\ collected'[o] = collected[o] /\ sent'[o] = sent[o]
                               /\ known'[o] = known[o]
  BY <1>1, IterationEnds
<1>3. NoSignatures' = NoSignatures
  BY DEF NoSignatures
<1>4. QED
  BY <1>2, <1>3 DEF StepOf, NodeStep, Stays

(* A step that leaves the batches as they are *)
LEMMA QuietStep ==
  ASSUME LoopInv, TypeOK', NEW n \in Node, UNCHANGED dbVars, StepOf(n)', NodeStep(n),
         \A o \in Node \ {n} : Stays(o), TxsStep, OwnerStep
  PROVE  LoopInv' /\ Shape
<1>1. MovesWell(n)
  BY QuietMoves DEF dbVars
<1>2. \A o \in Node \ {n} : MovesWell(o)
  BY StayingMoves DEF dbVars
<1>3. QED
  BY <1>1, <1>2, AllMoveWell

(* A step that ends the iteration of a node and changes nothing else of the nodes *)
LEMMA EndingStep ==
  ASSUME LoopInv, NEW n \in Node, EndIteration(n), UNCHANGED <<received, dbVars, ownerVars>>,
         leads' \subseteq Node, \A o \in Node \ {n} : (o \in leads') = (o \in leads),
         faults' \in Nat, txs' \in Seq(Transaction), processed' \subseteq Deposit, TxsStep
  PROVE  LoopInv' /\ Shape
<1>1. TypeOK
  BY DEF LoopInv
<1>2. TypeOK'
  BY <1>1, IterationEnds DEF TypeOK, dbVars, ownerVars
<1>3. StepOf(n)' /\ NodeStep(n) /\ \A o \in Node \ {n} : Stays(o)
  BY EndingMoves DEF dbVars
<1>4. QED
  BY <1>2, <1>3, QuietStep, QuietOwner

LEMMA PlainEndingStep ==
  ASSUME LoopInv, NEW n \in Node, EndIteration(n),
         UNCHANGED <<received, dbVars, rskVars, ownerVars>>,
         leads' \subseteq Node, \A o \in Node \ {n} : (o \in leads') = (o \in leads),
         faults' \in Nat
  PROVE  LoopInv' /\ Shape
<1>1. txs' \in Seq(Transaction) /\ processed' \subseteq Deposit /\ TxsStep
  BY QuietChain DEF LoopInv, TypeOK, rskVars
<1>2. QED
  BY <1>1, EndingStep

LEMMA CompletedStep == \A d \in Deposit : LoopInv /\ Completed(d) => LoopInv' /\ Shape
<1> SUFFICES ASSUME NEW d \in Deposit, LoopInv, Completed(d)
             PROVE  LoopInv' /\ Shape
  OBVIOUS
<1>1. TypeOK'
  BY DEF Completed, LoopInv, TypeOK, dbVars, loopVars, rskVars, ownerVars
<1>2. \A n \in Node : MovesWell(n)
  BY StayingMoves DEF Completed, Stays, dbVars, loopVars
<1>3. TxsStep /\ OwnerStep
  BY QuietChain, QuietOwner DEF Completed
<1>4. QED
  BY <1>1, <1>2, <1>3, AllMoveWell

LEMMA ScanIsOrdered ==
  ASSUME LoopInv, NEW n \in Node, NEW new \in NewDeposits(n)
  PROVE  /\ new \in Seq(Deposit)
         /\ \A k \in 1 .. Len(new) : /\ Home[new[k]] = n
                                     /\ \A j \in 1 .. Len(rows[n]) : rows[n][j] # new[k]
         /\ \A j, k \in 1 .. Len(new) : new[j] = new[k] => j = k
<1> DEFINE S == list_receives(n) \ Range(rows[n])
<1>1. S \subseteq Deposit /\ IsFiniteSet(S)
  <2>1. received \subseteq Deposit /\ NumDeposits \in Nat
    BY DepositAssumption DEF LoopInv, TypeOK
  <2>2. IsFiniteSet(Deposit)
    BY <2>1, FS_Interval, 1 \in Int, NumDeposits \in Int DEF Deposit
  <2>3. S \subseteq Deposit
    BY <2>1 DEF list_receives
  <2>4. QED
    BY <2>2, <2>3, FS_Subset
<1>2. Cardinality(S) \in Nat
  BY <1>1, FS_CardinalityType
<1>3. /\ new \in [1 .. Cardinality(S) -> S]
      /\ \A j, k \in 1 .. Cardinality(S) : j # k => new[j] # new[k]
  BY DEF NewDeposits, SetToSeqs
<1>4. \A c \in S : Home[c] = n /\ \A j \in 1 .. Len(rows[n]) : rows[n][j] # c
  <2>1. rows[n] \in Seq(Deposit)
    BY DEF LoopInv, TypeOK
  <2>2. DOMAIN rows[n] = 1 .. Len(rows[n])
    BY <2>1
  <2>3. QED
    BY <2>2 DEF list_receives, Range
<1> HIDE DEF S
<1>5. new \in Seq(S) /\ Len(new) = Cardinality(S)
  BY <1>2, <1>3
<1>6. new \in Seq(Deposit)
  BY <1>1, <1>2, <1>3
<1>7. QED
  BY <1>3, <1>4, <1>5, <1>6

LEMMA RunIterationStep == \A n \in Node : LoopInv /\ RunIteration(n) => LoopInv' /\ Shape
<1> SUFFICES ASSUME NEW n \in Node, LoopInv, RunIteration(n)
             PROVE  LoopInv' /\ Shape
  OBVIOUS
<1>t. TypeOK /\ RowsOf(n) /\ StepOf(n) /\ \E cut : IsCut(n, cut)
  BY DEF LoopInv, RowsInv, StepInv, CutInv
<1>u. /\ pc[n] = "idle"
      /\ UNCHANGED <<received, batches, current, known, asked, collected, sent,
                     rskVars, ownerVars, leads, faults>>
  BY DEF RunIteration
<1>1. PICK new \in NewDeposits(n) : rows' = [rows EXCEPT ![n] = rows[n] \o new]
  BY DEF RunIteration
<1>2. /\ new \in Seq(Deposit)
      /\ \A k \in 1 .. Len(new) : /\ Home[new[k]] = n
                                  /\ \A j \in 1 .. Len(rows[n]) : rows[n][j] # new[k]
      /\ \A j, k \in 1 .. Len(new) : new[j] = new[k] => j = k
  BY ScanIsOrdered
<1>3. rows[n] \in Seq(Deposit)
  BY <1>t DEF TypeOK
<1>4. /\ rows'[n] = rows[n] \o new /\ rows' \in [Node -> Seq(Deposit)]
      /\ \A o \in Node \ {n} : rows'[o] = rows[o]
  BY <1>t, <1>1, <1>2, <1>3 DEF TypeOK
<1>5. /\ Len(rows'[n]) = Len(rows[n]) + Len(new)
      /\ Len(rows[n]) \in Nat /\ Len(new) \in Nat
      /\ \A k \in 1 .. Len(rows[n]) : rows'[n][k] = rows[n][k]
      /\ \A k \in 1 .. Len(new) : rows'[n][Len(rows[n]) + k] = new[k]
  BY <1>2, <1>3, <1>4
<1>6. \A k \in 1 .. Len(rows'[n]) : k \notin 1 .. Len(rows[n]) =>
         /\ k - Len(rows[n]) \in 1 .. Len(new)
         /\ rows'[n][k] = new[k - Len(rows[n])]
  <2> SUFFICES ASSUME NEW k \in 1 .. Len(rows'[n]), k \notin 1 .. Len(rows[n])
               PROVE  /\ k - Len(rows[n]) \in 1 .. Len(new)
                      /\ rows'[n][k] = new[k - Len(rows[n])]
    OBVIOUS
  <2>1. k - Len(rows[n]) \in 1 .. Len(new) /\ Len(rows[n]) + (k - Len(rows[n])) = k
    BY <1>5
  <2>2. QED
    BY <1>5, <2>1
<1>7. RowsOf(n)'
  <2>1. \A j, k \in 1 .. Len(rows'[n]) : rows'[n][j] = rows'[n][k] => j = k
    <3> SUFFICES ASSUME NEW j \in 1 .. Len(rows'[n]), NEW k \in 1 .. Len(rows'[n]),
                        rows'[n][j] = rows'[n][k]
                 PROVE  j = k
      OBVIOUS
    <3> DEFINE x == j - Len(rows[n])
               y == k - Len(rows[n])
    <3>0. /\ j \notin 1 .. Len(rows[n]) => x \in 1 .. Len(new) /\ rows'[n][j] = new[x]
          /\ k \notin 1 .. Len(rows[n]) => y \in 1 .. Len(new) /\ rows'[n][k] = new[y]
          /\ j \in 1 .. Len(rows[n]) => rows'[n][j] = rows[n][j]
          /\ k \in 1 .. Len(rows[n]) => rows'[n][k] = rows[n][k]
          /\ x = y => j = k
      BY <1>5, <1>6
    <3> HIDE DEF x, y
    <3>1. CASE j \in 1 .. Len(rows[n]) /\ k \in 1 .. Len(rows[n])
      BY <1>t, <3>0, <3>1 DEF RowsOf
    <3>2. CASE j \in 1 .. Len(rows[n]) /\ k \notin 1 .. Len(rows[n])
      BY <1>2, <3>0, <3>2
    <3>3. CASE j \notin 1 .. Len(rows[n]) /\ k \in 1 .. Len(rows[n])
      BY <1>2, <3>0, <3>3
    <3>4. CASE j \notin 1 .. Len(rows[n]) /\ k \notin 1 .. Len(rows[n])
      BY <1>2, <3>0, <3>4
    <3>5. QED
      BY <3>1, <3>2, <3>3, <3>4
  <2>2. \A k \in 1 .. Len(rows'[n]) : Home[rows'[n][k]] = n
    <3> SUFFICES ASSUME NEW k \in 1 .. Len(rows'[n])
                 PROVE  Home[rows'[n][k]] = n
      OBVIOUS
    <3> DEFINE y == k - Len(rows[n])
    <3>1. /\ k \notin 1 .. Len(rows[n]) => y \in 1 .. Len(new) /\ rows'[n][k] = new[y]
          /\ k \in 1 .. Len(rows[n]) => rows'[n][k] = rows[n][k]
      BY <1>5, <1>6
    <3> HIDE DEF y
    <3>2. QED
      BY <1>t, <1>2, <3>1 DEF RowsOf
  <2>3. QED
    BY <2>1, <2>2 DEF RowsOf
<1>8. pc' = [pc EXCEPT ![n] = IF n \in leads THEN "batch" ELSE "idle"]
  BY DEF RunIteration
<1>9. /\ pc' \in [Node -> Loop] /\ pc'[n] \in {"batch", "idle"}
      /\ pc'[n] # "idle" => n \in leads
      /\ \A o \in Node \ {n} : pc'[o] = pc[o]
  BY <1>t, <1>8 DEF TypeOK, Loop
<1>10. TypeOK'
  BY <1>t, <1>u, <1>4, <1>9 DEF TypeOK, rskVars, ownerVars
<1>11. StepOf(n)'
  <2>1. NoSignatures' = NoSignatures
    BY DEF NoSignatures
  <2>2. QED
    BY <1>t, <1>u, <1>9, <2>1 DEF StepOf
<1>12. \E cut : IsCut(n, cut)'
  <2>1. Len(rows'[n]) \in Nat /\ Len(rows[n]) <= Len(rows'[n])
    BY <1>5
  <2>2. QED
    BY <1>t, <1>u, <1>5, <2>1, CutIsKept
<1>13. BatchesStep(n) /\ RowsStep(n) /\ NodeStep(n)
  <2>1. Len(batches[n]) \in Nat
    BY <1>t, BatchesAreTyped
  <2>2. BatchesStep(n)
    BY <1>u, <2>1 DEF BatchesStep, OldBatchStep
  <2>3. RowsStep(n)
    BY <1>5 DEF RowsStep
  <2>4. NodeStep(n)
    BY <1>9 DEF NodeStep
  <2>5. QED
    BY <2>2, <2>3, <2>4
<1>14. MovesWell(n)
  BY <1>7, <1>11, <1>12, <1>13 DEF MovesWell
<1>15. \A o \in Node \ {n} : MovesWell(o)
  BY <1>u, <1>4, <1>9, StayingMoves DEF Stays
<1>16. TxsStep /\ OwnerStep
  BY <1>u, QuietChain, QuietOwner
<1>17. QED
  BY <1>10, <1>14, <1>15, <1>16, AllMoveWell

LEMMA OldestIsThere ==
  ASSUME TypeOK, NEW n \in Node, Unfinished(n) # {}
  PROVE  /\ Min(Unfinished(n)) \in 1 .. Len(batches[n])
         /\ Min(Unfinished(n)) \in Nat
         /\ OldestUnfinished(n) = batches[n][Min(Unfinished(n))]
         /\ OldestUnfinished(n) \in Batch
<1>1. Unfinished(n) \subseteq 1 .. Len(batches[n])
  BY BatchesAreTyped DEF Unfinished
<1>2. Unfinished(n) \in SUBSET Nat
  BY <1>1
<1>3. Min(Unfinished(n)) \in 1 .. Len(batches[n])
  BY <1>1, <1>2, MinIsLeast
<1>4. QED
  BY <1>3, BatchesAreTyped DEF OldestUnfinished

LEMMA TakeUpStep == \A n \in Node : LoopInv /\ TakeUp(n) => LoopInv' /\ Shape
<1> SUFFICES ASSUME NEW n \in Node, LoopInv, TakeUp(n)
             PROVE  LoopInv' /\ Shape
  OBVIOUS
<1>t. TypeOK /\ StepOf(n)
  BY DEF LoopInv, StepInv
<1>1. /\ pc[n] = "batch"
      /\ Unfinished(n) # {}
      /\ UNCHANGED <<received, dbVars, rskVars, ownerVars, leads, faults>>
  BY DEF TakeUp
<1> DEFINE i == Min(Unfinished(n))
           s == OldestUnfinished(n).status
<1>2. /\ i \in 1 .. Len(batches[n]) /\ i \in Nat
      /\ s = batches[n][i].status
  BY <1>t, <1>1, OldestIsThere
<1>3. CASE s = "SENDING_TO_RSK"
  <2>1. EndIteration(n)
    BY <1>3 DEF TakeUp
  <2>2. QED
    BY <1>t, <1>1, <2>1, PlainEndingStep DEF TypeOK
<1>4. CASE s # "SENDING_TO_RSK"
  <2> DEFINE step == IF s = "SIGNATURES_COLLECTED" THEN "send" ELSE "receipt"
  <2>1. /\ s = "SIGNATURES_COLLECTED" \/ s = "SENT_TO_RSK"
        /\ pc' = [pc EXCEPT ![n] = step]
        /\ current' = [current EXCEPT ![n] = i]
        /\ UNCHANGED <<known, asked, collected, sent>>
    BY <1>4 DEF TakeUp
  <2> HIDE DEF i, s
  <2>2. /\ pc' \in [Node -> Loop] /\ current' \in [Node -> Nat]
        /\ pc'[n] = step /\ current'[n] = i
        /\ \A o \in Node \ {n} : pc'[o] = pc[o] /\ current'[o] = current[o]
    BY <1>t, <1>2, <2>1 DEF TypeOK, Loop
  <2>3. TypeOK'
    BY <1>t, <1>1, <2>1, <2>2 DEF TypeOK, dbVars, rskVars, ownerVars
  <2>4. StepOf(n)'
    BY <1>t, <1>1, <1>2, <2>1, <2>2 DEF StepOf, dbVars
  <2>5. NodeStep(n)
    BY <2>2 DEF NodeStep
  <2>6. \A o \in Node \ {n} : Stays(o)
    BY <1>1, <2>1, <2>2 DEF Stays, dbVars
  <2>7. QED
    BY <1>1, <2>3, <2>4, <2>5, <2>6, QuietStep, QuietChain, QuietOwner
<1>5. QED
  BY <1>3, <1>4

LEMMA BeginCollectingStep == \A n \in Node : LoopInv /\ BeginCollecting(n) => LoopInv' /\ Shape
<1> SUFFICES ASSUME NEW n \in Node, LoopInv, BeginCollecting(n)
             PROVE  LoopInv' /\ Shape
  OBVIOUS
<1>t. TypeOK /\ StepOf(n)
  BY DEF LoopInv, StepInv
<1>1. /\ pc[n] = "batch"
      /\ known' = [known EXCEPT ![n] = [federators |-> federators, threshold |-> required - 1]]
      /\ pc' = [pc EXCEPT ![n] = "ask"]
      /\ UNCHANGED <<received, rows, asked, sent, rskVars, ownerVars, leads, faults>>
  BY DEF BeginCollecting
<1>2. /\ pc' \in [Node -> Loop] /\ pc'[n] = "ask" /\ known' \in [Node -> Known]
      /\ known'[n] = [federators |-> federators, threshold |-> required - 1]
      /\ \A o \in Node \ {n} : pc'[o] = pc[o] /\ known'[o] = known[o]
  <2>1. [federators |-> federators, threshold |-> required - 1] \in Known
    BY <1>t DEF TypeOK, Known
  <2>2. QED
    BY <1>t, <1>1, <2>1 DEF TypeOK, Loop
<1>3. CASE /\ Unfinished(n) # {}
           /\ OldestUnfinished(n).status = "CREATED"
           /\ collected' = [collected EXCEPT ![n] = OldestUnfinished(n).signatures]
           /\ current' = [current EXCEPT ![n] = Min(Unfinished(n))]
           /\ UNCHANGED batches
  <2> DEFINE i == Min(Unfinished(n))
  <2>1. /\ i \in 1 .. Len(batches[n]) /\ i \in Nat
        /\ batches[n][i].status = "CREATED"
        /\ OldestUnfinished(n).signatures = batches[n][i].signatures
        /\ batches[n][i].signatures \in Signatures
    BY <1>t, <1>3, OldestIsThere, BatchesAreTyped
  <2> HIDE DEF i
  <2>2. /\ collected' \in [Node -> Signatures] /\ collected'[n] = batches[n][i].signatures
        /\ current' \in [Node -> Nat] /\ current'[n] = i
        /\ \A o \in Node \ {n} : collected'[o] = collected[o] /\ current'[o] = current[o]
    BY <1>t, <1>3, <2>1 DEF TypeOK, i
  <2>3. TypeOK'
    BY <1>t, <1>1, <1>2, <1>3, <2>2 DEF TypeOK, rskVars, ownerVars
  <2>4. StepOf(n)'
    BY <1>t, <1>1, <1>2, <1>3, <2>1, <2>2 DEF StepOf
  <2>5. NodeStep(n)
    BY <1>1, <1>2, <1>3, <2>2 DEF NodeStep, AskStep
  <2>6. \A o \in Node \ {n} : Stays(o)
    BY <1>1, <1>2, <2>2 DEF Stays
  <2>7. UNCHANGED dbVars
    BY <1>1, <1>3 DEF dbVars
  <2>8. QED
    BY <1>1, <2>3, <2>4, <2>5, <2>6, <2>7, QuietStep, QuietChain, QuietOwner
<1>4. CASE /\ Unfinished(n) = {}
           /\ Unbatched(n) # <<>>
           /\ CreateBatch(n)
           /\ current' = [current EXCEPT ![n] = Len(batches[n]) + 1]
           /\ UNCHANGED collected
  <2>1. PICK transfers \in Seq(Deposit) :
           /\ transfers # <<>>
           /\ batches' = [batches EXCEPT ![n] = Append(batches[n], NewBatch(transfers))]
           /\ \E cut : IsCut(n, cut)'
    BY <1>1, <1>4, BatchIsCreated
  <2> DEFINE num == Len(batches[n])
             b == NewBatch(transfers)
  <2>2. b \in Batch /\ b.status = "CREATED" /\ b.signatures = NoSignatures
    BY NewBatchIsTyped
  <2> HIDE DEF b
  <2>3. /\ batches' \in [Node -> Seq(Batch)]
        /\ \A o \in Node \ {n} : batches'[o] = batches[o]
        /\ Len(batches'[n]) = num + 1
        /\ batches'[n][num + 1] = b
        /\ \A i \in 1 .. num : batches'[n][i] = batches[n][i]
    BY <1>t, <2>1, <2>2, BatchIsAdded DEF b
  <2>4. num \in Nat
    BY <1>t, BatchesAreTyped
  <2>5. /\ current' \in [Node -> Nat] /\ current'[n] = num + 1
        /\ \A o \in Node \ {n} : current'[o] = current[o]
    BY <1>t, <1>4, <2>4 DEF TypeOK
  <2>6. TypeOK'
    BY <1>t, <1>1, <1>2, <1>4, <2>3, <2>5 DEF TypeOK, rskVars, ownerVars
  <2>7. StepOf(n)'
    BY <1>t, <1>1, <1>2, <1>4, <2>2, <2>3, <2>4, <2>5 DEF StepOf
  <2>8. NodeStep(n)
    <3>1. collected'[n] = NoSignatures
      BY <1>t, <1>1, <1>4 DEF StepOf
    <3>2. QED
      BY <1>1, <1>2, <2>2, <2>3, <2>5, <3>1 DEF NodeStep, AskStep
  <2>9. RowsOf(n)' /\ RowsStep(n)
    BY <1>t, <1>1 DEF LoopInv, RowsInv, RowsOf, RowsStep, TypeOK
  <2>10. BatchesStep(n)
    BY <1>1, <1>4, <2>2, <2>3, <2>4 DEF BatchesStep, OldBatchStep, NewBatchStep
  <2>11. MovesWell(n)
    BY <2>1, <2>7, <2>8, <2>9, <2>10 DEF MovesWell
  <2>12. \A o \in Node \ {n} : MovesWell(o)
    BY <1>1, <1>2, <1>4, <2>3, <2>5, StayingMoves DEF Stays
  <2>13. QED
    BY <1>1, <2>6, <2>11, <2>12, AllMoveWell, QuietChain, QuietOwner
<1>5. QED
  BY <1>3, <1>4 DEF BeginCollecting

(* A step that changes the current batch of a node *)
LEMMA CurrentStep ==
  ASSUME LoopInv, NEW n \in Node, NEW b \in Batch, SetCurrent(n, b),
         current[n] \in 1 .. Len(batches[n]), b.transfers = batches[n][current[n]].transfers,
         UNCHANGED <<received, rows, rskVars, ownerVars, leads, faults>>,
         /\ pc' \in [Node -> Loop] /\ current' \in [Node -> Nat]
         /\ asked' \in [Node -> SUBSET Node] /\ collected' \in [Node -> Signatures]
         /\ sent' \in [Node -> Seq(Nat)] /\ known' \in [Node -> Known],
         \A o \in Node \ {n} : Stays(o), NodeStep(n),
         batches'[n][current[n]] = b => StepOf(n)' /\ OldBatchStep(n, current[n])
  PROVE  LoopInv' /\ Shape
<1>t. TypeOK /\ RowsOf(n) /\ (\E cut : IsCut(n, cut)) /\ Len(rows[n]) \in Nat
      /\ Len(batches[n]) \in Nat
  BY BatchesAreTyped DEF LoopInv, RowsInv, CutInv, TypeOK
<1>1. /\ batches' \in [Node -> Seq(Batch)]
      /\ \A o \in Node \ {n} : batches'[o] = batches[o]
      /\ Len(batches'[n]) = Len(batches[n])
      /\ \A i \in 1 .. Len(batches[n]) :
            batches'[n][i] = IF i = current[n] THEN b ELSE batches[n][i]
  BY <1>t, CurrentIsSet
<1>2. TypeOK'
  BY <1>t, <1>1 DEF TypeOK, rskVars, ownerVars
<1>3. StepOf(n)' /\ OldBatchStep(n, current[n])
  BY <1>1
<1>4. \E cut : IsCut(n, cut)'
  <2>1. \A i \in 1 .. Len(batches[n]) : batches'[n][i].transfers = batches[n][i].transfers
    BY <1>1
  <2>2. /\ Len(rows'[n]) \in Nat /\ Len(rows[n]) <= Len(rows'[n])
        /\ \A k \in 1 .. Len(rows[n]) : rows'[n][k] = rows[n][k]
    BY <1>t
  <2>3. TypeOK /\ (\E cut : IsCut(n, cut)) /\ Len(batches'[n]) = Len(batches[n])
    BY <1>t, <1>1
  <2>4. QED
    BY <2>1, <2>2, <2>3, CutIsKept
<1>5. RowsOf(n)' /\ RowsStep(n)
  BY <1>t DEF RowsOf, RowsStep
<1>6. BatchesStep(n)
  <2>1. \A i \in 1 .. Len(batches[n]) : OldBatchStep(n, i)
    <3> SUFFICES ASSUME NEW i \in 1 .. Len(batches[n])
                 PROVE  OldBatchStep(n, i)
      OBVIOUS
    <3>1. CASE i = current[n]
      BY <1>3, <3>1
    <3>2. CASE i # current[n]
      BY <1>1, <3>2 DEF OldBatchStep
    <3>3. QED
      BY <3>1, <3>2
  <2>2. QED
    BY <1>t, <1>1, <2>1 DEF BatchesStep
<1>7. MovesWell(n)
  BY <1>3, <1>4, <1>5, <1>6 DEF MovesWell
<1>8. \A o \in Node \ {n} : MovesWell(o)
  BY <1>1, StayingMoves
<1>9. QED
  BY <1>2, <1>7, <1>8, AllMoveWell, QuietChain, QuietOwner

LEMMA StoreSignaturesStep == \A n \in Node : LoopInv /\ StoreSignatures(n) => LoopInv' /\ Shape
<1> SUFFICES ASSUME NEW n \in Node, LoopInv, StoreSignatures(n)
             PROVE  LoopInv' /\ Shape
  OBVIOUS
<1>t. TypeOK /\ StepOf(n)
  BY DEF LoopInv, StepInv
<1> DEFINE i == current[n]
           b == batches[n][i]
<1>1. /\ pc[n] = "ask"
      /\ UNCHANGED <<received, rows, rskVars, ownerVars, leads, faults>>
  BY DEF StoreSignatures
<1>2. i \in 1 .. Len(batches[n]) /\ b \in Batch /\ b.status = "CREATED"
  BY <1>t, <1>1, BatchesAreTyped DEF StepOf
<1>3. collected[n] \in Signatures
  BY <1>t DEF TypeOK
<1>4. CASE /\ EnoughSignatures(n)
           /\ SetCurrent(n, [CurrentBatch(n) EXCEPT !.signatures = collected[n],
                                                    !.status = "SIGNATURES_COLLECTED"])
           /\ pc' = [pc EXCEPT ![n] = "send"]
           /\ UNCHANGED <<current, known, asked, collected, sent>>
  <2> DEFINE c == [b EXCEPT !.signatures = collected[n], !.status = "SIGNATURES_COLLECTED"]
  <2>1. /\ c \in Batch /\ c.transfers = b.transfers /\ c.signatures = collected[n]
        /\ c.status = "SIGNATURES_COLLECTED"
    BY <1>2, <1>3 DEF Batch, Status
  <2>2. SetCurrent(n, c)
    BY <1>4 DEF CurrentBatch
  <2> HIDE DEF c
  <2>3. /\ pc' \in [Node -> Loop] /\ pc'[n] = "send"
        /\ \A o \in Node \ {n} : Stays(o)
    BY <1>t, <1>1, <1>4 DEF TypeOK, Loop, Stays
  <2>4. NodeStep(n)
    BY <2>3 DEF NodeStep
  <2>5. batches'[n][i] = c => OldBatchStep(n, i)
    BY <1>1, <1>4, <2>1 DEF OldBatchStep
  <2>6. /\ Len(batches'[n]) = Len(batches[n])
    BY <1>t, <1>2, <2>1, <2>2, CurrentIsSet
  <2>7. batches'[n][i] = c => StepOf(n)'
    BY <1>t, <1>1, <1>2, <1>4, <2>1, <2>3, <2>6 DEF StepOf
  <2>8. QED
    BY <1>t, <1>1, <1>2, <1>4, <2>1, <2>2, <2>3, <2>4, <2>5, <2>7, CurrentStep DEF TypeOK
<1>5. CASE /\ ~EnoughSignatures(n)
           /\ SetCurrent(n, [CurrentBatch(n) EXCEPT !.signatures = collected[n]])
           /\ EndIteration(n)
  <2> DEFINE c == [b EXCEPT !.signatures = collected[n]]
  <2>1. /\ c \in Batch /\ c.transfers = b.transfers /\ c.signatures = collected[n]
        /\ c.status = "CREATED"
    BY <1>2, <1>3 DEF Batch
  <2>2. SetCurrent(n, c)
    BY <1>5 DEF CurrentBatch
  <2> HIDE DEF c
  <2>3. StepOf(n)' /\ NodeStep(n) /\ \A o \in Node \ {n} : Stays(o)
    BY <1>1, <1>5, EndingMoves
  <2>4. batches'[n][i] = c => OldBatchStep(n, i)
    BY <1>1, <2>1 DEF OldBatchStep
  <2>5. QED
    BY <1>t, <1>1, <1>2, <1>5, <2>1, <2>2, <2>3, <2>4, CurrentStep, IterationEnds
<1>6. QED
  BY <1>4, <1>5 DEF StoreSignatures

LEMMA BeginSendingStep == \A n \in Node : LoopInv /\ BeginSending(n) => LoopInv' /\ Shape
<1> SUFFICES ASSUME NEW n \in Node, LoopInv, BeginSending(n)
             PROVE  LoopInv' /\ Shape
  OBVIOUS
<1>t. TypeOK /\ StepOf(n)
  BY DEF LoopInv, StepInv
<1> DEFINE i == current[n]
           b == batches[n][i]
           c == [b EXCEPT !.status = "SENDING_TO_RSK"]
<1>1. /\ pc[n] = "send"
      /\ pc' = [pc EXCEPT ![n] = "transact"]
      /\ UNCHANGED <<received, rows, current, known, asked, collected, sent,
                     rskVars, ownerVars, leads, faults>>
      /\ SetCurrent(n, c)
  BY DEF BeginSending, CurrentBatch
<1>2. i \in 1 .. Len(batches[n]) /\ b \in Batch
  BY <1>t, <1>1, BatchesAreTyped DEF StepOf
<1>3. /\ c \in Batch /\ c.transfers = b.transfers /\ c.signatures = b.signatures
      /\ c.status = "SENDING_TO_RSK"
  BY <1>2 DEF Batch, Status
<1> HIDE DEF c
<1>4. /\ pc' \in [Node -> Loop] /\ pc'[n] = "transact"
      /\ \A o \in Node \ {n} : Stays(o)
  BY <1>t, <1>1 DEF TypeOK, Loop, Stays
<1>5. NodeStep(n)
  BY <1>t, <1>1, <1>4 DEF NodeStep, TransactStep, StepOf
<1>6. batches'[n][i] = c => OldBatchStep(n, i)
  BY <1>1, <1>3 DEF OldBatchStep
<1>7. Len(batches'[n]) = Len(batches[n])
  BY <1>t, <1>1, <1>2, <1>3, CurrentIsSet
<1>8. batches'[n][i] = c => StepOf(n)'
  BY <1>t, <1>1, <1>2, <1>3, <1>4, <1>7 DEF StepOf
<1>9. QED
  BY <1>t, <1>1, <1>2, <1>3, <1>4, <1>5, <1>6, <1>8, CurrentStep DEF TypeOK

LEMMA MarkSentStep == \A n \in Node : LoopInv /\ MarkSent(n) => LoopInv' /\ Shape
<1> SUFFICES ASSUME NEW n \in Node, LoopInv, MarkSent(n)
             PROVE  LoopInv' /\ Shape
  OBVIOUS
<1>t. TypeOK /\ StepOf(n)
  BY DEF LoopInv, StepInv
<1> DEFINE i == current[n]
           b == batches[n][i]
           c == [b EXCEPT !.status = "SENT_TO_RSK", !.tx = Last(sent[n])]
<1>1. /\ pc[n] = "transact" /\ ~MoreCalls(n) /\ sent[n] # <<>>
      /\ pc' = [pc EXCEPT ![n] = "receipt"]
      /\ UNCHANGED <<received, rows, current, known, asked, collected, sent,
                     rskVars, ownerVars, leads, faults>>
      /\ SetCurrent(n, c)
  BY DEF MarkSent, CurrentBatch
<1>2. i \in 1 .. Len(batches[n]) /\ b \in Batch
  BY <1>t, <1>1, BatchesAreTyped DEF StepOf
<1>3. Last(sent[n]) \in Nat
  <2>1. sent[n] \in Seq(Nat)
    BY <1>t DEF TypeOK
  <2>2. Len(sent[n]) \in 1 .. Len(sent[n])
    BY <1>1, <2>1
  <2>3. QED
    BY <2>1, <2>2 DEF Last
<1>4. /\ c \in Batch /\ c.transfers = b.transfers /\ c.signatures = b.signatures
      /\ c.status = "SENT_TO_RSK" /\ c.tx = Last(sent[n])
  BY <1>2, <1>3 DEF Batch, Status
<1> HIDE DEF c
<1>5. /\ pc' \in [Node -> Loop] /\ pc'[n] = "receipt"
      /\ \A o \in Node \ {n} : Stays(o)
  BY <1>t, <1>1 DEF TypeOK, Loop, Stays
<1>6. NodeStep(n)
  BY <1>5 DEF NodeStep
<1>7. batches'[n][i] = c => OldBatchStep(n, i)
  BY <1>1, <1>4 DEF OldBatchStep
<1>8. Len(batches'[n]) = Len(batches[n])
  BY <1>t, <1>1, <1>2, <1>4, CurrentIsSet
<1>9. batches'[n][i] = c => StepOf(n)'
  BY <1>t, <1>1, <1>2, <1>4, <1>5, <1>8 DEF StepOf
<1>10. QED
  BY <1>t, <1>1, <1>2, <1>4, <1>5, <1>6, <1>7, <1>9, CurrentStep DEF TypeOK

LEMMA ReceiptOkStep == \A n \in Node : LoopInv /\ ReceiptOk(n) => LoopInv' /\ Shape
<1> SUFFICES ASSUME NEW n \in Node, LoopInv, ReceiptOk(n)
             PROVE  LoopInv' /\ Shape
  OBVIOUS
<1>t. TypeOK /\ StepOf(n)
  BY DEF LoopInv, StepInv
<1> DEFINE i == current[n]
           b == batches[n][i]
           c == [b EXCEPT !.status = "FINALIZED"]
<1>1. /\ pc[n] = "receipt" /\ txs[b.tx].state = "ok" /\ EndIteration(n)
      /\ UNCHANGED <<received, rows, rskVars, ownerVars, leads, faults>>
      /\ SetCurrent(n, c)
  BY DEF ReceiptOk, CurrentBatch
<1>2. i \in 1 .. Len(batches[n]) /\ b \in Batch
  BY <1>t, <1>1, BatchesAreTyped DEF StepOf
<1>3. /\ c \in Batch /\ c.transfers = b.transfers /\ c.signatures = b.signatures
      /\ c.status = "FINALIZED" /\ c.tx = b.tx
  BY <1>2 DEF Batch, Status
<1> HIDE DEF c
<1>4. StepOf(n)' /\ NodeStep(n) /\ \A o \in Node \ {n} : Stays(o)
  BY <1>1, EndingMoves
<1>5. batches'[n][i] = c => OldBatchStep(n, i)
  BY <1>1, <1>3 DEF OldBatchStep
<1>6. QED
  BY <1>t, <1>1, <1>2, <1>3, <1>4, <1>5, CurrentStep, IterationEnds

(* A peer that stores a batch is at rest, and the batch has no transfers. *)
LEMMA StoringMoves ==
  ASSUME LoopInv, NEW p \in Node, NEW b \in Batch, SignsNew(p, b),
         batches' = BatchesAfterAnswer(p, b), Stays(p)
  PROVE  /\ batches' \in [Node -> Seq(Batch)]
         /\ \A o \in Node \ {p} : batches'[o] = batches[o]
         /\ MovesWell(p)
<1>t. TypeOK /\ StepOf(p) /\ RowsOf(p)
  BY DEF LoopInv, StepInv, RowsInv
<1> DEFINE num == Len(batches[p])
           c == StoredBatch(p, b)
<1>1. c \in Batch /\ c.transfers = <<>> /\ c.status = "CREATED"
  BY <1>t, AnswersAreTyped DEF StoredBatch
<1>2. batches' = [batches EXCEPT ![p] = Append(batches[p], c)]
  BY DEF BatchesAfterAnswer
<1> HIDE DEF c
<1>3. /\ batches' \in [Node -> Seq(Batch)]
      /\ \A o \in Node \ {p} : batches'[o] = batches[o]
      /\ Len(batches'[p]) = num + 1
      /\ batches'[p][num + 1] = c
      /\ \A i \in 1 .. num : batches'[p][i] = batches[p][i]
  BY <1>t, <1>1, <1>2, BatchIsAdded
<1>4. num \in Nat /\ Len(rows[p]) \in Nat
  BY <1>t, BatchesAreTyped DEF TypeOK
<1>5. pc[p] = "idle" /\ pc'[p] = "idle" /\ rows'[p] = rows[p]
  BY <1>t DEF SignsNew, StepOf, Stays
<1>6. StepOf(p)'
  <2>1. NoSignatures' = NoSignatures
    BY DEF NoSignatures
  <2>2. QED
    BY <1>t, <1>5, <2>1 DEF StepOf, Stays
<1>7. RowsOf(p)' /\ RowsStep(p) /\ NodeStep(p)
  BY <1>t, <1>4, <1>5 DEF RowsOf, RowsStep, NodeStep
<1>8. \E cut : IsCut(p, cut)'
  <2>1. PICK cut : IsCut(p, cut)
    BY DEF LoopInv, CutInv
  <2>2. cut[num] \in Nat /\ cut[num] <= Len(rows[p])
    BY <1>t, <2>1, CutBounds
  <2>3. cut[num] + 0 <= Len(rows[p]) /\ 0 \in Nat
    BY <1>4, <2>2
  <2> DEFINE transfers == <<>>
  <2>4. Len(transfers) = 0 /\ batches'[p][num + 1].transfers = transfers
    BY <1>1, <1>3
  <2>5. \A k \in 1 .. 0 : transfers[k] = rows[p][cut[num] + k]
    OBVIOUS
  <2> HIDE DEF transfers
  <2>6. QED
    BY <1>t, <1>3, <1>5, <2>1, <2>3, <2>4, <2>5, CutIsLonger
<1>9. BatchesStep(p)
  BY <1>1, <1>3, <1>4, <1>5 DEF BatchesStep, OldBatchStep, NewBatchStep
<1>10. QED
  BY <1>3, <1>6, <1>7, <1>8, <1>9 DEF MovesWell

LEMMA AskStepKeeps ==
  ASSUME LoopInv, NEW n \in Node, NEW p \in Node, AskPeer(n, p),
         batches' \in {batches, BatchesAfterAnswer(p, CurrentBatch(n))}, faults' \in Nat,
         \/ collected' = collected
         \/ collected' = [collected EXCEPT ![n][p] = CurrentBatch(n).transfers]
  PROVE  LoopInv' /\ Shape
<1>t. TypeOK /\ StepOf(n)
  BY DEF LoopInv, StepInv
<1> DEFINE b == batches[n][current[n]]
<1>1. /\ pc[n] = "ask" /\ p # n
      /\ asked' = [asked EXCEPT ![n] = asked[n] \cup {p}]
      /\ UNCHANGED <<received, rows, pc, current, known, sent, rskVars, ownerVars, leads>>
  BY DEF AskPeer, Peers
<1>2. b \in Batch /\ b.transfers \in Seq(Deposit) /\ CurrentBatch(n) = b
      /\ current[n] \in 1 .. Len(batches[n])
  BY <1>t, <1>1, BatchesAreTyped DEF StepOf, CurrentBatch
<1> HIDE DEF b
<1>3. /\ collected' \in [Node -> Signatures]
      /\ \A s \in Node : \/ collected'[n][s] = collected[n][s]
                         \/ s # n /\ collected'[n][s] = b.transfers
      /\ \A o \in Node \ {n} : collected'[o] = collected[o]
  <2>1. CASE collected' = collected
    BY <1>t, <2>1 DEF TypeOK
  <2>2. CASE collected' = [collected EXCEPT ![n][p] = b.transfers]
    <3> DEFINE own == [collected[n] EXCEPT ![p] = b.transfers]
    <3>1. own \in Signatures
          /\ \A s \in Node : own[s] = IF s = p THEN b.transfers ELSE collected[n][s]
      BY <1>t, <1>2 DEF TypeOK, Signatures
    <3>2. collected' = [collected EXCEPT ![n] = own]
      BY <2>2
    <3> HIDE DEF own
    <3>3. QED
      BY <1>t, <1>1, <3>1, <3>2 DEF TypeOK
  <2>3. QED
    BY <1>2, <2>1, <2>2
<1>4. asked' \in [Node -> SUBSET Node]
  BY <1>t, <1>1 DEF TypeOK
<1>5. \A o \in Node \ {n} : Stays(o)
  BY <1>1, <1>3 DEF Stays
<1>6. /\ batches' \in [Node -> Seq(Batch)]
      /\ batches'[n] = batches[n]
      /\ \A o \in Node \ {n} : MovesWell(o)
  <2>1. CASE batches' = batches
    BY <1>t, <1>5, <2>1, StayingMoves DEF TypeOK
  <2>2. CASE batches' = BatchesAfterAnswer(p, b) /\ batches' # batches
    <3>1. SignsNew(p, b)
      BY <2>2 DEF BatchesAfterAnswer
    <3>2. Stays(p)
      BY <1>1, <1>5
    <3>3. /\ batches' \in [Node -> Seq(Batch)]
          /\ \A o \in Node \ {p} : batches'[o] = batches[o]
          /\ MovesWell(p)
      BY <1>2, <2>2, <3>1, <3>2, StoringMoves
    <3>4. \A o \in Node \ {n} : o # p => MovesWell(o)
      BY <1>5, <3>3, StayingMoves
    <3>5. QED
      BY <1>1, <3>3, <3>4
  <2>3. QED
    BY <1>2, <2>1, <2>2
<1>7. TypeOK'
  BY <1>t, <1>1, <1>3, <1>4, <1>6 DEF TypeOK, rskVars, ownerVars
<1>8. StepOf(n)'
  BY <1>t, <1>1, <1>6 DEF StepOf
<1>9. NodeStep(n)
  BY <1>1, <1>3 DEF NodeStep, AskStep, b
<1>10. MovesWell(n)
  BY <1>1, <1>6, <1>8, <1>9, QuietMoves
<1>11. QED
  BY <1>1, <1>6, <1>7, <1>10, AllMoveWell, QuietChain, QuietOwner

LEMMA AskingStep ==
  \A n, p \in Node : LoopInv /\ (PeerAnswers(n, p) \/ AnswerIsLost(n, p)) => LoopInv' /\ Shape
<1> SUFFICES ASSUME NEW n \in Node, NEW p \in Node, LoopInv,
                    PeerAnswers(n, p) \/ AnswerIsLost(n, p)
             PROVE  LoopInv' /\ Shape
  OBVIOUS
<1>1. faults \in Nat
  BY DEF LoopInv, TypeOK
<1>2. CASE PeerAnswers(n, p)
  <2>1. /\ AskPeer(n, p) /\ faults' = faults
        /\ batches' = BatchesAfterAnswer(p, CurrentBatch(n))
        /\ \/ collected' = collected
           \/ collected' = [collected EXCEPT ![n][p] = CurrentBatch(n).transfers]
    BY <1>2 DEF PeerAnswers, Valid
  <2>2. QED
    BY <1>1, <2>1, AskStepKeeps
<1>3. CASE AnswerIsLost(n, p)
  <2>1. /\ AskPeer(n, p) /\ faults' = faults + 1
        /\ batches' \in {batches, BatchesAfterAnswer(p, CurrentBatch(n))}
        /\ collected' = collected
    BY <1>3 DEF AnswerIsLost, Fault
  <2>2. QED
    BY <1>1, <2>1, AskStepKeeps
<1>4. QED
  BY <1>2, <1>3

(* What is sent next is a transfer with a signature of each signer for it. *)
LEMMA CallIsMade ==
  ASSUME LoopInv, NEW n \in Node, pc[n] = "transact", MoreCalls(n),
         txs' = NextCall(n), processed' = processed,
         pc'[n] = "transact" => sent'[n] = Append(sent[n], Len(txs) + 1)
  PROVE  txs' \in Seq(Transaction) /\ TxsStep
<1>t. TypeOK /\ StepOf(n)
  BY DEF LoopInv, StepInv
<1> DEFINE b == batches[n][current[n]]
           k == Len(sent[n]) + 1
           call == Call(n, b, k)
<1>1. b \in Batch /\ b.transfers \in Seq(Deposit) /\ b.signatures \in Signatures
      /\ CurrentBatch(n) = b
  BY <1>t, BatchesAreTyped DEF StepOf, CurrentBatch
<1> HIDE DEF b
<1>2. k \in Nat /\ 1 <= k /\ k <= NumCalls(b)
  <2>1. sent[n] \in Seq(Nat) /\ NumCalls(b) \in Nat
    BY <1>t, <1>1, NumCallsBounds DEF TypeOK
  <2>2. QED
    BY <1>1, <2>1 DEF MoreCalls
<1> HIDE DEF k
<1>3. b.transfers[k] \in Deposit
  <2>1. NumCalls(b) \in Nat /\ NumCalls(b) <= Len(b.transfers) /\ Len(b.transfers) \in Nat
    BY <1>1, NumCallsBounds
  <2>2. k \in 1 .. Len(b.transfers)
    BY <1>2, <2>1
  <2>3. QED
    BY <1>1, <2>2
<1>4. \A s \in Node : b.signatures[s] # NoSignature => b.signatures[s][k] \in Deposit
  <2> SUFFICES ASSUME NEW s \in Node, b.signatures[s] # NoSignature
               PROVE  b.signatures[s][k] \in Deposit
    OBVIOUS
  <2>1. s \in Signers(b.signatures) /\ b.signatures[s] \in Seq(Deposit)
    BY <1>1, SignersSign
  <2>2. NumCalls(b) \in Nat /\ NumCalls(b) <= Len(b.signatures[s])
        /\ Len(b.signatures[s]) \in Nat
    BY <1>1, <2>1, NumCallsBounds
  <2>3. k \in 1 .. Len(b.signatures[s])
    BY <1>2, <2>2
  <2>4. QED
    BY <2>1, <2>3
<1>5. call \in Transaction
  BY <1>3, <1>4 DEF Call, Transaction
<1>6. txs' = Append(txs, call) /\ txs \in Seq(Transaction) /\ Len(txs) \in Nat
  BY <1>t, <1>1 DEF NextCall, TypeOK, k
<1> HIDE DEF call
<1>7. /\ txs' \in Seq(Transaction) /\ Len(txs') = Len(txs) + 1
      /\ \A i \in 1 .. Len(txs) : txs'[i] = txs[i]
  BY <1>5, <1>6
<1>8. NewTxStep(n)
  BY DEF NewTxStep
<1>9. QED
  BY <1>6, <1>7, <1>8 DEF TxsStep, OldTxStep

LEMMA TransactingStep == \A n \in Node : LoopInv /\ Transact(n) => LoopInv' /\ Shape
<1> SUFFICES ASSUME NEW n \in Node, LoopInv, Transact(n)
             PROVE  LoopInv' /\ Shape
  OBVIOUS
<1>t. TypeOK /\ StepOf(n)
  BY DEF LoopInv, StepInv
<1>1. /\ pc[n] = "transact" /\ MoreCalls(n) /\ txs' = NextCall(n)
      /\ sent' = [sent EXCEPT ![n] = Append(sent[n], Len(txs) + 1)]
      /\ UNCHANGED <<received, dbVars, pc, current, known, asked, collected,
                     processed, ownerVars, leads, faults>>
  BY DEF Transact
<1>2. Append(sent[n], Len(txs) + 1) \in Seq(Nat)
  BY <1>t DEF TypeOK
<1>3. /\ sent' \in [Node -> Seq(Nat)]
      /\ sent'[n] = Append(sent[n], Len(txs) + 1)
      /\ \A o \in Node \ {n} : sent'[o] = sent[o]
  BY <1>t, <1>1, <1>2 DEF TypeOK
<1>4. txs' \in Seq(Transaction) /\ TxsStep
  BY <1>1, <1>3, CallIsMade
<1>5. TypeOK'
  BY <1>t, <1>1, <1>3, <1>4 DEF TypeOK, dbVars, ownerVars
<1>6. StepOf(n)'
  BY <1>t, <1>1 DEF StepOf, dbVars
<1>7. NodeStep(n)
  BY <1>1, <1>3 DEF NodeStep, TransactStep
<1>8. \A o \in Node \ {n} : Stays(o)
  BY <1>1, <1>3 DEF Stays, dbVars
<1>9. QED
  BY <1>1, <1>4, <1>5, <1>6, <1>7, <1>8, QuietStep, QuietOwner

LEMMA TransactRaisesStep ==
  \A n \in Node : LoopInv /\ TransactRaises(n) => LoopInv' /\ Shape
<1> SUFFICES ASSUME NEW n \in Node, LoopInv, TransactRaises(n)
             PROVE  LoopInv' /\ Shape
  OBVIOUS
<1>t. TypeOK
  BY DEF LoopInv
<1>1. /\ pc[n] = "transact" /\ MoreCalls(n) /\ faults' = faults + 1
      /\ txs' \in {txs, NextCall(n)} /\ EndIteration(n)
      /\ UNCHANGED <<received, dbVars, processed, ownerVars, leads>>
  BY DEF TransactRaises, Fault
<1>2. txs' \in Seq(Transaction) /\ TxsStep
  <2>1. CASE txs' = txs
    BY <1>t, <1>1, <2>1, QuietChain DEF TypeOK, rskVars
  <2>2. CASE txs' = NextCall(n)
    <3>1. pc'[n] = "idle"
      BY <1>t, <1>1, IterationEnds
    <3>2. QED
      BY <1>1, <2>2, <3>1, CallIsMade
  <2>3. QED
    BY <1>1, <2>1, <2>2
<1>3. faults' \in Nat /\ leads' \subseteq Node /\ leads' = leads
      /\ processed' \subseteq Deposit
  BY <1>t, <1>1 DEF TypeOK
<1>4. QED
  BY <1>1, <1>2, <1>3, EndingStep

(* The steps that end an iteration and leave all else as it is *)
LEMMA RestingStep ==
  \A n \in Node : LoopInv /\ (NoCurrentBatch(n) \/ NothingSent(n) \/ ReceiptRaises(n))
                      => LoopInv' /\ Shape
<1> SUFFICES ASSUME NEW n \in Node, LoopInv,
                    NoCurrentBatch(n) \/ NothingSent(n) \/ ReceiptRaises(n)
             PROVE  LoopInv' /\ Shape
  OBVIOUS
<1>1. /\ EndIteration(n)
      /\ UNCHANGED <<received, dbVars, rskVars, ownerVars, leads, faults>>
  BY DEF NoCurrentBatch, NothingSent, ReceiptRaises
<1>2. leads' \subseteq Node /\ leads' = leads /\ faults' \in Nat
  BY <1>1 DEF LoopInv, TypeOK
<1>3. QED
  BY <1>1, <1>2, PlainEndingStep

LEMMA RestartStep ==
  \A n \in Node, leader \in BOOLEAN : LoopInv /\ Restart(n, leader) => LoopInv' /\ Shape
<1> SUFFICES ASSUME NEW n \in Node, NEW leader \in BOOLEAN, LoopInv, Restart(n, leader)
             PROVE  LoopInv' /\ Shape
  OBVIOUS
<1>1. /\ EndIteration(n) /\ faults' = faults + 1
      /\ leads' = IF leader THEN leads \cup {n} ELSE leads \ {n}
      /\ UNCHANGED <<received, dbVars, rskVars, ownerVars>>
  BY DEF Restart, Fault
<1>2. /\ leads' \subseteq Node /\ faults' \in Nat
      /\ \A o \in Node \ {n} : (o \in leads') = (o \in leads)
  BY <1>1 DEF LoopInv, TypeOK
<1>3. QED
  BY <1>1, <1>2, PlainEndingStep

LEMMA MineStep == \A i \in DOMAIN txs : LoopInv /\ Mine(i) => LoopInv' /\ Shape
<1> SUFFICES ASSUME NEW i \in DOMAIN txs, LoopInv, Mine(i)
             PROVE  LoopInv' /\ Shape
  OBVIOUS
<1>t. TypeOK
  BY DEF LoopInv
<1>1. /\ txs[i].state = "pending"
      /\ \A j \in 1 .. i - 1 : txs[j].by = txs[i].by => txs[j].state # "pending"
      /\ UNCHANGED <<received, dbVars, loopVars, ownerVars, leads, faults>>
  BY DEF Mine
<1>2. txs \in Seq(Transaction) /\ i \in 1 .. Len(txs) /\ Len(txs) \in Nat /\ txs[i] \in Transaction
  BY <1>t DEF TypeOK
<1>3. /\ txs' \in Seq(Transaction) /\ TxsStep
      /\ processed' \subseteq Deposit
  <2>1. CASE /\ acceptTransferFromTap(txs[i])
             /\ processed' = processed \cup {txs[i].dep}
             /\ txs' = [txs EXCEPT ![i].state = "ok"]
    <3> DEFINE c == [txs[i] EXCEPT !.state = "ok"]
    <3>1. /\ c \in Transaction /\ c.state = "ok" /\ c.by = txs[i].by /\ c.dep = txs[i].dep
          /\ c.signatures = txs[i].signatures
      BY <1>2 DEF Transaction
    <3>2. txs' = [txs EXCEPT ![i] = c]
      BY <2>1
    <3> HIDE DEF c
    <3>3. /\ txs' \in Seq(Transaction) /\ Len(txs') = Len(txs)
          /\ \A j \in 1 .. Len(txs) : txs'[j] = IF j = i THEN c ELSE txs[j]
      BY <1>2, <3>1, <3>2
    <3>4. txs[i].dep \in Deposit
      BY <1>2 DEF Transaction
    <3>5. \A j \in 1 .. Len(txs) : OldTxStep(j)
      BY <1>1, <2>1, <3>1, <3>3 DEF OldTxStep
    <3>6. \A d \in processed' \ processed :
             \E j \in 1 .. Len(txs) : txs'[j].state = "ok" /\ txs[j].dep = d
      BY <1>2, <2>1, <3>1, <3>3
    <3>7. processed \subseteq processed' /\ processed' \subseteq Deposit
      BY <1>t, <2>1, <3>4 DEF TypeOK
    <3>8. Len(txs') \in {Len(txs), Len(txs) + 1} /\ Len(txs') # Len(txs) + 1
      BY <1>2, <3>3
    <3>9. TxsStep
      BY <3>5, <3>6, <3>7, <3>8, Zenon DEF TxsStep
    <3>10. QED
      BY <3>3, <3>7, <3>9
  <2>2. CASE /\ ~acceptTransferFromTap(txs[i])
             /\ txs' = [txs EXCEPT ![i].state = "failed"]
             /\ UNCHANGED processed
    <3> DEFINE c == [txs[i] EXCEPT !.state = "failed"]
    <3>1. /\ c \in Transaction /\ c.state = "failed" /\ c.by = txs[i].by /\ c.dep = txs[i].dep
          /\ c.signatures = txs[i].signatures
      BY <1>2 DEF Transaction
    <3>2. txs' = [txs EXCEPT ![i] = c]
      BY <2>2
    <3> HIDE DEF c
    <3>3. /\ txs' \in Seq(Transaction) /\ Len(txs') = Len(txs)
          /\ \A j \in 1 .. Len(txs) : txs'[j] = IF j = i THEN c ELSE txs[j]
      BY <1>2, <3>1, <3>2
    <3>4. \A j \in 1 .. Len(txs) : OldTxStep(j)
      BY <1>1, <2>2, <3>1, <3>3 DEF OldTxStep
    <3>5. /\ processed \subseteq processed' /\ processed' \subseteq Deposit
          /\ processed' \ processed = {}
      BY <1>t, <2>2 DEF TypeOK
    <3>6. Len(txs') \in {Len(txs), Len(txs) + 1} /\ Len(txs') # Len(txs) + 1
      BY <1>2, <3>3
    <3>7. TxsStep
      BY <3>4, <3>5, <3>6, Zenon DEF TxsStep
    <3>8. QED
      BY <3>3, <3>5, <3>7
  <2>3. QED
    BY <2>1, <2>2 DEF Mine
<1>4. TypeOK'
  BY <1>t, <1>1, <1>3 DEF TypeOK, dbVars, loopVars, ownerVars
<1>5. \A n \in Node : MovesWell(n)
  BY <1>1, StayingMoves DEF Stays, dbVars, loopVars
<1>6. QED
  BY <1>1, <1>3, <1>4, <1>5, AllMoveWell, QuietOwner

LEMMA GovernStep == LoopInv /\ Govern => LoopInv' /\ Shape
<1> SUFFICES ASSUME LoopInv, Govern
             PROVE  LoopInv' /\ Shape
  OBVIOUS
<1>t. TypeOK
  BY DEF LoopInv
<1>1. /\ OwnerChanges
      /\ listed' \in BOOLEAN /\ federators' \subseteq Node /\ required' \in Nat
  <2>1. CASE addBridgeableAsset
    BY <1>t, <2>1 DEF addBridgeableAsset, TypeOK
  <2>2. CASE removeBridgeableAsset
    BY <1>t, <2>2 DEF removeBridgeableAsset, TypeOK
  <2>3. ASSUME NEW n \in Node, addFederator(n) \/ removeFederator(n)
        PROVE  /\ OwnerChanges
               /\ listed' \in BOOLEAN /\ federators' \subseteq Node /\ required' \in Nat
    BY <1>t, <2>3 DEF addFederator, removeFederator, TypeOK
  <2>4. ASSUME NEW k \in 1 .. Cardinality(Node), setNumRequiredSigners(k)
        PROVE  /\ OwnerChanges
               /\ listed' \in BOOLEAN /\ federators' \subseteq Node /\ required' \in Nat
    <3>1. k \in Nat
      OBVIOUS
    <3>2. QED
      BY <1>t, <2>4, <3>1 DEF setNumRequiredSigners, TypeOK
  <2>5. QED
    BY <2>1, <2>2, <2>3, <2>4 DEF Govern
<1>2. /\ governance' = governance + 1
      /\ UNCHANGED <<received, dbVars, loopVars, rskVars, leads, faults>>
  BY <1>1 DEF OwnerChanges
<1>3. TypeOK' /\ OwnerStep
  BY <1>t, <1>1, <1>2 DEF TypeOK, OwnerStep, dbVars, loopVars, rskVars
<1>4. \A n \in Node : MovesWell(n)
  BY <1>2, StayingMoves DEF Stays, dbVars, loopVars
<1>5. QED
  BY <1>2, <1>3, <1>4, AllMoveWell, QuietChain

LEMMA LoopInitially == Init => LoopInv
<1> SUFFICES ASSUME Init
             PROVE  LoopInv
  OBVIOUS
<1>1. Required \in Nat /\ FirstLeader \in Node
  <2>1. Cardinality(Node) \in Nat /\ Required \in 1 .. Cardinality(Node) /\ FirstLeader \in Node
    BY FederationAssumption, FS_CardinalityType
  <2>2. QED
    BY <2>1
<1>2. NoSignatures \in Signatures
  BY DEF NoSignatures, Signatures
<1>3. TypeOK
  BY <1>1, <1>2 DEF Init, TypeOK, Loop, Known
<1>4. StepInv
  BY DEF Init, StepInv, StepOf
<1>5. \A n \in Node : rows[n] = <<>> /\ batches[n] = <<>>
  BY DEF Init
<1>6. RowsInv
  BY <1>5 DEF RowsInv, RowsOf
<1>7. CutInv
  <2> SUFFICES ASSUME NEW n \in Node
               PROVE  \E cut : IsCut(n, cut)
    BY DEF CutInv
  <2> DEFINE cut == [i \in 0 .. 0 |-> 0]
  <2>1. cut \in [0 .. 0 -> Nat] /\ cut[0] = 0
    OBVIOUS
  <2>2. Len(batches[n]) = 0 /\ Len(rows[n]) = 0
    BY <1>5
  <2>3. \A i \in 0 .. 0 : cut[i] = 0
    BY <2>1
  <2> HIDE DEF cut
  <2>4. IsCut(n, cut)
    BY <2>1, <2>2, <2>3 DEF IsCut
  <2>5. QED
    BY <2>4
<1>8. QED
  BY <1>3, <1>4, <1>6, <1>7 DEF LoopInv

LEMMA LoopInductive == LoopInv /\ [Next]_vars => LoopInv' /\ Shape
<1> SUFFICES ASSUME LoopInv, [Next]_vars
             PROVE  LoopInv' /\ Shape
  OBVIOUS
<1>1. ASSUME NEW d \in Deposit, Completed(d)
      PROVE  LoopInv' /\ Shape
  BY <1>1, CompletedStep
<1>2. ASSUME NEW n \in Node, RunIteration(n)
      PROVE  LoopInv' /\ Shape
  BY <1>2, RunIterationStep
<1>3. ASSUME NEW n \in Node, process_current_transfer_batch(n)
      PROVE  LoopInv' /\ Shape
  <2>1. CASE NoCurrentBatch(n) \/ NothingSent(n) \/ ReceiptRaises(n)
    BY <2>1, RestingStep
  <2>2. CASE BeginCollecting(n)
    BY <2>2, BeginCollectingStep
  <2>3. CASE TakeUp(n)
    BY <2>3, TakeUpStep
  <2>4. CASE \E p \in Node : PeerAnswers(n, p) \/ AnswerIsLost(n, p)
    BY <2>4, AskingStep
  <2>5. CASE StoreSignatures(n)
    BY <2>5, StoreSignaturesStep
  <2>6. CASE BeginSending(n)
    BY <2>6, BeginSendingStep
  <2>7. CASE Transact(n)
    BY <2>7, TransactingStep
  <2>8. CASE TransactRaises(n)
    BY <2>8, TransactRaisesStep
  <2>9. CASE MarkSent(n)
    BY <2>9, MarkSentStep
  <2>10. CASE ReceiptOk(n)
    BY <2>10, ReceiptOkStep
  <2>11. QED
    BY <1>3, <2>1, <2>2, <2>3, <2>4, <2>5, <2>6, <2>7, <2>8, <2>9, <2>10
       DEF process_current_transfer_batch
<1>4. ASSUME NEW i \in DOMAIN txs, Mine(i)
      PROVE  LoopInv' /\ Shape
  BY <1>4, MineStep
<1>5. CASE Govern
  BY <1>5, GovernStep
<1>6. ASSUME NEW n \in Node, NEW leader \in BOOLEAN, Restart(n, leader)
      PROVE  LoopInv' /\ Shape
  BY <1>6, RestartStep
<1>7. CASE UNCHANGED vars
  <2>1. UNCHANGED <<received, dbVars, loopVars, rskVars, ownerVars, leads, faults>>
    BY <1>7 DEF vars
  <2>2. TypeOK'
    BY <2>1 DEF LoopInv, TypeOK, dbVars, loopVars, rskVars, ownerVars
  <2>3. \A n \in Node : MovesWell(n)
    BY <2>1, StayingMoves DEF Stays, dbVars, loopVars
  <2>4. QED
    BY <2>1, <2>2, <2>3, AllMoveWell, QuietChain, QuietOwner
<1>8. QED
  BY <1>1, <1>2, <1>3, <1>4, <1>5, <1>6, <1>7 DEF Next

-----------------------------------------------------------------------------
(* Batches come one at a time and are signed in full *)

(* What the signatures of a batch that has transfers can be: its own node   *)
(* signs when it sends, and peers sign all of it or nothing.                *)
Own(n, transfers, signatures) ==
    transfers # <<>> =>
        /\ signatures[n] = NoSignature
        /\ \A s \in Node : signatures[s] \in {NoSignature, transfers}

SignInv ==
    \A n \in Node :
        /\ \A i \in 1 .. Len(batches[n]) : Own(n, batches[n][i].transfers, batches[n][i].signatures)
        /\ pc[n] = "ask" => Own(n, batches[n][current[n]].transfers, collected[n])

LEMMA OldBatchMoves ==
  ASSUME LoopInv, Shape, NEW n \in Node, NEW i \in 1 .. Len(batches[n])
  PROVE  /\ Len(batches[n]) \in Nat /\ i \in 1 .. Len(batches'[n])
         /\ batches'[n][i].transfers = batches[n][i].transfers
         /\ \/ batches'[n][i] = batches[n][i]
            \/ i = current[n] /\ pc[n] = "ask" /\ batches[n][i].status = "CREATED"
               /\ batches'[n][i].status \in {"CREATED", "SIGNATURES_COLLECTED"}
            \/ i = current[n] /\ pc[n] = "send" /\ batches[n][i].status = "SIGNATURES_COLLECTED"
               /\ batches'[n][i].status = "SENDING_TO_RSK"
            \/ i = current[n] /\ pc[n] = "transact" /\ batches[n][i].status = "SENDING_TO_RSK"
               /\ batches'[n][i].status = "SENT_TO_RSK"
            \/ i = current[n] /\ pc[n] = "receipt" /\ batches[n][i].status = "SENT_TO_RSK"
               /\ batches'[n][i].status = "FINALIZED"
<1>1. TypeOK /\ StepOf(n) /\ BatchesStep(n) /\ Len(batches[n]) \in Nat
  BY BatchesAreTyped DEF LoopInv, StepInv, Shape
<1>2. i \in 1 .. Len(batches'[n])
  BY <1>1 DEF BatchesStep
<1>3. OldBatchStep(n, i)
  BY <1>1 DEF BatchesStep
<1>4. QED
  BY <1>1, <1>2, <1>3 DEF OldBatchStep, StepOf

(* The batches after a step are those before it and perhaps one more. *)
LEMMA OldOrNew ==
  ASSUME LoopInv, Shape, NEW n \in Node, NEW i \in 1 .. Len(batches'[n])
  PROVE  \/ i \in 1 .. Len(batches[n])
         \/ i = Len(batches[n]) + 1 /\ NewBatchStep(n, i)
<1>1. BatchesStep(n) /\ Len(batches[n]) \in Nat
  BY BatchesAreTyped DEF LoopInv, Shape
<1>2. QED
  BY <1>1 DEF BatchesStep

LEMMA OrderInductive ==
  ASSUME LoopInv, LoopInv', Shape, OneBatchAtATime
  PROVE  OneBatchAtATime'
<1>1. \A n \in Node : /\ DOMAIN batches[n] = 1 .. Len(batches[n])
                      /\ batches' \in [Node -> Seq(Batch)]
  BY BatchesAreTyped DEF LoopInv, TypeOK
<1>2. \A n \in Node : DOMAIN batches'[n] = 1 .. Len(batches'[n])
  BY <1>1
<1>3. SUFFICES ASSUME NEW n \in Node,
                      NEW i \in 1 .. Len(batches'[n]), NEW j \in 1 .. Len(batches'[n]),
                      i < j, batches'[n][i].transfers # <<>>, batches'[n][j].transfers # <<>>
               PROVE  batches'[n][i].status = "FINALIZED"
  BY <1>2 DEF OneBatchAtATime
<1>4. Len(batches[n]) \in Nat /\ StepOf(n)
  BY BatchesAreTyped DEF LoopInv, StepInv
<1>5. CASE j \in 1 .. Len(batches[n])
  <2>1. i \in 1 .. Len(batches[n])
    BY <1>3, <1>4, <1>5
  <2>2. batches[n][i].status = "FINALIZED"
    <3>1. batches[n][i].transfers # <<>> /\ batches[n][j].transfers # <<>>
      BY <1>3, <1>5, <2>1, OldBatchMoves
    <3>2. QED
      BY <1>1, <1>3, <1>5, <2>1, <3>1 DEF OneBatchAtATime
  <2>3. QED
    BY <2>1, <2>2, OldBatchMoves
<1>6. CASE j = Len(batches[n]) + 1 /\ NewBatchStep(n, j)
  <2>1. i \in 1 .. Len(batches[n])
    BY <1>3, <1>4, <1>6
  <2>2. batches[n][i].status = "FINALIZED"
    <3>1. Unfinished(n) = {}
      BY <1>3, <1>6 DEF NewBatchStep
    <3>2. QED
      BY <1>1, <2>1, <3>1 DEF Unfinished
  <2>3. QED
    BY <2>1, <2>2, OldBatchMoves
<1>7. QED
  BY <1>5, <1>6, OldOrNew

LEMMA SignInductive ==
  ASSUME LoopInv, LoopInv', Shape, SignInv
  PROVE  SignInv'
<1>t. NoSignatures = [m \in Node |-> NoSignature]
  BY DEF NoSignatures
<1> SUFFICES ASSUME NEW n \in Node
             PROVE  /\ \A i \in 1 .. Len(batches'[n]) :
                          Own(n, batches'[n][i].transfers, batches'[n][i].signatures)
                    /\ pc'[n] = "ask" => Own(n, batches'[n][current'[n]].transfers, collected'[n])
  BY DEF SignInv, Own
<1>1. Len(batches[n]) \in Nat /\ StepOf(n) /\ StepOf(n)'
  BY BatchesAreTyped DEF LoopInv, StepInv
<1>2. /\ \A i \in 1 .. Len(batches[n]) : Own(n, batches[n][i].transfers, batches[n][i].signatures)
      /\ pc[n] = "ask" => Own(n, batches[n][current[n]].transfers, collected[n])
  BY DEF SignInv
<1>3. ASSUME NEW i \in 1 .. Len(batches'[n])
      PROVE  Own(n, batches'[n][i].transfers, batches'[n][i].signatures)
  <2>1. CASE i \in 1 .. Len(batches[n])
    <3>1. OldBatchStep(n, i) /\ batches'[n][i].transfers = batches[n][i].transfers
      BY <2>1, OldBatchMoves DEF Shape, BatchesStep
    <3>2. \/ batches'[n][i].signatures = batches[n][i].signatures
          \/ pc[n] = "ask" /\ i = current[n] /\ batches'[n][i].signatures = collected[n]
      BY <3>1 DEF OldBatchStep
    <3>3. QED
      BY <1>2, <2>1, <3>1, <3>2
  <2>2. CASE NewBatchStep(n, i)
    BY <1>t, <2>2 DEF NewBatchStep, Own
  <2>3. QED
    BY <2>1, <2>2, OldOrNew
<1>4. ASSUME pc'[n] = "ask"
      PROVE  Own(n, batches'[n][current'[n]].transfers, collected'[n])
  <2>1. AskStep(n) /\ current'[n] \in 1 .. Len(batches'[n])
    BY <1>1, <1>4 DEF Shape, NodeStep, StepOf
  <2>2. CASE pc[n] = "batch"
    BY <1>3, <2>1, <2>2 DEF AskStep
  <2>3. CASE pc[n] = "ask"
    <3>1. /\ current'[n] = current[n] /\ current[n] \in 1 .. Len(batches[n])
          /\ \A s \in Node : \/ collected'[n][s] = collected[n][s]
                             \/ s # n /\ collected'[n][s] = batches[n][current[n]].transfers
      BY <1>1, <2>1, <2>3 DEF AskStep, StepOf
    <3>2. batches'[n][current[n]].transfers = batches[n][current[n]].transfers
      BY <3>1, OldBatchMoves
    <3>3. QED
      BY <1>2, <2>3, <3>1, <3>2 DEF Own
  <2>4. QED
    BY <2>1, <2>2, <2>3 DEF AskStep
<1>5. QED
  BY <1>3, <1>4

(* Signatures that are there are for every transfer of the batch. *)
LEMMA FullySigned ==
  ASSUME LoopInv, SignInv, NEW n \in Node, NEW i \in 1 .. Len(batches[n]),
         Signers(batches[n][i].signatures) # {}
  PROVE  NumCalls(batches[n][i]) = Len(batches[n][i].transfers)
<1> DEFINE b == batches[n][i]
<1>1. /\ b \in Batch /\ b.transfers \in Seq(Deposit) /\ b.signatures \in Signatures
      /\ Own(n, b.transfers, b.signatures)
  BY BatchesAreTyped DEF LoopInv, SignInv
<1> HIDE DEF b
<1>2. Len(b.transfers) \in Nat /\ NumCalls(b) \in Nat /\ NumCalls(b) <= Len(b.transfers)
  BY <1>1, NumCallsBounds
<1>3. CASE b.transfers = <<>>
  <2>1. Len(b.transfers) = 0
    BY <1>3
  <2>2. QED
    BY <1>2, <2>1 DEF b
<1>4. CASE b.transfers # <<>>
  <2>1. \A s \in Signers(b.signatures) : b.signatures[s] = b.transfers
    BY <1>1, <1>4, SignersSign DEF Own
  <2>2. \A s \in Signers(b.signatures) : Len(b.signatures[s]) >= Len(b.transfers)
    BY <1>2, <2>1
  <2>3. QED
    BY <1>1, <2>2, NumCallsBounds DEF b
<1>5. QED
  BY <1>3, <1>4

LEMMA BatchInvariantHolds == LoopInv /\ OneBatchAtATime /\ SignInv => BatchInvariant
<1> SUFFICES ASSUME LoopInv, OneBatchAtATime, SignInv
             PROVE  BatchInvariant
  OBVIOUS
<1>1. \A n \in Node : DOMAIN batches[n] = 1 .. Len(batches[n])
  BY BatchesAreTyped DEF LoopInv
<1>2. SignedInFull
  BY <1>1, FullySigned DEF SignedInFull
<1>3. QED
  BY <1>2 DEF BatchInvariant, LoopInv

-----------------------------------------------------------------------------
(* Transfers are sent once *)

(* The node that is sending has sent the first transfers of its batch, in   *)
(* the order of the batch.                                                  *)
SendingOf(n) ==
    pc[n] = "transact" =>
        /\ Len(sent[n]) <= NumCalls(batches[n][current[n]])
        /\ \A k \in 1 .. Len(sent[n]) :
              /\ sent[n][k] \in 1 .. Len(txs)
              /\ sent[n][k] <= Last(sent[n])
              /\ txs[sent[n][k]].by = n
              /\ txs[sent[n][k]].dep = batches[n][current[n]].transfers[k]

SendInv == \A n \in Node : SendingOf(n)

(* What has been sent is transfer k of a batch that its node has begun to   *)
(* send, and not one that it has still to send.                             *)
IsTransfer(i, j, k) ==
    LET n == txs[i].by
    IN  /\ j \in 1 .. Len(batches[n]) /\ k \in 1 .. Len(batches[n][j].transfers)
        /\ txs[i].dep = batches[n][j].transfers[k]
        /\ batches[n][j].status \in {"SENDING_TO_RSK", "SENT_TO_RSK", "FINALIZED"}
        /\ pc[n] = "transact" /\ j = current[n] => k <= Len(sent[n])

TxInv == \A i \in 1 .. Len(txs) : \E j, k \in Nat : IsTransfer(i, j, k)

(* The call that a step makes, if it makes one, is for transfer k of the    *)
(* current batch of node n.                                                 *)
MakesCall(n, k) ==
    /\ pc[n] = "transact" /\ current[n] \in 1 .. Len(batches[n])
    /\ batches[n][current[n]].status = "SENDING_TO_RSK"
    /\ k = Len(sent[n]) + 1 /\ k \in 1 .. Len(batches[n][current[n]].transfers)
    /\ k <= NumCalls(batches[n][current[n]])
    /\ batches'[n][current[n]] = batches[n][current[n]]
    /\ txs'[Len(txs) + 1] = Call(n, batches[n][current[n]], k)
    /\ pc'[n] = "transact" => Len(sent'[n]) = k /\ current'[n] = current[n]

LEMMA NewTx ==
  ASSUME LoopInv, LoopInv', Shape, Len(txs') = Len(txs) + 1
  PROVE  \E n \in Node : \E k \in Nat : MakesCall(n, k)
<1>1. PICK n \in Node : NewTxStep(n)
  BY DEF Shape, TxsStep
<1> DEFINE b == batches[n][current[n]]
           k == Len(sent[n]) + 1
<1>2. /\ pc[n] = "transact" /\ MoreCalls(n) /\ txs' = NextCall(n)
      /\ pc'[n] = "transact" => sent'[n] = Append(sent[n], Len(txs) + 1)
  BY <1>1 DEF NewTxStep
<1>3. /\ TypeOK /\ current[n] \in 1 .. Len(batches[n]) /\ b.status = "SENDING_TO_RSK"
      /\ b \in Batch /\ b.transfers \in Seq(Deposit)
  BY <1>2, BatchesAreTyped DEF LoopInv, StepInv, StepOf
<1>4. sent[n] \in Seq(Nat) /\ txs \in Seq(Transaction)
  BY <1>3 DEF TypeOK
<1>5. Len(sent[n]) \in Nat /\ NumCalls(b) \in Nat /\ NumCalls(b) <= Len(b.transfers)
      /\ Len(b.transfers) \in Nat
  BY <1>3, <1>4, NumCallsBounds
<1>6. Len(sent[n]) < NumCalls(b)
  BY <1>2 DEF MoreCalls, CurrentBatch
<1>7. k \in Nat /\ k \in 1 .. Len(b.transfers) /\ k <= NumCalls(b)
  <2> HIDE DEF b
  <2>1. QED
    BY <1>5, <1>6
<1>8. batches'[n][current[n]] = b
  <2>1. OldBatchStep(n, current[n])
    BY <1>3 DEF Shape, BatchesStep
  <2>2. QED
    BY <1>2, <2>1 DEF OldBatchStep
<1>9. txs'[Len(txs) + 1] = Call(n, b, k)
  BY <1>2, <1>4 DEF NextCall, CurrentBatch
<1>10. pc'[n] = "transact" => Len(sent'[n]) = k /\ current'[n] = current[n]
  <2> SUFFICES ASSUME pc'[n] = "transact"
               PROVE  Len(sent'[n]) = k /\ current'[n] = current[n]
    OBVIOUS
  <2>1. sent'[n] = Append(sent[n], Len(txs) + 1)
    BY <1>2
  <2>2. Len(sent'[n]) = k
    BY <1>4, <2>1
  <2>3. current'[n] = current[n]
    BY DEF Shape, NodeStep, TransactStep
  <2>4. QED
    BY <2>2, <2>3
<1> HIDE DEF b, k
<1>11. MakesCall(n, k)
  BY <1>2, <1>3, <1>7, <1>8, <1>9, <1>10 DEF MakesCall, b, k
<1>12. QED
  BY <1>7, <1>11

LEMMA OneMore ==
  ASSUME NEW a \in Nat, NEW c \in Nat, c = a \/ c = a + 1, NEW i \in 1 .. c
  PROVE  i \in 1 .. a \/ (i = a + 1 /\ c = a + 1)
OBVIOUS

(* The transactions after a step are those before it and perhaps one more. *)
LEMMA OldTxs ==
  ASSUME LoopInv, Shape
  PROVE  /\ Len(txs) \in Nat /\ Len(txs) <= Len(txs')
         /\ \A i \in 1 .. Len(txs) :
               /\ i \in 1 .. Len(txs') /\ OldTxStep(i) /\ txs[i].by \in Node
               /\ txs'[i].by = txs[i].by /\ txs'[i].dep = txs[i].dep
         /\ \A i \in 1 .. Len(txs') :
               i \in 1 .. Len(txs) \/ (i = Len(txs) + 1 /\ Len(txs') = Len(txs) + 1)
<1>1. txs \in Seq(Transaction) /\ TxsStep
  BY DEF LoopInv, TypeOK, Shape
<1>2. Len(txs) \in Nat /\ Len(txs') \in {Len(txs), Len(txs) + 1}
  BY <1>1 DEF TxsStep
<1>3. \A i \in 1 .. Len(txs) : OldTxStep(i) /\ txs[i].by \in Node
  <2>1. \A i \in 1 .. Len(txs) : txs[i] \in Transaction
    BY <1>1
  <2>2. QED
    BY <1>1, <2>1 DEF TxsStep, Transaction
<1>4. \A i \in 1 .. Len(txs) : txs'[i].by = txs[i].by /\ txs'[i].dep = txs[i].dep
  BY <1>3 DEF OldTxStep
<1>5. \A i \in 1 .. Len(txs) : i \in 1 .. Len(txs')
  BY <1>2
<1>6. \A i \in 1 .. Len(txs') :
         i \in 1 .. Len(txs) \/ (i = Len(txs) + 1 /\ Len(txs') = Len(txs) + 1)
  <2>1. Len(txs') \in Nat /\ (Len(txs') = Len(txs) \/ Len(txs') = Len(txs) + 1)
    BY <1>2
  <2>2. ASSUME NEW i \in 1 .. Len(txs')
        PROVE  i \in 1 .. Len(txs) \/ (i = Len(txs) + 1 /\ Len(txs') = Len(txs) + 1)
    BY <1>2, <2>1, OneMore
  <2>3. QED
    BY <2>2
<1>7. Len(txs) \in Nat /\ Len(txs) <= Len(txs')
  BY <1>2
<1>8. QED
  BY <1>3, <1>4, <1>5, <1>6, <1>7

LEMMA SendInductive ==
  ASSUME LoopInv, LoopInv', Shape, SignInv, SendInv
  PROVE  SendInv'
<1> SUFFICES ASSUME NEW n \in Node, pc'[n] = "transact"
             PROVE  /\ Len(sent'[n]) <= NumCalls(batches'[n][current'[n]])
                    /\ \A k \in 1 .. Len(sent'[n]) :
                          /\ sent'[n][k] \in 1 .. Len(txs')
                          /\ sent'[n][k] <= Last(sent'[n])
                          /\ txs'[sent'[n][k]].by = n
                          /\ txs'[sent'[n][k]].dep = batches'[n][current'[n]].transfers[k]
  BY DEF SendInv, SendingOf, NumCalls, Signers
<1> DEFINE c == current[n]
           b == batches[n][c]
<1>1. /\ TypeOK /\ TypeOK' /\ StepOf(n) /\ StepOf(n)' /\ TransactStep(n) /\ SendingOf(n)
  BY DEF LoopInv, StepInv, Shape, NodeStep, SendInv
<1>2. current'[n] = c
  BY <1>1 DEF TransactStep
<1>3. batches'[n][c] \in Batch
  BY <1>1, <1>2 DEF StepOf, TypeOK
<1>4. CASE sent'[n] = <<>>
  <2>1. NumCalls(batches'[n][c]) \in Nat
    BY <1>3, NumCallsBounds
  <2>2. Len(sent'[n]) = 0
    BY <1>4
  <2>3. QED
    BY <1>2, <2>1, <2>2
<1>5. CASE pc[n] = "transact"
  <2>1. c \in 1 .. Len(batches[n]) /\ b.status = "SENDING_TO_RSK"
        /\ batches'[n][c].status = "SENDING_TO_RSK"
    BY <1>1, <1>2, <1>5 DEF StepOf
  <2>2. batches'[n][c] = b
    BY <1>5, <2>1, OldBatchMoves
  <2>3. /\ Len(sent[n]) <= NumCalls(b)
        /\ \A k \in 1 .. Len(sent[n]) :
              /\ sent[n][k] \in 1 .. Len(txs) /\ sent[n][k] <= Last(sent[n])
              /\ txs[sent[n][k]].by = n /\ txs[sent[n][k]].dep = b.transfers[k]
    BY <1>1, <1>5 DEF SendingOf
  <2>4. \A k \in 1 .. Len(sent[n]) :
              /\ sent[n][k] \in 1 .. Len(txs')
              /\ txs'[sent[n][k]].by = n /\ txs'[sent[n][k]].dep = b.transfers[k]
    BY <2>3, OldTxs
  <2> HIDE DEF b
  <2>5. CASE sent'[n] = sent[n]
    BY <1>2, <2>2, <2>3, <2>4, <2>5
  <2>6. CASE /\ MoreCalls(n)
             /\ sent'[n] = Append(sent[n], Len(txs) + 1)
             /\ txs' = NextCall(n)
    <3> DEFINE num == Len(sent[n])
               max == Len(txs)
    <3>1. sent[n] \in Seq(Nat) /\ txs \in Seq(Transaction)
      BY <1>1 DEF TypeOK
    <3>2. /\ num \in Nat /\ max \in Nat
          /\ Len(sent'[n]) = num + 1 /\ sent'[n][num + 1] = max + 1
          /\ \A k \in 1 .. num : sent'[n][k] = sent[n][k] /\ sent[n][k] \in Nat
          /\ Last(sent'[n]) = max + 1
      BY <2>6, <3>1 DEF Last
    <3>3. Len(txs') = max + 1 /\ txs'[max + 1] = Call(n, b, num + 1)
      BY <2>6, <3>1 DEF NextCall, CurrentBatch, b
    <3>4. txs'[max + 1].by = n /\ txs'[max + 1].dep = b.transfers[num + 1]
      BY <3>3 DEF Call
    <3>5. num < NumCalls(b) /\ NumCalls(b) \in Nat
      <4>1. num < NumCalls(b)
        BY <2>6 DEF MoreCalls, CurrentBatch, b
      <4>2. NumCalls(b) \in Nat
        BY <1>3, <2>2, NumCallsBounds
      <4>3. QED
        BY <4>1, <4>2
    <3>6. \A k \in 1 .. num : sent[n][k] \in 1 .. max
      BY <2>3
    <3> HIDE DEF num, max
    <3>7. num + 1 <= NumCalls(b)
      BY <3>2, <3>5
    <3>8. ASSUME NEW k \in 1 .. num + 1
          PROVE  /\ sent'[n][k] \in 1 .. Len(txs') /\ sent'[n][k] <= Last(sent'[n])
                 /\ txs'[sent'[n][k]].by = n /\ txs'[sent'[n][k]].dep = b.transfers[k]
      <4>1. CASE k = num + 1
        BY <3>2, <3>3, <3>4, <4>1
      <4>2. CASE k \in 1 .. num
        <5>1. sent'[n][k] = sent[n][k] /\ sent[n][k] \in 1 .. max
          BY <3>2, <3>6, <4>2
        <5>2. sent'[n][k] <= Last(sent'[n]) /\ sent'[n][k] \in 1 .. Len(txs')
          BY <3>2, <3>3, <5>1
        <5>3. txs'[sent[n][k]].by = n /\ txs'[sent[n][k]].dep = b.transfers[k]
          BY <2>4, <4>2 DEF num
        <5>4. QED
          BY <5>1, <5>2, <5>3
      <4>3. QED
        BY <3>2, <4>1, <4>2
    <3>9. QED
      BY <1>2, <2>2, <3>2, <3>7, <3>8
  <2>7. QED
    BY <1>1, <1>5, <2>5, <2>6 DEF TransactStep
<1>6. QED
  BY <1>1, <1>4, <1>5 DEF TransactStep

LEMMA TxInductive ==
  ASSUME LoopInv, LoopInv', Shape, SignInv, SendInv, TxInv
  PROVE  TxInv'
<1> SUFFICES ASSUME NEW i \in 1 .. Len(txs')
             PROVE  \E j, k \in Nat :
                      LET n == txs'[i].by
                      IN  /\ j \in 1 .. Len(batches'[n])
                          /\ k \in 1 .. Len(batches'[n][j].transfers)
                          /\ txs'[i].dep = batches'[n][j].transfers[k]
                          /\ batches'[n][j].status \in {"SENDING_TO_RSK", "SENT_TO_RSK", "FINALIZED"}
                          /\ pc'[n] = "transact" /\ j = current'[n] => k <= Len(sent'[n])
  BY DEF TxInv, IsTransfer
<1>1. CASE i \in 1 .. Len(txs)
  <2> DEFINE n == txs[i].by
  <2>1. PICK j \in Nat, k \in Nat : IsTransfer(i, j, k)
    BY <1>1 DEF TxInv
  <2>2. /\ n \in Node /\ txs'[i].by = n /\ txs'[i].dep = txs[i].dep
    BY <1>1, OldTxs
  <2>3. /\ j \in 1 .. Len(batches[n]) /\ k \in 1 .. Len(batches[n][j].transfers)
        /\ txs[i].dep = batches[n][j].transfers[k]
        /\ batches[n][j].status \in {"SENDING_TO_RSK", "SENT_TO_RSK", "FINALIZED"}
        /\ pc[n] = "transact" /\ j = current[n] => k <= Len(sent[n])
    BY <2>1 DEF IsTransfer
  <2> HIDE DEF n
  <2>4. /\ j \in 1 .. Len(batches'[n])
        /\ batches'[n][j].transfers = batches[n][j].transfers
        /\ batches'[n][j].status \in {"SENDING_TO_RSK", "SENT_TO_RSK", "FINALIZED"}
    BY <2>2, <2>3, OldBatchMoves
  <2>5. ASSUME pc'[n] = "transact", j = current'[n]
        PROVE  k <= Len(sent'[n])
    <3>1. TypeOK /\ StepOf(n) /\ TransactStep(n)
      BY <2>2, <2>5 DEF LoopInv, StepInv, Shape, NodeStep
    <3>2. j = current[n] /\ pc[n] = "transact"
      BY <2>3, <2>5, <3>1 DEF TransactStep, StepOf
    <3>3. k <= Len(sent[n])
      BY <2>3, <3>2
    <3>4. sent[n] \in Seq(Nat)
      BY <2>2, <3>1 DEF TypeOK
    <3>5. sent'[n] = sent[n] \/ sent'[n] = Append(sent[n], Len(txs) + 1)
      BY <3>1, <3>2 DEF TransactStep
    <3>6. Len(sent'[n]) \in {Len(sent[n]), Len(sent[n]) + 1} /\ Len(sent[n]) \in Nat
      BY <3>4, <3>5
    <3>7. QED
      BY <3>3, <3>6
  <2>6. QED
    BY <2>2, <2>3, <2>4, <2>5
<1>2. CASE i = Len(txs) + 1 /\ Len(txs') = Len(txs) + 1
  <2>1. PICK n \in Node, k \in Nat : MakesCall(n, k)
    BY <1>2, NewTx
  <2> DEFINE c == current[n]
             b == batches[n][c]
  <2>2. txs'[i].by = n /\ txs'[i].dep = b.transfers[k]
    BY <1>2, <2>1 DEF Call, MakesCall
  <2>3. /\ batches'[n][c] = b /\ b.status = "SENDING_TO_RSK" /\ k \in 1 .. Len(b.transfers)
        /\ c \in 1 .. Len(batches[n])
        /\ pc'[n] = "transact" => Len(sent'[n]) = k
    BY <2>1 DEF MakesCall
  <2>4. c \in 1 .. Len(batches'[n]) /\ c \in Nat
    BY <2>3, OldBatchMoves
  <2>5. pc'[n] = "transact" => k <= Len(sent'[n])
    BY <2>3
  <2> HIDE DEF b, c
  <2>6. QED
    BY <2>2, <2>3, <2>4, <2>5
<1>3. QED
  BY <1>1, <1>2, OldTxs

LEMMA SentOnceInductive ==
  ASSUME LoopInv, LoopInv', Shape, SignInv, SendInv, TxInv, SentOnce
  PROVE  SentOnce'
<1>1. txs \in Seq(Transaction) /\ txs' \in Seq(Transaction)
  BY DEF LoopInv, TypeOK
<1>2. ASSUME NEW i \in 1 .. Len(txs), NEW j \in 1 .. Len(txs'), Len(txs') = Len(txs) + 1,
             j = Len(txs) + 1, txs'[i].dep = txs'[j].dep
      PROVE  FALSE
  <2>1. PICK n \in Node, k \in Nat : MakesCall(n, k)
    BY <1>2, NewTx
  <2> DEFINE c == current[n]
  <2>c. /\ c \in 1 .. Len(batches[n]) /\ k \in 1 .. Len(batches[n][c].transfers)
        /\ pc[n] = "transact" /\ k = Len(sent[n]) + 1
    BY <2>1 DEF MakesCall
  <2>2. txs'[j].dep = batches[n][c].transfers[k]
    BY <1>2, <2>1 DEF Call, MakesCall
  <2>3. PICK l \in Nat, m \in Nat : IsTransfer(i, l, m)
    BY DEF TxInv
  <2> DEFINE o == txs[i].by
  <2>4. o \in Node /\ txs'[i].dep = txs[i].dep
    BY OldTxs
  <2>5. /\ l \in 1 .. Len(batches[o]) /\ m \in 1 .. Len(batches[o][l].transfers)
        /\ txs[i].dep = batches[o][l].transfers[m]
        /\ pc[o] = "transact" /\ l = current[o] => m <= Len(sent[o])
    BY <2>3 DEF IsTransfer
  <2> HIDE DEF o, c
  <2>6. batches[o][l].transfers[m] = batches[n][c].transfers[k]
    BY <1>2, <2>2, <2>4, <2>5
  <2>7. Home[batches[o][l].transfers[m]] = o
    BY <2>4, <2>5, OwnTransfers
  <2>8. Home[batches[n][c].transfers[k]] = n
    BY <2>c, OwnTransfers
  <2>9. o = n
    BY <2>6, <2>7, <2>8
  <2>10. l = c /\ m = k
    <3>1. /\ l \in 1 .. Len(batches[n]) /\ m \in 1 .. Len(batches[n][l].transfers)
          /\ batches[n][l].transfers[m] = batches[n][c].transfers[k]
      BY <2>5, <2>6, <2>9
    <3>2. c \in 1 .. Len(batches[n]) /\ k \in 1 .. Len(batches[n][c].transfers)
      BY <2>c
    <3>3. QED
      BY <3>1, <3>2, LinkedOnce, Zenon
  <2>11. k <= Len(sent[n]) /\ k = Len(sent[n]) + 1
    BY <2>c, <2>5, <2>9, <2>10 DEF c
  <2>12. sent[n] \in Seq(Nat)
    BY DEF LoopInv, TypeOK
  <2>13. Len(sent[n]) \in Nat
    BY <2>12
  <2>14. QED
    BY <2>11, <2>13
<1>3. ASSUME NEW i \in 1 .. Len(txs'), NEW j \in 1 .. Len(txs'), txs'[i].dep = txs'[j].dep
      PROVE  i = j
  <2>1. CASE i \in 1 .. Len(txs) /\ j \in 1 .. Len(txs)
    <3>1. txs[i].dep = txs[j].dep
      BY <1>3, <2>1, OldTxs
    <3>2. QED
      BY <1>1, <2>1, <3>1 DEF SentOnce
  <2>2. CASE i \in 1 .. Len(txs) /\ j \notin 1 .. Len(txs)
    BY <1>2, <1>3, <2>2, OldTxs
  <2>3. CASE i \notin 1 .. Len(txs) /\ j \in 1 .. Len(txs)
    BY <1>2, <1>3, <2>3, OldTxs
  <2>4. CASE i \notin 1 .. Len(txs) /\ j \notin 1 .. Len(txs)
    BY <2>4, OldTxs
  <2>5. QED
    BY <2>1, <2>2, <2>3, <2>4
<1>4. DOMAIN txs' = 1 .. Len(txs')
  BY <1>1
<1>5. QED
  BY <1>3, <1>4 DEF SentOnce

-----------------------------------------------------------------------------
(* Mining: in order for each account, and for good *)

MinedInOrder ==
    \A i, j \in 1 .. Len(txs) :
        i < j /\ txs[i].by = txs[j].by /\ txs[j].state # "pending" => txs[i].state # "pending"

OkIsProcessed == \A i \in 1 .. Len(txs) : txs[i].state = "ok" => txs[i].dep \in processed

ProcessedIsOk ==
    \A d \in processed : \E i \in 1 .. Len(txs) : txs[i].state = "ok" /\ txs[i].dep = d

MineInv == MinedInOrder /\ OkIsProcessed /\ ProcessedIsOk

LEMMA NewTxIsPending ==
  ASSUME LoopInv, LoopInv', Shape, NEW i \in 1 .. Len(txs'), i \notin 1 .. Len(txs)
  PROVE  txs'[i].state = "pending" /\ i = Len(txs) + 1
<1>1. i = Len(txs) + 1 /\ Len(txs') = Len(txs) + 1
  BY OldTxs
<1>2. PICK n \in Node, k \in Nat : MakesCall(n, k)
  BY <1>1, NewTx
<1>3. QED
  BY <1>1, <1>2 DEF MakesCall, Call

(* What has been mined stays as it is. *)
LEMMA MinedStays ==
  ASSUME LoopInv, Shape, NEW i \in 1 .. Len(txs), txs[i].state # "pending"
  PROVE  txs'[i].state = txs[i].state
<1>1. OldTxStep(i)
  BY OldTxs
<1>2. QED
  BY <1>1 DEF OldTxStep

LEMMA MineInductive ==
  ASSUME LoopInv, LoopInv', Shape, MineInv
  PROVE  MineInv'
<1>1. \A i \in 1 .. Len(txs) : OldTxStep(i)
  BY OldTxs
<1>2. MinedInOrder'
  <2> SUFFICES ASSUME NEW i \in 1 .. Len(txs'), NEW j \in 1 .. Len(txs'), i < j,
                      txs'[i].by = txs'[j].by, txs'[j].state # "pending"
               PROVE  txs'[i].state # "pending"
    BY DEF MinedInOrder
  <2>1. j \in 1 .. Len(txs)
    BY NewTxIsPending
  <2>2. i \in 1 .. Len(txs)
    <3>1. Len(txs) \in Nat
      BY OldTxs
    <3>2. QED
      BY <2>1, <3>1
  <2>3. txs[i].by = txs[j].by
    BY <2>1, <2>2, OldTxs
  <2>4. txs[i].state # "pending"
    <3>1. CASE txs[j].state # "pending"
      BY <2>1, <2>2, <2>3, <3>1 DEF MineInv, MinedInOrder
    <3>2. CASE txs[j].state = "pending"
      <4>1. \A x \in 1 .. j - 1 : txs[x].by = txs[j].by => txs[x].state # "pending"
        BY <1>1, <2>1, <3>2 DEF OldTxStep
      <4>2. i \in 1 .. j - 1
        BY <2>1, <2>2
      <4>3. QED
        BY <2>3, <4>1, <4>2
    <3>3. QED
      BY <3>1, <3>2
  <2>5. QED
    BY <2>2, <2>4, MinedStays
<1>3. OkIsProcessed'
  <2> SUFFICES ASSUME NEW i \in 1 .. Len(txs'), txs'[i].state = "ok"
               PROVE  txs'[i].dep \in processed'
    BY DEF OkIsProcessed
  <2>1. i \in 1 .. Len(txs)
    BY NewTxIsPending
  <2>2. OldTxStep(i) /\ txs'[i].dep = txs[i].dep /\ processed \subseteq processed'
    BY <1>1, <2>1, OldTxs DEF Shape, TxsStep
  <2>3. txs[i].state = "ok" \/ txs[i].dep \in processed'
    BY <2>2 DEF OldTxStep
  <2>4. QED
    BY <2>1, <2>2, <2>3 DEF MineInv, OkIsProcessed
<1>4. ProcessedIsOk'
  <2> SUFFICES ASSUME NEW d \in processed'
               PROVE  \E i \in 1 .. Len(txs') : txs'[i].state = "ok" /\ txs'[i].dep = d
    BY DEF ProcessedIsOk
  <2>1. \E i \in 1 .. Len(txs) : txs'[i].state = "ok" /\ txs[i].dep = d
    <3>1. CASE d \in processed
      <4>1. PICK i \in 1 .. Len(txs) : txs[i].state = "ok" /\ txs[i].dep = d
        BY <3>1 DEF MineInv, ProcessedIsOk
      <4>2. txs'[i].state = "ok"
        BY <4>1, MinedStays
      <4>3. QED
        BY <4>1, <4>2
    <3>2. CASE d \notin processed
      BY <3>2 DEF Shape, TxsStep
    <3>3. QED
      BY <3>1, <3>2
  <2>2. QED
    BY <2>1, OldTxs
<1>5. QED
  BY <1>2, <1>3, <1>4 DEF MineInv

-----------------------------------------------------------------------------
(* What is sent is settled before the batch is finalised *)

(* All transfers of a batch that has been sent are in transactions of its   *)
(* node, the last of them in the one whose hash the batch has.              *)
SettledOf(n, b) ==
    b.status \in {"SENT_TO_RSK", "FINALIZED"} =>
        /\ b.transfers # <<>>
        /\ b.tx \in 1 .. Len(txs)
        /\ txs[b.tx].by = n
        /\ txs[b.tx].dep = Last(b.transfers)
        /\ \A k \in 1 .. Len(b.transfers) :
              \E x \in 1 .. Len(txs) :
                  x <= b.tx /\ txs[x].by = n /\ txs[x].dep = b.transfers[k]
        /\ b.status = "FINALIZED" => txs[b.tx].state = "ok"

SettleInv == \A n \in Node : \A i \in 1 .. Len(batches[n]) : SettledOf(n, batches[n][i])

LEMMA SettleInductive ==
  ASSUME LoopInv, LoopInv', Shape, SignInv, SendInv, SettleInv
  PROVE  SettleInv'
<1> SUFFICES ASSUME NEW n \in Node, NEW i \in 1 .. Len(batches'[n]),
                    batches'[n][i].status \in {"SENT_TO_RSK", "FINALIZED"}
             PROVE  LET b == batches'[n][i]
                    IN  /\ b.transfers # <<>>
                        /\ b.tx \in 1 .. Len(txs')
                        /\ txs'[b.tx].by = n
                        /\ txs'[b.tx].dep = Last(b.transfers)
                        /\ \A k \in 1 .. Len(b.transfers) :
                              \E x \in 1 .. Len(txs') :
                                  x <= b.tx /\ txs'[x].by = n /\ txs'[x].dep = b.transfers[k]
                        /\ b.status = "FINALIZED" => txs'[b.tx].state = "ok"
  BY DEF SettleInv, SettledOf
<1> DEFINE b == batches[n][i]
           c == batches'[n][i]
<1>1. i \in 1 .. Len(batches[n])
  BY OldOrNew DEF NewBatchStep
<1>2. OldBatchStep(n, i) /\ StepOf(n) /\ TypeOK
  BY <1>1 DEF Shape, BatchesStep, LoopInv, StepInv
<1>3. b \in Batch /\ b.transfers \in Seq(Deposit) /\ c.transfers = b.transfers
  BY <1>1, <1>2, BatchesAreTyped, OldBatchMoves
<1>4. ASSUME NEW t \in 1 .. Len(txs), c.tx = t, b.transfers # <<>>,
             txs[t].by = n, txs[t].dep = Last(b.transfers),
             \A k \in 1 .. Len(b.transfers) :
                \E x \in 1 .. Len(txs) :
                    x <= t /\ txs[x].by = n /\ txs[x].dep = b.transfers[k],
             c.status = "FINALIZED" => txs[t].state = "ok"
      PROVE  /\ c.transfers # <<>>
             /\ c.tx \in 1 .. Len(txs')
             /\ txs'[c.tx].by = n
             /\ txs'[c.tx].dep = Last(c.transfers)
             /\ \A k \in 1 .. Len(c.transfers) :
                   \E x \in 1 .. Len(txs') :
                       x <= c.tx /\ txs'[x].by = n /\ txs'[x].dep = c.transfers[k]
             /\ c.status = "FINALIZED" => txs'[c.tx].state = "ok"
  <2> HIDE DEF b, c
  <2>1. t \in 1 .. Len(txs') /\ txs'[t].by = n /\ txs'[t].dep = Last(b.transfers)
    BY <1>4, OldTxs
  <2>2. \A k \in 1 .. Len(b.transfers) :
           \E x \in 1 .. Len(txs') : x <= t /\ txs'[x].by = n /\ txs'[x].dep = b.transfers[k]
    BY <1>4, OldTxs
  <2>3. c.status = "FINALIZED" => txs'[t].state = "ok"
    BY <1>4, MinedStays
  <2>4. QED
    BY <1>3, <1>4, <2>1, <2>2, <2>3
<1>5. CASE c = b
  <2>1. SettledOf(n, b)
    BY <1>1 DEF SettleInv
  <2>2. QED
    BY <1>4, <1>5, <2>1 DEF SettledOf
<1>6. CASE pc[n] = "transact" /\ i = current[n] /\ c.status = "SENT_TO_RSK"
           /\ ~MoreCalls(n) /\ sent[n] # <<>> /\ c.tx = Last(sent[n])
  <2> DEFINE num == Len(sent[n])
             calls == NumCalls(b)
  <2>1. sent[n] \in Seq(Nat) /\ sent[n] # <<>>
    BY <1>2, <1>6 DEF TypeOK
  <2>2. num \in Nat /\ num \in 1 .. num /\ Last(sent[n]) = sent[n][num]
    BY <2>1 DEF Last
  <2>3. /\ num <= calls
        /\ \A k \in 1 .. num :
              /\ sent[n][k] \in 1 .. Len(txs) /\ sent[n][k] <= Last(sent[n])
              /\ txs[sent[n][k]].by = n /\ txs[sent[n][k]].dep = b.transfers[k]
    BY <1>6 DEF SendInv, SendingOf
  <2>4. /\ calls \in Nat /\ ~(num < calls)
        /\ Signers(b.signatures) = {} => calls = 0
    BY <1>3, <1>6, NumCallsBounds DEF MoreCalls, CurrentBatch
  <2>5. Signers(b.signatures) # {} => calls = Len(b.transfers)
    BY <1>1, FullySigned
  <2>6. Len(b.transfers) \in Nat
    BY <1>3
  <2> HIDE DEF b, c, num, calls
  <2>7. calls # 0 /\ calls = num
    BY <2>2, <2>3, <2>4
  <2>8. num = Len(b.transfers)
    BY <2>4, <2>5, <2>7
  <2>9. b.transfers # <<>> /\ Last(b.transfers) = b.transfers[num]
    <3>1. Len(b.transfers) # 0
      BY <2>7, <2>8
    <3>2. QED
      BY <2>8, <3>1 DEF Last
  <2>10. /\ Last(sent[n]) \in 1 .. Len(txs) /\ txs[Last(sent[n])].by = n
         /\ txs[Last(sent[n])].dep = Last(b.transfers)
    BY <2>2, <2>3, <2>9
  <2>11. \A k \in 1 .. Len(b.transfers) :
            \E x \in 1 .. Len(txs) :
                x <= Last(sent[n]) /\ txs[x].by = n /\ txs[x].dep = b.transfers[k]
    BY <2>3, <2>8
  <2>12. QED
    BY <1>4, <1>6, <2>9, <2>10, <2>11 DEF b, c
<1>7. CASE pc[n] = "receipt" /\ i = current[n] /\ c.status = "FINALIZED"
           /\ c.tx = b.tx /\ txs[b.tx].state = "ok"
  <2>1. SettledOf(n, b) /\ b.status = "SENT_TO_RSK"
    BY <1>1, <1>2, <1>7 DEF SettleInv, StepOf
  <2>2. QED
    BY <1>4, <1>7, <2>1 DEF SettledOf
<1>8. QED
  BY <1>2, <1>5, <1>6, <1>7 DEF OldBatchStep

LEMMA SettledHolds == LoopInv /\ SettleInv /\ MineInv => FinalizedIsSettled
<1> SUFFICES ASSUME LoopInv, SettleInv, MineInv
             PROVE  FinalizedIsSettled
  OBVIOUS
<1>1. SUFFICES ASSUME NEW n \in Node, NEW i \in 1 .. Len(batches[n]),
                      batches[n][i].status = "FINALIZED"
               PROVE  /\ \A d \in Range(batches[n][i].transfers) :
                            \E k \in DOMAIN txs : txs[k].dep = d /\ txs[k].state # "pending"
                      /\ Last(batches[n][i].transfers) \in processed
  BY BatchesAreTyped DEF LoopInv, FinalizedIsSettled
<1> DEFINE b == batches[n][i]
           t == b.tx
<1>2. /\ t \in 1 .. Len(txs) /\ txs[t].by = n /\ txs[t].dep = Last(b.transfers)
      /\ txs[t].state = "ok"
      /\ \A k \in 1 .. Len(b.transfers) :
            \E x \in 1 .. Len(txs) : x <= t /\ txs[x].by = n /\ txs[x].dep = b.transfers[k]
  BY <1>1 DEF SettleInv, SettledOf
<1>3. b.transfers \in Seq(Deposit) /\ txs \in Seq(Transaction)
  BY BatchesAreTyped DEF LoopInv, TypeOK
<1> HIDE DEF b, t
<1>4. ASSUME NEW d \in Range(b.transfers)
      PROVE  \E k \in DOMAIN txs : txs[k].dep = d /\ txs[k].state # "pending"
  <2>1. PICK k \in 1 .. Len(b.transfers) : d = b.transfers[k]
    BY <1>3 DEF Range
  <2>2. PICK x \in 1 .. Len(txs) : x <= t /\ txs[x].by = n /\ txs[x].dep = b.transfers[k]
    BY <1>2
  <2>3. txs[x].state # "pending"
    <3>1. CASE x = t
      BY <1>2, <3>1
    <3>2. CASE x # t
      <4>1. x < t
        BY <1>2, <2>2, <3>2
      <4>2. QED
        BY <1>2, <2>2, <4>1 DEF MineInv, MinedInOrder
    <3>3. QED
      BY <3>1, <3>2
  <2>4. QED
    BY <1>3, <2>1, <2>2, <2>3
<1>5. Last(b.transfers) \in processed
  BY <1>2 DEF MineInv, OkIsProcessed
<1>6. QED
  BY <1>4, <1>5 DEF b

-----------------------------------------------------------------------------
(* While the owner leaves the contract alone, it accepts what it is sent *)

OwnerIsQuiet == federators = Node /\ required = Required /\ listed

KnownIsRight ==
    \A n \in Node :
        pc[n] = "ask" => known[n] = [federators |-> Node, threshold |-> Required - 1]

EnoughSigners ==
    \A n \in Node : \A i \in 1 .. Len(batches[n]) :
        batches[n][i].transfers # <<>> /\ batches[n][i].status # "CREATED"
            => Cardinality(Signers(batches[n][i].signatures)) >= Required - 1

TxsAreGood == \A i \in 1 .. Len(txs) : SignaturesAreValid(txs[i]) /\ txs[i].state # "failed"

AcceptInv == governance = 0 => OwnerIsQuiet /\ KnownIsRight /\ EnoughSigners /\ TxsAreGood

LEMMA EnoughSignersStep ==
  ASSUME LoopInv, LoopInv', Shape, KnownIsRight, EnoughSigners
  PROVE  EnoughSigners'
<1> SUFFICES ASSUME NEW n \in Node, NEW i \in 1 .. Len(batches'[n]),
                    batches'[n][i].transfers # <<>>, batches'[n][i].status # "CREATED"
             PROVE  Cardinality(Signers(batches'[n][i].signatures)) >= Required - 1
  BY DEF EnoughSigners, Signers
<1>1. i \in 1 .. Len(batches[n])
  BY OldOrNew DEF NewBatchStep
<1>2. OldBatchStep(n, i) /\ StepOf(n) /\ batches'[n][i].transfers = batches[n][i].transfers
  BY <1>1, OldBatchMoves DEF Shape, BatchesStep, LoopInv, StepInv
<1>3. CASE batches'[n][i].signatures = batches[n][i].signatures /\ batches[n][i].status # "CREATED"
  BY <1>1, <1>2, <1>3 DEF EnoughSigners
<1>4. CASE /\ pc[n] = "ask" /\ batches'[n][i].signatures = collected[n]
           /\ batches'[n][i].status = "SIGNATURES_COLLECTED" /\ EnoughSignatures(n)
  <2>1. known[n].threshold = Required - 1
    BY <1>4 DEF KnownIsRight
  <2>2. QED
    BY <1>4, <2>1 DEF EnoughSignatures
<1>5. QED
  BY <1>2, <1>3, <1>4 DEF OldBatchStep, StepOf

(* The call that a step makes has a signature of each signer for its        *)
(* transfer, and with the sender they are enough.                           *)
LEMMA CallIsValid ==
  ASSUME LoopInv, LoopInv', SignInv, OwnerIsQuiet, EnoughSigners,
         NEW n \in Node, NEW k \in Nat, MakesCall(n, k)
  PROVE  SignaturesAreValid(Call(n, batches[n][current[n]], k))
<1> DEFINE b == batches[n][current[n]]
           call == Call(n, b, k)
           S == Signers(b.signatures)
<1>1. /\ current[n] \in 1 .. Len(batches[n]) /\ b.status = "SENDING_TO_RSK"
      /\ k \in 1 .. Len(b.transfers)
  BY DEF MakesCall
<1>2. /\ b.transfers \in Seq(Deposit) /\ b.signatures \in Signatures
      /\ Own(n, b.transfers, b.signatures)
  BY <1>1, BatchesAreTyped DEF LoopInv, SignInv
<1>3. b.transfers # <<>> /\ b.transfers[k] \in Deposit
  BY <1>1, <1>2
<1>4. /\ b.signatures[n] = NoSignature
      /\ \A s \in Node : b.signatures[s] \in {NoSignature, b.transfers}
  BY <1>2, <1>3 DEF Own
<1>5. Cardinality(S) >= Required - 1
  BY <1>1, <1>3 DEF EnoughSigners
<1> HIDE DEF b
<1>6. NoSignature \notin Deposit
  BY DepositAssumption
<1>7. /\ call.by = n /\ call.dep = b.transfers[k]
      /\ call.signatures = [s \in Node |-> IF b.signatures[s] = NoSignature
                                           THEN NoSignature ELSE b.signatures[s][k]]
  BY DEF Call
<1> HIDE DEF call
<1>8. \A s \in Node : call.signatures[s] = IF b.signatures[s] = NoSignature
                                           THEN NoSignature ELSE b.transfers[k]
  BY <1>4, <1>7
<1>9. Signers(call.signatures) = S /\ S \subseteq Node
      /\ \A s \in S : call.signatures[s] = call.dep
  BY <1>3, <1>6, <1>7, <1>8 DEF Signers
<1>10. n \notin S /\ S \in SUBSET Node
  BY <1>4, <1>9 DEF Signers
<1>11. IsFiniteSet(S)
  BY <1>10, FederationAssumption, FS_Subset
<1>12. Cardinality(S \cup {n}) = Cardinality(S) + 1 /\ Cardinality(S) \in Nat
  BY <1>10, <1>11, FS_AddElement, FS_CardinalityType
<1>13. Required \in Int
  BY FederationAssumption, FS_CardinalityType
<1>14. Cardinality(S \cup {n}) >= required
  BY <1>5, <1>12, <1>13 DEF OwnerIsQuiet
<1>15. SignaturesAreValid(call)
  <2>1. \A s \in Signers(call.signatures) : call.signatures[s] = call.dep /\ s \in federators
    BY <1>9 DEF OwnerIsQuiet
  <2>2. Signers(call.signatures) \cup {call.by} = S \cup {n}
    BY <1>7, <1>9
  <2>3. QED
    BY <1>14, <2>1, <2>2 DEF SignaturesAreValid
<1>16. QED
  BY <1>15 DEF call, b

LEMMA TxsStayGood ==
  ASSUME LoopInv, LoopInv', Shape, SignInv, SentOnce, MineInv,
         OwnerIsQuiet, OwnerIsQuiet', EnoughSigners, TxsAreGood
  PROVE  TxsAreGood'
<1>1. federators' = federators /\ required' = required
  BY DEF OwnerIsQuiet
<1>2. SUFFICES ASSUME NEW i \in 1 .. Len(txs')
               PROVE  SignaturesAreValid(txs'[i]) /\ txs'[i].state # "failed"
  BY <1>1 DEF TxsAreGood, SignaturesAreValid, Signers
<1>3. CASE i \in 1 .. Len(txs)
  <2>1. /\ OldTxStep(i) /\ txs'[i].by = txs[i].by /\ txs'[i].dep = txs[i].dep
        /\ txs[i].by \in Node
    BY <1>3, OldTxs
  <2>2. SignaturesAreValid(txs[i]) /\ txs[i].state # "failed"
    BY <1>3 DEF TxsAreGood
  <2>3. SignaturesAreValid(txs'[i])
    BY <2>1, <2>2 DEF OldTxStep, SignaturesAreValid
  <2>4. txs[i].state = "pending" => acceptTransferFromTap(txs[i])
    <3> SUFFICES ASSUME txs[i].state = "pending"
                 PROVE  acceptTransferFromTap(txs[i])
      OBVIOUS
    <3>1. txs[i].dep \notin processed
      <4> SUFFICES ASSUME txs[i].dep \in processed
                   PROVE  FALSE
        OBVIOUS
      <4>1. PICK j \in 1 .. Len(txs) : txs[j].state = "ok" /\ txs[j].dep = txs[i].dep
        BY DEF MineInv, ProcessedIsOk
      <4>2. txs \in Seq(Transaction)
        BY DEF LoopInv, TypeOK
      <4>3. j = i
        BY <1>3, <4>1, <4>2 DEF SentOnce
      <4>4. QED
        BY <4>1, <4>3
    <3>2. QED
      BY <2>1, <2>2, <3>1 DEF acceptTransferFromTap, OwnerIsQuiet
  <2>5. txs'[i].state # "failed"
    BY <2>1, <2>2, <2>4 DEF OldTxStep
  <2>6. QED
    BY <2>3, <2>5
<1>4. CASE i \notin 1 .. Len(txs)
  <2>1. txs'[i].state = "pending" /\ i = Len(txs) + 1 /\ Len(txs') = Len(txs) + 1
    BY <1>4, NewTxIsPending, OldTxs
  <2>2. PICK n \in Node, k \in Nat : MakesCall(n, k)
    BY <2>1, NewTx
  <2>3. txs'[i] = Call(n, batches[n][current[n]], k)
    BY <2>1, <2>2 DEF MakesCall
  <2>4. QED
    BY <2>1, <2>2, <2>3, CallIsValid
<1>5. QED
  BY <1>3, <1>4

LEMMA AcceptInductive ==
  ASSUME LoopInv, LoopInv', Shape, SignInv, SentOnce, MineInv, AcceptInv
  PROVE  AcceptInv'
<1> SUFFICES ASSUME governance' = 0
             PROVE  (OwnerIsQuiet /\ KnownIsRight /\ EnoughSigners /\ TxsAreGood)'
  BY DEF AcceptInv
<1>1. governance = 0 /\ UNCHANGED <<listed, federators, required>>
  <2>1. governance \in Nat
    BY DEF LoopInv, TypeOK
  <2>2. QED
    BY <2>1 DEF Shape, OwnerStep
<1>2. OwnerIsQuiet /\ KnownIsRight /\ EnoughSigners /\ TxsAreGood
  BY <1>1 DEF AcceptInv
<1>3. OwnerIsQuiet'
  BY <1>1, <1>2 DEF OwnerIsQuiet
<1>4. KnownIsRight'
  <2> SUFFICES ASSUME NEW n \in Node, pc'[n] = "ask"
               PROVE  known'[n] = [federators |-> Node, threshold |-> Required - 1]
    BY DEF KnownIsRight
  <2>1. AskStep(n)
    BY DEF Shape, NodeStep
  <2>2. QED
    BY <1>2, <2>1 DEF AskStep, KnownIsRight, OwnerIsQuiet
<1>5. EnoughSigners'
  BY <1>2, EnoughSignersStep
<1>6. TxsAreGood'
  BY <1>2, <1>3, TxsStayGood
<1>7. QED
  BY <1>3, <1>4, <1>5, <1>6

-----------------------------------------------------------------------------
(* The invariants together *)

IInv ==
    /\ LoopInv /\ OneBatchAtATime /\ SignInv
    /\ SendInv /\ TxInv /\ SentOnce
    /\ MineInv /\ SettleInv /\ AcceptInv

LEMMA IInvInitially == Init => IInv
<1> SUFFICES ASSUME Init
             PROVE  IInv
  OBVIOUS
<1>1. LoopInv
  BY LoopInitially
<1>2. /\ \A n \in Node : batches[n] = <<>> /\ pc[n] = "idle"
      /\ txs = <<>> /\ processed = {}
      /\ federators = Node /\ required = Required /\ listed
  BY DEF Init
<1>3. OneBatchAtATime /\ SignInv
  BY <1>2 DEF OneBatchAtATime, SignInv
<1>4. SendInv /\ TxInv /\ SentOnce
  BY <1>2 DEF SendInv, SendingOf, TxInv, SentOnce
<1>5. MineInv /\ SettleInv
  BY <1>2 DEF MineInv, MinedInOrder, OkIsProcessed, ProcessedIsOk, SettleInv
<1>6. AcceptInv
  BY <1>2 DEF AcceptInv, OwnerIsQuiet, KnownIsRight, EnoughSigners, TxsAreGood
<1>7. QED
  BY <1>1, <1>3, <1>4, <1>5, <1>6 DEF IInv

LEMMA IInvInductive == IInv /\ [Next]_vars => IInv'
<1> SUFFICES ASSUME IInv, [Next]_vars
             PROVE  IInv'
  OBVIOUS
<1>1. LoopInv /\ LoopInv' /\ Shape
  BY LoopInductive DEF IInv
<1>2. OneBatchAtATime' /\ SignInv'
  BY <1>1, OrderInductive, SignInductive DEF IInv
<1>3. SendInv' /\ TxInv' /\ SentOnce'
  BY <1>1, SendInductive, TxInductive, SentOnceInductive DEF IInv
<1>4. MineInv' /\ SettleInv'
  BY <1>1, MineInductive, SettleInductive DEF IInv
<1>5. AcceptInv'
  BY <1>1, AcceptInductive DEF IInv
<1>6. QED
  BY <1>1, <1>2, <1>3, <1>4, <1>5 DEF IInv

LEMMA Invariant == Spec => []IInv
<1>1. Init => IInv
  BY IInvInitially
<1>2. IInv /\ [Next]_vars => IInv'
  BY IInvInductive
<1>3. QED
  BY <1>1, <1>2, PTL DEF Spec

-----------------------------------------------------------------------------
(* What users are shown *)

(* The status that is shown of a deposit is that of its batch. *)
ShownIs ==
    \A n \in Node : \A d \in Deposit :
        \/ \E i \in 1 .. Len(batches[n]) :
              /\ d \in Range(batches[n][i].transfers)
              /\ \A j \in 1 .. Len(batches[n]) : d \in Range(batches[n][j].transfers) => j = i
              /\ ShownStatus(n, d) = batches[n][i].status
        \/ /\ \A i \in 1 .. Len(batches[n]) : d \notin Range(batches[n][i].transfers)
           /\ ShownStatus(n, d) = "seen"

LEMMA ShownOfBatch == LoopInv => ShownIs
<1> SUFFICES ASSUME LoopInv, NEW n \in Node, NEW d \in Deposit
             PROVE  \/ \E i \in 1 .. Len(batches[n]) :
                          /\ d \in Range(batches[n][i].transfers)
                          /\ \A j \in 1 .. Len(batches[n]) :
                                d \in Range(batches[n][j].transfers) => j = i
                          /\ ShownStatus(n, d) = batches[n][i].status
                    \/ /\ \A i \in 1 .. Len(batches[n]) : d \notin Range(batches[n][i].transfers)
                       /\ ShownStatus(n, d) = "seen"
  BY DEF ShownIs
<1> DEFINE linked == {i \in DOMAIN batches[n] : d \in Range(batches[n][i].transfers)}
<1>1. /\ DOMAIN batches[n] = 1 .. Len(batches[n])
      /\ \A i \in 1 .. Len(batches[n]) : batches[n][i].transfers \in Seq(Deposit)
  BY BatchesAreTyped DEF LoopInv
<1>2. ShownStatus(n, d) = IF linked = {} THEN "seen" ELSE batches[n][Min(linked)].status
  BY DEF ShownStatus
<1>3. CASE linked = {}
  BY <1>1, <1>2, <1>3
<1>4. CASE linked # {}
  <2>1. linked \in SUBSET Nat
    BY <1>1
  <2>2. Min(linked) \in linked
    BY <1>4, <2>1, MinIsLeast
  <2> DEFINE i == Min(linked)
  <2> HIDE DEF i
  <2>3. i \in 1 .. Len(batches[n]) /\ d \in Range(batches[n][i].transfers)
    BY <1>1, <2>2 DEF i
  <2>4. ASSUME NEW j \in 1 .. Len(batches[n]), d \in Range(batches[n][j].transfers)
        PROVE  j = i
    <3>1. PICK k \in 1 .. Len(batches[n][i].transfers) : batches[n][i].transfers[k] = d
      BY <1>1, <2>3 DEF Range
    <3>2. PICK l \in 1 .. Len(batches[n][j].transfers) : batches[n][j].transfers[l] = d
      BY <1>1, <2>4 DEF Range
    <3>3. batches[n][i].transfers[k] = batches[n][j].transfers[l]
      BY <3>1, <3>2
    <3>4. QED
      BY <2>3, <3>3, LinkedOnce, Zenon
  <2>5. ShownStatus(n, d) = batches[n][i].status
    BY <1>2, <1>4 DEF i
  <2>6. QED
    BY <2>3, <2>4, <2>5
<1>5. QED
  BY <1>3, <1>4

LEMMA OrderOfStatus ==
  /\ StatusOrder[1] = "seen" /\ StatusOrder[2] = "CREATED"
  /\ StatusOrder[3] = "SIGNATURES_COLLECTED" /\ StatusOrder[4] = "SENDING_TO_RSK"
  /\ StatusOrder[5] = "SENT_TO_RSK" /\ StatusOrder[6] = "FINALIZED"
BY DEF StatusOrder

(* From a status one stays or goes to the next. *)
LEMMA NextStatus ==
  ASSUME NEW i \in 1 .. 6, NEW j \in 1 .. 6, j = i \/ j = i + 1
  PROVE  /\ i \in DOMAIN StatusOrder
         /\ StatusOrder[j] \in Range(SubSeq(StatusOrder, i, Min({i + 1, 6})))
<1> DEFINE max == Min({i + 1, 6})
           piece == SubSeq(StatusOrder, i, max)
<1> DEFINE S == {StatusOrder[k] : k \in 1 .. 6}
<1>1. \A k \in 1 .. 6 : StatusOrder[k] \in S
  OBVIOUS
<1> HIDE DEF S
<1>2. max \in {i + 1, 6} /\ max <= i + 1 /\ max <= 6
  BY SmallerOfTwo
<1> HIDE DEF max
<1>3. max \in 1 .. 6 /\ i <= j /\ j <= max
  BY <1>2
<1>4. \A k \in i .. max : StatusOrder[k] \in S
  <2>1. \A k \in i .. max : k \in 1 .. 6
    BY <1>3
  <2>2. QED
    BY <1>1, <2>1
<1>5. /\ piece \in Seq(S)
      /\ Len(piece) = max - i + 1
      /\ \A k \in 1 .. max - i + 1 : piece[k] = StatusOrder[i + k - 1]
  <2>1. i \in Int /\ max \in Int /\ i <= max
    BY <1>3
  <2>2. QED
    BY <1>4, <2>1, SubSeqProperties
<1> HIDE DEF piece
<1>6. DOMAIN piece = 1 .. max - i + 1
  BY <1>5
<1>7. j - i + 1 \in 1 .. max - i + 1 /\ i + (j - i + 1) - 1 = j
  BY <1>3
<1>8. piece[j - i + 1] = StatusOrder[j]
  BY <1>5, <1>7
<1>9. StatusOrder[j] \in Range(piece)
  BY <1>6, <1>7, <1>8 DEF Range
<1>10. i \in DOMAIN StatusOrder
  BY DEF StatusOrder
<1>11. QED
  BY <1>9, <1>10 DEF piece, max

LEMMA ShownStep ==
  ASSUME LoopInv, LoopInv', Shape, ShownIs, ShownIs', NEW n \in Node, NEW d \in Range(rows[n])
  PROVE  \E i \in DOMAIN StatusOrder :
            /\ ShownStatus(n, d) = StatusOrder[i]
            /\ ShownStatus(n, d)' \in Range(SubSeq(StatusOrder, i, Min({i + 1, 6})))
<1>1. d \in Deposit
  <2>1. rows[n] \in Seq(Deposit)
    BY DEF LoopInv, TypeOK
  <2>2. QED
    BY <2>1 DEF Range
<1> DEFINE old == ShownStatus(n, d)
           new == ShownStatus(n, d)'
<1>2. SUFFICES \E i, j \in 1 .. 6 : old = StatusOrder[i] /\ new = StatusOrder[j] /\ (j = i \/ j = i + 1)
  BY NextStatus
<1>3. \/ \E i \in 1 .. Len(batches'[n]) :
            /\ d \in Range(batches'[n][i].transfers)
            /\ \A j \in 1 .. Len(batches'[n]) : d \in Range(batches'[n][j].transfers) => j = i
            /\ new = batches'[n][i].status
      \/ /\ \A i \in 1 .. Len(batches'[n]) : d \notin Range(batches'[n][i].transfers)
         /\ new = "seen"
  BY <1>1 DEF ShownIs
<1>4. \/ \E i \in 1 .. Len(batches[n]) :
            d \in Range(batches[n][i].transfers) /\ old = batches[n][i].status
      \/ /\ \A i \in 1 .. Len(batches[n]) : d \notin Range(batches[n][i].transfers)
         /\ old = "seen"
  BY <1>1 DEF ShownIs
<1> HIDE DEF old, new
<1>5. CASE \E i \in 1 .. Len(batches[n]) :
              d \in Range(batches[n][i].transfers) /\ old = batches[n][i].status
  <2>1. PICK i \in 1 .. Len(batches[n]) :
              d \in Range(batches[n][i].transfers) /\ old = batches[n][i].status
    BY <1>5
  <2>2. /\ i \in 1 .. Len(batches'[n]) /\ batches'[n][i].transfers = batches[n][i].transfers
        /\ \/ batches'[n][i].status = batches[n][i].status
           \/ /\ batches[n][i].status = "CREATED"
              /\ batches'[n][i].status = "SIGNATURES_COLLECTED"
           \/ /\ batches[n][i].status = "SIGNATURES_COLLECTED"
              /\ batches'[n][i].status = "SENDING_TO_RSK"
           \/ /\ batches[n][i].status = "SENDING_TO_RSK"
              /\ batches'[n][i].status = "SENT_TO_RSK"
           \/ /\ batches[n][i].status = "SENT_TO_RSK"
              /\ batches'[n][i].status = "FINALIZED"
    BY OldBatchMoves
  <2>3. new = batches'[n][i].status
    BY <1>3, <2>1, <2>2
  <2>4. batches[n][i].status \in Status
    BY BatchesAreTyped DEF LoopInv
  <2>5. \E j \in 2 .. 6 : batches[n][i].status = StatusOrder[j]
    BY <2>4, OrderOfStatus DEF Status
  <2>6. PICK j \in 2 .. 6 : old = StatusOrder[j]
    BY <2>1, <2>5
  <2>7. CASE new = old
    BY <2>6, <2>7
  <2>8. CASE new # old
    BY <2>1, <2>2, <2>3, <2>8, OrderOfStatus
  <2>9. QED
    BY <2>7, <2>8
<1>6. CASE /\ \A i \in 1 .. Len(batches[n]) : d \notin Range(batches[n][i].transfers)
           /\ old = "seen"
  <2>1. CASE new = "seen"
    BY <1>6, <2>1, OrderOfStatus
  <2>2. CASE \E i \in 1 .. Len(batches'[n]) :
                d \in Range(batches'[n][i].transfers) /\ new = batches'[n][i].status
    <3>1. PICK i \in 1 .. Len(batches'[n]) :
                d \in Range(batches'[n][i].transfers) /\ new = batches'[n][i].status
      BY <2>2
    <3>2. i \notin 1 .. Len(batches[n])
      BY <1>6, <3>1, OldBatchMoves
    <3>3. NewBatchStep(n, i)
      BY <3>2, OldOrNew
    <3>4. new = "CREATED"
      BY <3>1, <3>3 DEF NewBatchStep
    <3>5. QED
      BY <1>6, <3>4, OrderOfStatus
  <2>3. QED
    BY <1>3, <2>1, <2>2
<1>7. QED
  BY <1>4, <1>5, <1>6

-----------------------------------------------------------------------------
(* Every variable of the Tap -> RSK direction keeps to its type. *)
THEOREM TypeCorrect == Spec => []TypeOK
<1>1. IInv => TypeOK
  BY DEF IInv, LoopInv
<1>2. QED
  BY Invariant, <1>1, PTL

(* No transfer is sent to the contract twice, whichever node restarts,      *)
(* becomes a leader or has a call fail, however often: not by two nodes     *)
(* either, as each sends what was received on its own addresses.            *)
THEOREM TransfersAreSentOnce == Spec => []SentOnce
<1>1. IInv => SentOnce
  BY DEF IInv
<1>2. QED
  BY Invariant, <1>1, PTL

(* A node makes a new batch when its earlier ones are finalised, and one    *)
(* that counts as signed has a signature of each signer for each transfer,  *)
(* so that zipping them drops none.                                         *)
THEOREM BatchesAreSound == Spec => []BatchInvariant
<1>1. IInv => BatchInvariant
  BY BatchInvariantHolds DEF IInv
<1>2. QED
  BY Invariant, <1>1, PTL

(* As long as the owner does not change it, the contract accepts everything *)
(* a leader sends: leader and contract count the same signatures.           *)
THEOREM ContractAccepts == Spec => []SentIsAccepted
<1>1. IInv => SentIsAccepted
  <2> SUFFICES ASSUME IInv, governance = 0, NEW i \in DOMAIN txs
               PROVE  txs[i].state # "failed"
    BY DEF SentIsAccepted
  <2>1. i \in 1 .. Len(txs) /\ TxsAreGood
    BY DEF IInv, LoopInv, TypeOK, AcceptInv
  <2>2. QED
    BY <2>1 DEF TxsAreGood
<1>2. QED
  BY Invariant, <1>1, PTL

(* When a batch is finalised every transfer of it has been mined and the    *)
(* last one accepted, although only the last receipt is waited for.         *)
THEOREM FinalizedMeansSettled == Spec => []FinalizedIsSettled
<1>1. IInv => FinalizedIsSettled
  BY SettledHolds DEF IInv
<1>2. QED
  BY Invariant, <1>1, PTL

(* The status users are shown of a deposit never goes back and skips no     *)
(* step, in any step of any node.                                           *)
THEOREM StatusAdvances == Spec => ShownStatusAdvances
<1>1. LoopInv => ShownIs
  BY ShownOfBatch
<1>2. LoopInv /\ LoopInv' /\ ShownIs /\ ShownIs' /\ [Next]_vars =>
         \A n \in Node : \A d \in Range(rows[n]) :
            \E i \in DOMAIN StatusOrder :
                /\ ShownStatus(n, d) = StatusOrder[i]
                /\ ShownStatus(n, d)' \in Range(SubSeq(StatusOrder, i, Min({i + 1, 6})))
  BY LoopInductive, ShownStep
<1>3. IInv => LoopInv
  BY DEF IInv
<1>4. QED
  BY Invariant, <1>1, <1>2, <1>3, PTL DEF Spec, ShownStatusAdvances
=============================================================================

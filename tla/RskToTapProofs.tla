--------------------------- MODULE RskToTapProofs ---------------------------
(***************************************************************************)
(* Proofs about RskToTap, for any set of nodes, any batch limit and any    *)
(* number of transfers, failing calls, restarts and changes of the leader. *)
(***************************************************************************)
EXTENDS RskToTap, TLAPS, FiniteSetTheorems, SequenceTheorems

(* The contract counts upwards. *)
EventInv ==
    /\ \A k \in 1 .. Len(events) : events[k] <= numTransfersTotal
    /\ \A j, k \in 1 .. Len(events) : j < k => events[j] < events[k]

(* Where the leader is, and what the status of its batch is there.  It is   *)
(* the last of its batches.                                                 *)
StepOf(n) ==
    /\ rows[n] <= Len(events)
    /\ pc[n] \in {"begin", "send", "sent", "finalize"} =>
          current[n] = Len(batches[n]) /\ Len(batches[n]) > 0
    /\ pc[n] = "begin" => batches[n][current[n]].status = "CREATED"
    /\ pc[n] \in {"send", "sent"} => batches[n][current[n]].status = "SENDING_TO_TAP"
    /\ pc[n] = "finalize" => batches[n][current[n]].status = "SENT_TO_TAP"

StepInv == \A n \in Node : StepOf(n)

(* The batches of node n cut the scanned events into pieces: batch i has    *)
(* those after the first cut[i - 1] up to the first cut[i].                 *)
IsCut(n, cut) ==
    /\ cut \in [0 .. Len(batches[n]) -> Nat]
    /\ cut[0] = 0
    /\ cut[Len(batches[n])] <= rows[n]
    /\ \A i, j \in 0 .. Len(batches[n]) : i <= j => cut[i] <= cut[j]
    /\ \A k \in 1 .. cut[Len(batches[n])] :
          \E i \in 1 .. Len(batches[n]) : cut[i - 1] < k /\ k <= cut[i]
    /\ \A i \in 1 .. Len(batches[n]) :
          /\ Len(batches[n][i].transfers) = cut[i] - cut[i - 1]
          /\ \A k \in 1 .. Len(batches[n][i].transfers) :
                batches[n][i].transfers[k] = events[cut[i - 1] + k]

LastStatus(n) == batches[n][Len(batches[n])].status

(* All batches but the last are finished.  What was sent are the events up  *)
(* to the end of the last batch or, before it is sent, up to its beginning. *)
IsSent(n, cut) ==
    /\ \A i \in 1 .. Len(batches[n]) - 1 : batches[n][i].status = "FINALIZED"
    /\ \A k \in 1 .. Len(sends[n]) : sends[n][k] = events[k]
    /\ Len(batches[n]) = 0 => Len(sends[n]) = 0
    /\ Len(batches[n]) > 0 => Len(sends[n]) \in {cut[Len(batches[n]) - 1], cut[Len(batches[n])]}
    /\ Len(batches[n]) > 0 /\ (LastStatus(n) = "CREATED" \/ pc[n] = "send") =>
          Len(sends[n]) = cut[Len(batches[n]) - 1]
    /\ Len(batches[n]) > 0 /\ (LastStatus(n) \in {"SENT_TO_TAP", "FINALIZED"} \/ pc[n] = "sent") =>
          Len(sends[n]) = cut[Len(batches[n])]

CutInv == \A n \in Node : \E cut : IsCut(n, cut) /\ IsSent(n, cut)

IInv == TypeOK /\ EventInv /\ StepInv /\ CutInv

-----------------------------------------------------------------------------
(* Facts about sequences and sets *)

LEMMA BatchesAreTyped ==
  ASSUME TypeOK, NEW n \in Node
  PROVE  /\ batches[n] \in Seq(Batch) /\ Len(batches[n]) \in Nat
         /\ \A i \in 1 .. Len(batches[n]) :
               /\ batches[n][i] \in Batch
               /\ batches[n][i].transfers \in Seq(Nat)
               /\ batches[n][i].status \in Status
         /\ sends[n] \in Seq(Nat) /\ rows[n] \in Nat /\ events \in Seq(Nat)
<1>1. batches[n] \in Seq(Batch)
  BY DEF TypeOK
<1>2. \A i \in 1 .. Len(batches[n]) : batches[n][i] \in Batch
  BY <1>1
<1>3. QED
  BY <1>1, <1>2 DEF TypeOK, Batch

(* Setting the status of a batch *)
LEMMA StatusIsSet ==
  ASSUME TypeOK, NEW n \in Node, NEW s \in Status, SetStatus(n, s),
         current[n] = Len(batches[n]), Len(batches[n]) > 0
  PROVE  /\ batches' \in [Node -> Seq(Batch)]
         /\ \A m \in Node \ {n} : batches'[m] = batches[m]
         /\ Len(batches'[n]) = Len(batches[n])
         /\ \A i \in 1 .. Len(batches[n]) :
               /\ batches'[n][i].transfers = batches[n][i].transfers
               /\ batches'[n][i].status =
                     IF i = Len(batches[n]) THEN s ELSE batches[n][i].status
<1> DEFINE num == Len(batches[n])
           b == [batches[n][num] EXCEPT !.status = s]
           own == [batches[n] EXCEPT ![num] = b]
<1>1. batches[n] \in Seq(Batch) /\ num \in 1 .. Len(batches[n])
  BY BatchesAreTyped
<1>2. b \in Batch /\ b.transfers = batches[n][num].transfers /\ b.status = s
  BY <1>1, BatchesAreTyped DEF Batch
<1>3. batches' = [batches EXCEPT ![n] = own]
  BY DEF SetStatus
<1> HIDE DEF b
<1>4. /\ own \in Seq(Batch) /\ Len(own) = num
      /\ \A i \in 1 .. num : own[i] = IF i = num THEN b ELSE batches[n][i]
  BY <1>1, <1>2
<1> HIDE DEF own
<1>5. batches'[n] = own /\ \A m \in Node \ {n} : batches'[m] = batches[m]
  BY <1>3 DEF TypeOK
<1>6. batches' \in [Node -> Seq(Batch)]
  BY <1>3, <1>4 DEF TypeOK
<1>7. QED
  BY <1>2, <1>4, <1>5, <1>6

(* The elements left of a sequence when the first m are taken out *)
Rest(s, left) ==
    [i \in 1 .. Cardinality(left) |->
        s[CHOOSE k \in left : Cardinality({j \in left : j <= k}) = i]]

LEMMA RestInOrder ==
  ASSUME NEW s, NEW m \in Nat, NEW r \in Nat, m <= r
  PROVE  Rest(s, m + 1 .. r) = [i \in 1 .. r - m |-> s[m + i]]
<1> DEFINE left == m + 1 .. r
           pos(i) == CHOOSE k \in left : Cardinality({j \in left : j <= k}) = i
<1>1. Cardinality(left) = r - m
  <2>1. m + 1 \in Int /\ r \in Int
    OBVIOUS
  <2>2. Cardinality(m + 1 .. r) = IF m + 1 > r THEN 0 ELSE r - (m + 1) + 1
    BY <2>1, FS_Interval, Zenon
  <2>3. QED
    BY <2>2
<1>2. ASSUME NEW k \in left
      PROVE  Cardinality({j \in left : j <= k}) = k - m
  <2>1. {j \in left : j <= k} = m + 1 .. k
    OBVIOUS
  <2>2. Cardinality(m + 1 .. k) = k - m
    BY FS_Interval
  <2>3. QED
    BY <2>1, <2>2
<1>3. ASSUME NEW i \in 1 .. r - m
      PROVE  pos(i) = m + i
  <2>1. m + i \in left
    OBVIOUS
  <2>2. \A k \in left : Cardinality({j \in left : j <= k}) = i <=> k = m + i
    BY <1>2
  <2>3. QED
    BY <2>1, <2>2
<1> HIDE DEF pos
<1>4. [i \in 1 .. Cardinality(left) |-> s[pos(i)]] = [i \in 1 .. r - m |-> s[m + i]]
  BY <1>1, <1>3
<1>5. QED
  BY <1>4 DEF pos, Rest

LEMMA SmallerOfTwo ==
  ASSUME NEW a \in Nat, NEW b \in Nat
  PROVE  /\ Min({a, b}) \in {a, b}
         /\ Min({a, b}) <= a /\ Min({a, b}) <= b
<1>1. \E x \in {a, b} : \A y \in {a, b} : x <= y
  OBVIOUS
<1>2. QED
  BY <1>1 DEF Min

-----------------------------------------------------------------------------
LEMMA InvInitially == Init => IInv
<1> SUFFICES ASSUME Init
             PROVE  IInv
  OBVIOUS
<1>1. TypeOK
  BY FederationAssumption DEF Init, TypeOK, Loop
<1>2. EventInv /\ StepInv
  BY DEF Init, EventInv, StepInv, StepOf
<1>3. CutInv
  <2> SUFFICES ASSUME NEW n \in Node
               PROVE  \E cut : IsCut(n, cut) /\ IsSent(n, cut)
    BY DEF CutInv
  <2> DEFINE cut == [i \in 0 .. 0 |-> 0]
  <2>1. Len(batches[n]) = 0 /\ Len(sends[n]) = 0 /\ rows[n] = 0
    BY DEF Init
  <2>2. IsCut(n, cut) /\ IsSent(n, cut)
    BY <2>1 DEF IsCut, IsSent
  <2>3. QED
    BY <2>2
<1>4. QED
  BY <1>1, <1>2, <1>3 DEF IInv

LEMMA CutBounds ==
  ASSUME IInv, NEW n \in Node, NEW cut, IsCut(n, cut)
  PROVE  /\ rows[n] \in Nat /\ Len(events) \in Nat /\ rows[n] <= Len(events)
         /\ cut[Len(batches[n])] \in Nat /\ cut[Len(batches[n])] <= rows[n]
         /\ \A i \in 1 .. Len(batches[n]) :
               /\ cut[i - 1] \in Nat /\ cut[i] \in Nat
               /\ cut[i - 1] <= cut[i] /\ cut[i] <= cut[Len(batches[n])]
               /\ \A k \in 1 .. Len(batches[n][i].transfers) :
                     cut[i - 1] + k \in 1 .. cut[i]
         /\ IsSent(n, cut) => Len(sends[n]) \in Nat /\ Len(sends[n]) <= cut[Len(batches[n])]
<1> DEFINE num == Len(batches[n])
<1>1. /\ num \in Nat /\ rows[n] \in Nat /\ Len(events) \in Nat /\ rows[n] <= Len(events)
      /\ sends[n] \in Seq(Nat)
  BY BatchesAreTyped DEF IInv, StepInv, StepOf
<1>2. /\ cut[num] \in Nat /\ cut[num] <= rows[n] /\ cut[0] = 0
      /\ \A i \in 0 .. num : cut[i] \in Nat
      /\ \A i, j \in 0 .. num : i <= j => cut[i] <= cut[j]
  <2>1. /\ cut \in [0 .. num -> Nat] /\ cut[num] <= rows[n] /\ cut[0] = 0
        /\ \A i, j \in 0 .. num : i <= j => cut[i] <= cut[j]
    BY Zenon DEF IsCut
  <2>2. num \in 0 .. num
    BY <1>1
  <2>3. QED
    BY <2>1, <2>2
<1>3. ASSUME NEW i \in 1 .. num
      PROVE  /\ cut[i - 1] \in Nat /\ cut[i] \in Nat
             /\ cut[i - 1] <= cut[i] /\ cut[i] <= cut[num]
             /\ \A k \in 1 .. Len(batches[n][i].transfers) : cut[i - 1] + k \in 1 .. cut[i]
  <2>1. i - 1 \in 0 .. num /\ i \in 0 .. num /\ num \in 0 .. num /\ i - 1 <= i /\ i <= num
    BY <1>1
  <2>2. /\ cut[i - 1] \in Nat /\ cut[i] \in Nat
        /\ cut[i - 1] <= cut[i] /\ cut[i] <= cut[num]
    BY <1>2, <2>1
  <2>3. Len(batches[n][i].transfers) = cut[i] - cut[i - 1]
    BY DEF IsCut
  <2>4. QED
    BY <2>2, <2>3
<1>4. ASSUME IsSent(n, cut)
      PROVE  Len(sends[n]) \in Nat /\ Len(sends[n]) <= cut[num]
  <2>1. Len(sends[n]) \in Nat
    BY <1>1
  <2>2. CASE num = 0
    BY <1>2, <1>4, <2>2 DEF IsSent
  <2>3. CASE num > 0
    <3>1. num \in 1 .. num
      BY <1>1, <2>3
    <3>2. cut[num - 1] <= cut[num] /\ cut[num - 1] \in Nat
      BY <1>3, <3>1
    <3>3. Len(sends[n]) = cut[num - 1] \/ Len(sends[n]) = cut[num]
      BY <1>4, <2>3 DEF IsSent
    <3>4. QED
      BY <1>2, <2>1, <3>2, <3>3
  <2>4. QED
    BY <1>1, <2>2, <2>3
<1>5. QED
  BY <1>1, <1>2, <1>3, <1>4

(* A step that leaves the batches and the sent transfers of a node alone    *)
(* leaves its cut as it is.                                                 *)
LEMMA CutIsKept ==
  ASSUME IInv, NEW n \in Node, batches'[n] = batches[n], sends'[n] = sends[n],
         rows'[n] \in Nat, rows[n] <= rows'[n],
         \A k \in 1 .. Len(events) : events'[k] = events[k],
         pc'[n] \in {"send", "sent"} => pc'[n] = pc[n]
  PROVE  \E cut : IsCut(n, cut)' /\ IsSent(n, cut)'
<1>1. PICK cut : IsCut(n, cut) /\ IsSent(n, cut)
  BY DEF IInv, CutInv
<1> DEFINE num == Len(batches[n])
<1>2. /\ rows[n] \in Nat /\ Len(events) \in Nat /\ rows[n] <= Len(events)
      /\ cut[num] \in Nat /\ cut[num] <= rows[n]
      /\ \A i \in 1 .. num :
            /\ cut[i] \in Nat /\ cut[i] <= cut[num]
            /\ \A k \in 1 .. Len(batches[n][i].transfers) : cut[i - 1] + k \in 1 .. cut[i]
      /\ Len(sends[n]) \in Nat /\ Len(sends[n]) <= cut[num]
  BY <1>1, CutBounds
<1>3. IsCut(n, cut)'
  <2>1. cut[num] <= rows'[n]
    BY <1>2
  <2>2. \A i \in 1 .. num : \A k \in 1 .. Len(batches[n][i].transfers) :
           batches[n][i].transfers[k] = events'[cut[i - 1] + k]
    <3> SUFFICES ASSUME NEW i \in 1 .. num, NEW k \in 1 .. Len(batches[n][i].transfers)
                 PROVE  batches[n][i].transfers[k] = events'[cut[i - 1] + k]
      OBVIOUS
    <3>1. cut[i - 1] + k \in 1 .. Len(events)
      BY <1>2
    <3>2. QED
      BY <1>1, <3>1 DEF IsCut
  <2>3. QED
    BY <1>1, <2>1, <2>2 DEF IsCut
<1>4. \A k \in 1 .. Len(sends[n]) : k \in 1 .. Len(events)
  BY <1>2
<1>5. IsSent(n, cut)'
  BY <1>1, <1>4 DEF IsSent, LastStatus
<1>6. QED
  BY <1>3, <1>5

(* A step that changes at most the status of the last batch, to one that is *)
(* as true.                                                                 *)
LEMMA CutOfStatus ==
  ASSUME IInv, NEW n \in Node, NEW s \in Status, SetStatus(n, s),
         current[n] = Len(batches[n]), Len(batches[n]) > 0,
         UNCHANGED <<events, rows, sends>>,
         s = "CREATED" \/ pc'[n] = "send" =>
             batches[n][current[n]].status = "CREATED" \/ pc[n] = "send",
         s \in {"SENT_TO_TAP", "FINALIZED"} \/ pc'[n] = "sent" =>
             batches[n][current[n]].status \in {"SENT_TO_TAP", "FINALIZED"} \/ pc[n] = "sent"
  PROVE  \E cut : IsCut(n, cut)' /\ IsSent(n, cut)'
<1>1. PICK cut : IsCut(n, cut) /\ IsSent(n, cut)
  BY DEF IInv, CutInv
<1> DEFINE num == Len(batches[n])
<1>2. num \in Nat
  BY BatchesAreTyped DEF IInv
<1>3. /\ Len(batches'[n]) = num
      /\ \A i \in 1 .. num :
            /\ batches'[n][i].transfers = batches[n][i].transfers
            /\ batches'[n][i].status = IF i = num THEN s ELSE batches[n][i].status
  BY StatusIsSet DEF IInv
<1>4. IsCut(n, cut)'
  <2>1. IsCut(n, cut)
    BY <1>1
  <2>2. rows' = rows /\ events' = events
    OBVIOUS
  <2>3. \A i \in 1 .. num :
           /\ Len(batches'[n][i].transfers) = cut[i] - cut[i - 1]
           /\ \A k \in 1 .. Len(batches'[n][i].transfers) :
                 batches'[n][i].transfers[k] = events[cut[i - 1] + k]
    <3> SUFFICES ASSUME NEW i \in 1 .. num
                 PROVE  /\ Len(batches'[n][i].transfers) = cut[i] - cut[i - 1]
                        /\ \A k \in 1 .. Len(batches'[n][i].transfers) :
                              batches'[n][i].transfers[k] = events[cut[i - 1] + k]
      OBVIOUS
    <3>1. batches'[n][i].transfers = batches[n][i].transfers
      BY <1>3
    <3>2. /\ Len(batches[n][i].transfers) = cut[i] - cut[i - 1]
          /\ \A k \in 1 .. Len(batches[n][i].transfers) :
                batches[n][i].transfers[k] = events[cut[i - 1] + k]
      BY <2>1, Zenon DEF IsCut
    <3>3. QED
      BY <3>1, <3>2, Zenon
  <2>4. /\ cut \in [0 .. num -> Nat] /\ cut[0] = 0 /\ cut[num] <= rows[n]
        /\ \A i, j \in 0 .. num : i <= j => cut[i] <= cut[j]
        /\ \A k \in 1 .. cut[num] : \E i \in 1 .. num : cut[i - 1] < k /\ k <= cut[i]
    BY <2>1, Zenon DEF IsCut
  <2>5. Len(batches'[n]) = num
    BY <1>3
  <2> HIDE DEF num
  <2>6. QED
    BY <2>2, <2>3, <2>4, <2>5, Zenon DEF IsCut
<1>5. num \in 1 .. num /\ batches'[n][num].status = s
  BY <1>2, <1>3
<1>6. \A i \in 1 .. num - 1 : i \in 1 .. num /\ i # num
  BY <1>2
<1>7. \A i \in 1 .. num - 1 : batches'[n][i].status = "FINALIZED"
  BY <1>1, <1>3, <1>6 DEF IsSent, LastStatus
<1>8. IsSent(n, cut)'
  BY <1>1, <1>3, <1>5, <1>7 DEF IsSent, LastStatus
<1>9. QED
  BY <1>4, <1>8

(* Only the last batch of a node can be unfinished. *)
LEMMA UnfinishedIsLast ==
  ASSUME IInv, NEW n \in Node
  PROVE  /\ Unfinished(n) = {} =>
               Len(batches[n]) = 0 \/ (Len(batches[n]) > 0 /\ LastStatus(n) = "FINALIZED")
         /\ Unfinished(n) # {} => /\ Len(batches[n]) > 0
                                  /\ Min(Unfinished(n)) = Len(batches[n])
                                  /\ LastStatus(n) # "FINALIZED"
<1> DEFINE num == Len(batches[n])
<1>1. num \in Nat /\ DOMAIN batches[n] = 1 .. num
  BY BatchesAreTyped DEF IInv
<1>2. \A i \in 1 .. num - 1 : batches[n][i].status = "FINALIZED"
  BY DEF IInv, CutInv, IsSent
<1>3. Unfinished(n) \subseteq {num} /\ (Unfinished(n) # {} => num > 0)
  <2>1. \A i \in Unfinished(n) : i \in 1 .. num /\ i \notin 1 .. num - 1
    BY <1>1, <1>2 DEF Unfinished
  <2>2. QED
    BY <1>1, <2>1
<1>4. CASE Unfinished(n) = {}
  <2>1. num > 0 => num \in DOMAIN batches[n]
    BY <1>1
  <2>2. QED
    BY <1>1, <1>4, <2>1 DEF Unfinished, LastStatus
<1>5. CASE Unfinished(n) # {}
  <2>1. Unfinished(n) = {num} /\ num > 0
    BY <1>3, <1>5
  <2>2. Min({num}) = num
    BY <1>1 DEF Min
  <2>3. QED
    BY <2>1, <2>2 DEF Unfinished, LastStatus
<1>6. QED
  BY <1>4, <1>5

(* The scanned transfers in no batch are those after the end of the last.   *)
LEMMA UnbatchedIsRest ==
  ASSUME IInv, NEW n \in Node, NEW cut, IsCut(n, cut)
  PROVE  /\ Unbatched(n) \in Seq(Nat)
         /\ Len(Unbatched(n)) = rows[n] - cut[Len(batches[n])]
         /\ \A i \in 1 .. Len(Unbatched(n)) :
               Unbatched(n)[i] = events[cut[Len(batches[n])] + i]
<1> DEFINE num == Len(batches[n])
           linked == UNION {Range(batches[n][i].transfers) : i \in DOMAIN batches[n]}
           left == {k \in 1 .. rows[n] : events[k] \notin linked}
           m == cut[num]
           r == rows[n]
<1>1. /\ r \in Nat /\ Len(events) \in Nat /\ r <= Len(events) /\ m \in Nat /\ m <= r
      /\ \A i \in 1 .. num :
            /\ cut[i] \in Nat /\ cut[i] <= m
            /\ \A k \in 1 .. Len(batches[n][i].transfers) : cut[i - 1] + k \in 1 .. cut[i]
  BY CutBounds
<1>2. /\ num \in Nat /\ DOMAIN batches[n] = 1 .. num /\ events \in Seq(Nat)
      /\ \A i \in 1 .. num : batches[n][i].transfers \in Seq(Nat)
  BY BatchesAreTyped DEF IInv
<1>3. \A c : c \in linked <=>
         \E i \in 1 .. num : \E k \in 1 .. Len(batches[n][i].transfers) :
            c = batches[n][i].transfers[k]
  <2>1. \A i \in 1 .. num : DOMAIN batches[n][i].transfers = 1 .. Len(batches[n][i].transfers)
    BY <1>2
  <2> SUFFICES ASSUME NEW c
               PROVE  c \in linked <=>
                         \E i \in 1 .. num : \E k \in 1 .. Len(batches[n][i].transfers) :
                            c = batches[n][i].transfers[k]
    OBVIOUS
  <2>2. c \in linked <=> \E i \in 1 .. num : c \in Range(batches[n][i].transfers)
    BY <1>2
  <2>3. \A i \in 1 .. num : c \in Range(batches[n][i].transfers) <=>
           \E k \in 1 .. Len(batches[n][i].transfers) : c = batches[n][i].transfers[k]
    BY <2>1 DEF Range
  <2> HIDE DEF linked, num
  <2>4. QED
    BY <2>2, <2>3, Zenon
<1> HIDE DEF linked
<1>4. ASSUME NEW k \in 1 .. r, k > m
      PROVE  events[k] \notin linked
  <2> SUFFICES ASSUME events[k] \in linked
               PROVE  FALSE
    OBVIOUS
  <2>0. PICK i \in 1 .. num : \E j \in 1 .. Len(batches[n][i].transfers) :
           events[k] = batches[n][i].transfers[j]
    BY <1>3
  <2>1. PICK j \in 1 .. Len(batches[n][i].transfers) : events[k] = batches[n][i].transfers[j]
    BY <2>0
  <2>2. events[k] = events[cut[i - 1] + j] /\ cut[i - 1] + j \in 1 .. cut[i] /\ cut[i] <= m
        /\ cut[i] \in Nat
    BY <1>1, <2>1 DEF IsCut
  <2> DEFINE l == cut[i - 1] + j
  <2>3. l \in 1 .. Len(events) /\ k \in 1 .. Len(events) /\ l < k
    BY <1>1, <1>4, <2>2
  <2>4. events[l] < events[k] /\ events[l] \in Nat /\ events[k] \in Nat
    <3> HIDE DEF l
    <3>1. events[l] < events[k]
      BY <2>3, Zenon DEF IInv, EventInv
    <3>2. \A q \in 1 .. Len(events) : events[q] \in Nat
      BY <1>2
    <3>3. QED
      BY <2>3, <3>1, <3>2
  <2>5. QED
    BY <2>2, <2>4
<1>5. ASSUME NEW k \in 1 .. r, k <= m
      PROVE  events[k] \in linked
  <2>1. PICK i \in 1 .. num : cut[i - 1] < k /\ k <= cut[i]
    BY <1>1, <1>5 DEF IsCut
  <2>2. cut[i - 1] \in Nat /\ cut[i] \in Nat /\ Len(batches[n][i].transfers) = cut[i] - cut[i - 1]
    BY CutBounds DEF IsCut
  <2>3. k - cut[i - 1] \in 1 .. Len(batches[n][i].transfers)
    BY <2>1, <2>2
  <2>4. batches[n][i].transfers[k - cut[i - 1]] = events[cut[i - 1] + (k - cut[i - 1])]
    BY <2>3 DEF IsCut
  <2>5. cut[i - 1] + (k - cut[i - 1]) = k
    BY <2>2
  <2>6. QED
    BY <1>3, <2>3, <2>4, <2>5
<1>6. left = m + 1 .. r
  BY <1>1, <1>4, <1>5
<1> HIDE DEF left, m, r
<1>7. Unbatched(n) = Rest(events, left)
  BY DEF Unbatched, Rest, left, linked
<1>8. Unbatched(n) = [i \in 1 .. r - m |-> events[m + i]]
  <2>1. m \in Nat /\ r \in Nat /\ m <= r
    BY <1>1
  <2>2. Rest(events, m + 1 .. r) = [i \in 1 .. r - m |-> events[m + i]]
    BY <2>1, RestInOrder
  <2>3. QED
    BY <1>6, <1>7, <2>2, Zenon
<1>9. \A i \in 1 .. r - m : m + i \in 1 .. Len(events) /\ events[m + i] \in Nat
  BY <1>1, <1>2
<1>10. r - m \in Nat
  BY <1>1
<1>11. QED
  BY <1>8, <1>9, <1>10 DEF m, r

-----------------------------------------------------------------------------
(* A new batch holds the first events after the end of the last one. *)
LEMMA NewBatchCuts ==
  ASSUME IInv, NEW n \in Node, NewBatch(n)
  PROVE  /\ batches' \in [Node -> Seq(Batch)]
         /\ \A o \in Node \ {n} : batches'[o] = batches[o]
         /\ Len(batches'[n]) = Len(batches[n]) + 1
         /\ batches'[n][Len(batches[n]) + 1].status = "CREATED"
         /\ \E cut : IsCut(n, cut)' /\ IsSent(n, cut)'
<1>1. PICK cut : IsCut(n, cut) /\ IsSent(n, cut)
  BY DEF IInv, CutInv
<1> DEFINE num == Len(batches[n])
           rest == Unbatched(n)
           size == Min({BatchLimit, Len(rest)})
           first == SubSeq(rest, 1, size)
           b == [transfers |-> first, status |-> "CREATED"]
           longer == [i \in 0 .. num + 1 |-> IF i <= num THEN cut[i] ELSE cut[num] + size]
<1>2. /\ num \in Nat /\ batches[n] \in Seq(Batch)
      /\ cut[num] \in Nat /\ rows[n] \in Nat /\ cut[num] <= rows[n]
  BY <1>1, CutBounds, BatchesAreTyped DEF IInv
<1>3. /\ rest \in Seq(Nat) /\ Len(rest) = rows[n] - cut[num]
      /\ \A i \in 1 .. Len(rest) : rest[i] = events[cut[num] + i]
  BY <1>1, UnbatchedIsRest
<1>4. size \in 1 .. Len(rest)
  <2>1. Len(rest) \in Nat /\ Len(rest) # 0
    BY <1>3 DEF NewBatch
  <2>2. QED
    BY <2>1, SmallerOfTwo, BoundAssumption
<1>5. batches' = [batches EXCEPT ![n] = Append(batches[n], b)]
  BY DEF NewBatch, CreateBatch
<1> HIDE DEF rest, size
<1>6. /\ first \in Seq(Nat) /\ Len(first) = size
      /\ \A i \in 1 .. size : first[i] = events[cut[num] + i]
  BY <1>3, <1>4
<1> HIDE DEF first
<1>7. b \in Batch
  BY <1>6 DEF Batch, Status
<1>8. b.transfers = first /\ b.status = "CREATED"
  OBVIOUS
<1> HIDE DEF b
<1>9. /\ batches'[n] = Append(batches[n], b)
      /\ \A o \in Node \ {n} : batches'[o] = batches[o]
      /\ batches' \in [Node -> Seq(Batch)]
  BY <1>2, <1>5, <1>7 DEF IInv, TypeOK
<1>10. /\ Len(batches'[n]) = num + 1
       /\ batches'[n][num + 1] = b
       /\ \A i \in 1 .. num : batches'[n][i] = batches[n][i]
  BY <1>2, <1>7, <1>9
<1>11. /\ sends' = sends /\ events' = events /\ rows' = rows /\ pc'[n] = "begin"
       /\ Unfinished(n) = {}
  BY DEF NewBatch, chainVars, GoTo, IInv, TypeOK
<1>c. /\ cut \in [0 .. num -> Nat] /\ cut[0] = 0
      /\ \A i, j \in 0 .. num : i <= j => cut[i] <= cut[j]
      /\ \A k \in 1 .. cut[num] : \E i \in 1 .. num : cut[i - 1] < k /\ k <= cut[i]
  BY <1>1, Zenon DEF IsCut
<1> HIDE DEF num
<1>12. PICK next :
          /\ next \in [0 .. num + 1 -> Nat] /\ next[num + 1] = cut[num] + size
          /\ \A i \in 0 .. num : next[i] = cut[i] /\ cut[i] \in Nat
  <2>1. size \in Nat /\ cut[num] + size \in Nat
    BY <1>2, <1>3, <1>4
  <2>2. num + 1 \in 0 .. num + 1 /\ ~(num + 1 <= num)
    BY <1>2
  <2>3. \A i \in 0 .. num : cut[i] \in Nat /\ i <= num /\ i \in 0 .. num + 1
    BY <1>2, <1>c
  <2>4. \A i \in 0 .. num + 1 : i <= num => i \in 0 .. num
    BY <1>2
  <2>5. /\ longer \in [0 .. num + 1 -> Nat] /\ longer[num + 1] = cut[num] + size
        /\ \A i \in 0 .. num : longer[i] = cut[i] /\ cut[i] \in Nat
    BY <2>1, <2>2, <2>3, <2>4
  <2> HIDE DEF longer
  <2>6. QED
    BY <2>5
<1>13. IsCut(n, next)'
  <2>1. next[0] = 0 /\ next[num + 1] <= rows[n]
    BY <1>2, <1>3, <1>4, <1>12, <1>c
  <2>2. \A i, j \in 0 .. num + 1 : i <= j => next[i] <= next[j]
    <3> SUFFICES ASSUME NEW i \in 0 .. num + 1, NEW j \in 0 .. num + 1, i <= j
                 PROVE  next[i] <= next[j]
      OBVIOUS
    <3>1. \A l \in 0 .. num : cut[l] <= cut[num] /\ cut[l] \in Nat /\ cut[l] <= cut[num] + size
      <4>1. size \in Nat
        BY <1>3, <1>4
      <4>2. \A l \in 0 .. num : cut[l] <= cut[num] /\ cut[l] \in Nat
        BY <1>2, <1>12, <1>c
      <4>3. QED
        BY <1>2, <4>1, <4>2
    <3>2. CASE j \in 0 .. num
      <4>1. i \in 0 .. num
        BY <1>2, <3>2
      <4>2. QED
        BY <1>12, <1>c, <3>2, <4>1
    <3>3. CASE j = num + 1 /\ i \in 0 .. num
      BY <1>12, <3>1, <3>3
    <3>4. CASE j = num + 1 /\ i = num + 1
      BY <1>2, <1>12, <3>4
    <3>5. QED
      BY <1>2, <3>2, <3>3, <3>4
  <2>3. \A k \in 1 .. next[num + 1] : \E i \in 1 .. num + 1 : next[i - 1] < k /\ k <= next[i]
    <3> SUFFICES ASSUME NEW k \in 1 .. next[num + 1]
                 PROVE  \E i \in 1 .. num + 1 : next[i - 1] < k /\ k <= next[i]
      OBVIOUS
    <3>1. CASE k <= cut[num]
      <4>1. PICK i \in 1 .. num : cut[i - 1] < k /\ k <= cut[i]
        BY <1>c, <1>2, <3>1
      <4>2. next[i - 1] = cut[i - 1] /\ next[i] = cut[i] /\ i \in 1 .. num + 1
        BY <1>2, <1>12
      <4>3. QED
        BY <4>1, <4>2
    <3>2. CASE cut[num] < k
      <4>1. next[(num + 1) - 1] = cut[num] /\ num + 1 \in 1 .. num + 1
        BY <1>2, <1>12
      <4>2. QED
        BY <3>2, <4>1
    <3>3. k \in Nat
      BY <1>2, <1>4, <1>12
    <3>4. QED
      BY <1>2, <3>1, <3>2, <3>3
  <2>4. \A i \in 1 .. num + 1 :
           /\ Len(batches'[n][i].transfers) = next[i] - next[i - 1]
           /\ \A k \in 1 .. Len(batches'[n][i].transfers) :
                 batches'[n][i].transfers[k] = events[next[i - 1] + k]
    <3> SUFFICES ASSUME NEW i \in 1 .. num + 1
                 PROVE  /\ Len(batches'[n][i].transfers) = next[i] - next[i - 1]
                        /\ \A k \in 1 .. Len(batches'[n][i].transfers) :
                              batches'[n][i].transfers[k] = events[next[i - 1] + k]
      OBVIOUS
    <3>1. CASE i \in 1 .. num
      <4>1. /\ batches'[n][i] = batches[n][i]
            /\ next[i - 1] = cut[i - 1] /\ next[i] = cut[i]
        <5>1. i - 1 \in 0 .. num /\ i \in 0 .. num
          BY <1>2, <3>1
        <5>2. QED
          BY <1>10, <1>12, <3>1, <5>1
      <4>2. /\ Len(batches[n][i].transfers) = cut[i] - cut[i - 1]
            /\ \A k \in 1 .. Len(batches[n][i].transfers) :
                  batches[n][i].transfers[k] = events[cut[i - 1] + k]
        BY <1>1, <3>1, Zenon DEF IsCut, num
      <4>3. QED
        BY <4>1, <4>2
    <3>2. CASE i = num + 1
      <4>1. next[i - 1] = cut[num] /\ next[i] = cut[num] + size
        BY <1>2, <1>12, <3>2
      <4>2. Len(batches'[n][i].transfers) = size /\ batches'[n][i].transfers = first
        BY <1>6, <1>8, <1>10, <3>2
      <4>3. size = (cut[num] + size) - cut[num]
        BY <1>2, <1>3, <1>4
      <4>4. QED
        BY <1>6, <4>1, <4>2, <4>3
    <3>3. QED
      BY <1>2, <3>1, <3>2
  <2>5. Len(batches'[n]) = num + 1 /\ events' = events /\ rows' = rows
    BY <1>10, <1>11
  <2>6. /\ next \in [0 .. Len(batches'[n]) -> Nat]
        /\ next[0] = 0
        /\ next[Len(batches'[n])] <= rows'[n]
        /\ \A i, j \in 0 .. Len(batches'[n]) : i <= j => next[i] <= next[j]
        /\ \A k \in 1 .. next[Len(batches'[n])] :
              \E i \in 1 .. Len(batches'[n]) : next[i - 1] < k /\ k <= next[i]
        /\ \A i \in 1 .. Len(batches'[n]) :
              /\ Len(batches'[n][i].transfers) = next[i] - next[i - 1]
              /\ \A k \in 1 .. Len(batches'[n][i].transfers) :
                    batches'[n][i].transfers[k] = events'[next[i - 1] + k]
    BY <1>12, <2>1, <2>2, <2>3, <2>4, <2>5, Zenon
  <2>7. QED
    BY <2>6, Zenon DEF IsCut
<1>14. IsSent(n, next)'
  <2>1. /\ num > 0 => batches[n][num].status = "FINALIZED"
        /\ \A i \in 1 .. num - 1 : batches[n][i].status = "FINALIZED"
    BY <1>1, <1>2, <1>11, UnfinishedIsLast DEF IsSent, LastStatus, num
  <2>2. \A i \in 1 .. (num + 1) - 1 : batches'[n][i].status = "FINALIZED"
    <3> SUFFICES ASSUME NEW i \in 1 .. (num + 1) - 1
                 PROVE  batches'[n][i].status = "FINALIZED"
      OBVIOUS
    <3>1. i \in 1 .. num /\ (i = num \/ i \in 1 .. num - 1) /\ num > 0
      BY <1>2
    <3>2. batches[n][i].status = "FINALIZED"
      BY <2>1, <3>1
    <3>3. QED
      BY <1>10, <3>1, <3>2
  <2>3. Len(sends[n]) = cut[num]
    BY <1>1, <1>2, <1>c, <2>1 DEF IsSent, LastStatus, num
  <2>4. next[(num + 1) - 1] = cut[num]
    BY <1>2, <1>12
  <2>5. \A k \in 1 .. Len(sends[n]) : sends[n][k] = events[k]
    BY <1>1 DEF IsSent
  <2>6. num + 1 # 0 /\ num + 1 > 0
    BY <1>2
  <2>7. LastStatus(n)' = "CREATED" /\ Len(batches'[n]) = num + 1
    BY <1>8, <1>10 DEF LastStatus
  <2>8. Len(sends'[n]) = next[Len(batches'[n]) - 1]
    BY <1>11, <2>3, <2>4, <2>7
  <2>9. \A i \in 1 .. Len(batches'[n]) - 1 : batches'[n][i].status = "FINALIZED"
    BY <2>2, <2>7
  <2>10. /\ \A k \in 1 .. Len(sends'[n]) : sends'[n][k] = events'[k]
         /\ pc'[n] = "begin" /\ Len(batches'[n]) # 0
    BY <1>11, <2>5, <2>6, <2>7
  <2>11. QED
    BY <2>7, <2>8, <2>9, <2>10 DEF IsSent
<1>15. QED
  BY <1>8, <1>9, <1>10, <1>13, <1>14 DEF num

(* Sending the last batch brings what was sent to the end of that batch. *)
LEMMA SendingReachesEnd ==
  ASSUME IInv, NEW n \in Node, pc[n] = "send", AssetsSent(n),
         UNCHANGED <<events, rows, batches>>, pc'[n] # "send"
  PROVE  /\ sends' \in [Node -> Seq(Nat)]
         /\ \A o \in Node \ {n} : sends'[o] = sends[o]
         /\ \E cut : IsCut(n, cut)' /\ IsSent(n, cut)'
<1>1. PICK cut : IsCut(n, cut) /\ IsSent(n, cut)
  BY DEF IInv, CutInv
<1> DEFINE num == Len(batches[n])
           transfers == batches[n][num].transfers
           before == Len(sends[n])
<1>2. /\ num \in Nat /\ num > 0 /\ current[n] = num
      /\ batches[n][num].status = "SENDING_TO_TAP" /\ num \in 1 .. num
  BY BatchesAreTyped DEF IInv, StepInv, StepOf
<1>3. /\ cut[num - 1] \in Nat /\ cut[num] \in Nat /\ cut[num - 1] <= cut[num]
      /\ before = cut[num - 1] /\ before \in Nat
      /\ Len(transfers) = cut[num] - cut[num - 1]
      /\ \A k \in 1 .. Len(transfers) : transfers[k] = events[cut[num - 1] + k]
  <2>1. /\ cut[num - 1] \in Nat /\ cut[num] \in Nat /\ cut[num - 1] <= cut[num]
        /\ before \in Nat
    BY <1>1, <1>2, CutBounds
  <2>2. before = cut[num - 1]
    BY <1>1, <1>2 DEF IsSent
  <2>3. QED
    BY <1>1, <1>2, <2>1, <2>2 DEF IsCut
<1>4. transfers \in Seq(Nat) /\ sends[n] \in Seq(Nat)
  BY <1>2, BatchesAreTyped DEF IInv
<1>5. sends' = [sends EXCEPT ![n] = sends[n] \o transfers]
  BY <1>2 DEF AssetsSent
<1>c. \A k \in 1 .. before : sends[n][k] = events[k]
  BY <1>1 DEF IsSent
<1> HIDE DEF transfers, num
<1>6. /\ sends'[n] = sends[n] \o transfers
      /\ \A o \in Node \ {n} : sends'[o] = sends[o]
      /\ sends' \in [Node -> Seq(Nat)]
  BY <1>4, <1>5 DEF IInv, TypeOK
<1>7. Len(sends'[n]) = cut[num]
  <2>1. Len(sends'[n]) = before + Len(transfers)
    BY <1>4, <1>6
  <2> HIDE DEF before
  <2>2. QED
    BY <1>3, <2>1
<1>8. ASSUME NEW k \in 1 .. cut[num]
      PROVE  sends'[n][k] = events[k]
  <2>1. CASE k <= before
    <3>1. sends'[n][k] = sends[n][k] /\ k \in 1 .. before
      BY <1>3, <1>4, <1>6, <2>1
    <3>2. QED
      BY <1>c, <3>1
  <2>2. CASE before < k
    <3>1. k - before \in 1 .. Len(transfers) /\ cut[num - 1] + (k - before) = k
      <4> HIDE DEF before
      <4>1. QED
        BY <1>3, <2>2
    <3>2. \A j \in 1 .. Len(transfers) : (sends[n] \o transfers)[before + j] = transfers[j]
      BY <1>4
    <3>3. before + (k - before) = k
      BY <1>3
    <3>4. sends'[n][k] = transfers[k - before]
      <4> HIDE DEF before
      <4>1. QED
        BY <1>6, <3>1, <3>2, <3>3
    <3>5. QED
      BY <1>3, <3>1, <3>4
  <2>3. QED
    BY <1>3, <2>1, <2>2
<1>9. IsCut(n, cut)'
  BY <1>1 DEF IsCut
<1>10. IsSent(n, cut)'
  BY <1>1, <1>2, <1>7, <1>8 DEF IsSent, LastStatus, num
<1>11. QED
  BY <1>6, <1>9, <1>10

-----------------------------------------------------------------------------
LEMMA OneNodeMoves ==
  ASSUME IInv, NEW n \in Node, UNCHANGED chainVars,
         \A o \in Node \ {n} : /\ batches'[o] = batches[o] /\ sends'[o] = sends[o]
                               /\ rows'[o] = rows[o]
                               /\ pc'[o] = pc[o] /\ current'[o] = current[o],
         StepOf(n)',
         \E cut : IsCut(n, cut)' /\ IsSent(n, cut)'
  PROVE  EventInv' /\ StepInv' /\ CutInv'
<1>1. EventInv'
  BY DEF IInv, EventInv, chainVars
<1>2. StepInv'
  BY DEF IInv, StepInv, StepOf, chainVars
<1>3. CutInv'
  <2> SUFFICES ASSUME NEW o \in Node
               PROVE  \E cut : IsCut(o, cut)' /\ IsSent(o, cut)'
    BY DEF CutInv
  <2>1. CASE o = n
    BY <2>1
  <2>2. CASE o # n
    <3>1. /\ rows[o] \in Nat /\ batches'[o] = batches[o] /\ sends'[o] = sends[o]
          /\ rows'[o] = rows[o] /\ pc'[o] = pc[o] /\ events' = events
      BY <2>2 DEF IInv, TypeOK, chainVars
    <3>2. QED
      BY <3>1, CutIsKept
  <2>3. QED
    BY <2>1, <2>2
<1>4. QED
  BY <1>1, <1>2, <1>3

(* The contract's transfers only append to the events. *)
LEMMA ContractKeepsInv == IInv /\ (transferToTap \/ acceptTransferFromTap) => IInv'
<1> SUFFICES ASSUME IInv, transferToTap \/ acceptTransferFromTap
             PROVE  IInv'
  OBVIOUS
<1>1. /\ numTransfersTotal \in Nat /\ events \in Seq(Nat)
      /\ numTransfersTotal' = numTransfersTotal + 1
      /\ events' = events \/ events' = Append(events, numTransfersTotal + 1)
      /\ UNCHANGED <<rows, batches, pc, current, sends, cfgVars, faults>>
  BY DEF IInv, TypeOK, transferToTap, acceptTransferFromTap, NextCounter
<1>2. /\ Len(events) \in Nat /\ Len(events') \in Nat /\ Len(events) <= Len(events')
      /\ Len(events') <= Len(events) + 1
      /\ \A k \in 1 .. Len(events) : events'[k] = events[k] /\ events[k] \in Nat
      /\ \A k \in 1 .. Len(events') : k \notin 1 .. Len(events) =>
            events'[k] = numTransfersTotal + 1
  BY <1>1
<1>3. TypeOK'
  <2>1. numTransfersTotal' \in Nat /\ events' \in Seq(Nat)
    BY <1>1
  <2>2. QED
    BY <1>1, <2>1 DEF IInv, TypeOK, cfgVars
<1>4. EventInv'
  <2>1. \A k \in 1 .. Len(events) : events[k] <= numTransfersTotal
    BY DEF IInv, EventInv
  <2>2. \A k \in 1 .. Len(events') : events'[k] <= numTransfersTotal + 1
    BY <1>1, <1>2, <2>1
  <2>3. \A j, k \in 1 .. Len(events') : j < k => events'[j] < events'[k]
    <3> SUFFICES ASSUME NEW j \in 1 .. Len(events'), NEW k \in 1 .. Len(events'), j < k
                 PROVE  events'[j] < events'[k]
      OBVIOUS
    <3>1. j \in 1 .. Len(events)
      BY <1>2
    <3>2. CASE k \in 1 .. Len(events)
      BY <1>2, <3>1, <3>2 DEF IInv, EventInv
    <3>3. CASE k \notin 1 .. Len(events)
      BY <1>1, <1>2, <2>1, <3>1, <3>3
    <3>4. QED
      BY <3>2, <3>3
  <2>4. QED
    BY <1>1, <2>2, <2>3 DEF EventInv
<1>5. StepInv'
  <2> SUFFICES ASSUME NEW n \in Node
               PROVE  StepOf(n)'
    BY DEF StepInv
  <2>1. rows[n] \in Nat /\ rows[n] <= Len(events) /\ StepOf(n)
    BY DEF IInv, TypeOK, StepInv, StepOf
  <2>2. rows[n] <= Len(events')
    BY <1>2, <2>1
  <2>3. QED
    BY <1>1, <2>1, <2>2 DEF StepOf
<1>6. CutInv'
  <2> SUFFICES ASSUME NEW n \in Node
               PROVE  \E cut : IsCut(n, cut)' /\ IsSent(n, cut)'
    BY DEF CutInv
  <2>1. rows[n] \in Nat /\ rows'[n] = rows[n] /\ batches'[n] = batches[n]
        /\ sends'[n] = sends[n] /\ pc'[n] = pc[n]
    BY <1>1 DEF IInv, TypeOK
  <2>2. QED
    BY <1>2, <2>1, CutIsKept
<1>7. QED
  BY <1>3, <1>4, <1>5, <1>6 DEF IInv

LEMMA RunIterationKeepsInv == \A n \in Node : IInv /\ RunIteration(n) => IInv'
<1> SUFFICES ASSUME NEW n \in Node, IInv, RunIteration(n)
             PROVE  IInv'
  OBVIOUS
<1>1. /\ rows \in [Node -> Nat] /\ Len(events) \in Nat /\ pc \in [Node -> Loop]
      /\ UNCHANGED <<chainVars, batches, current, sends, cfgVars, faults>>
  BY DEF IInv, TypeOK, RunIteration
<1>2. PICK k \in rows[n] .. Len(events) : rows' = [rows EXCEPT ![n] = k]
  BY DEF RunIteration
<1>3. k \in Nat /\ rows[n] \in Nat /\ rows[n] <= k /\ k <= Len(events)
  BY <1>1, <1>2
<1>4. /\ rows' \in [Node -> Nat] /\ rows'[n] = k
      /\ \A o \in Node \ {n} : rows'[o] = rows[o]
  BY <1>1, <1>2, <1>3
<1>5. /\ pc' \in [Node -> Loop] /\ pc'[n] \in {"batch", "idle"}
      /\ \A o \in Node \ {n} : pc'[o] = pc[o]
  BY <1>1 DEF RunIteration, Loop
<1>6. TypeOK'
  BY <1>1, <1>4, <1>5 DEF IInv, TypeOK, chainVars, cfgVars
<1>7. StepOf(n)'
  BY <1>1, <1>3, <1>4, <1>5 DEF StepOf, chainVars
<1>8. \E cut : IsCut(n, cut)' /\ IsSent(n, cut)'
  BY <1>1, <1>3, <1>4, <1>5, CutIsKept DEF chainVars
<1>9. QED
  BY <1>1, <1>4, <1>5, <1>6, <1>7, <1>8, OneNodeMoves DEF IInv

(* A step that only moves the leader, to where the status of its batch is   *)
(* as StepOf says                                                           *)
LEMMA MovingKeepsInv ==
  ASSUME IInv, NEW n \in Node, NEW step \in Loop, GoTo(n, step),
         NEW i \in Nat, Take(n, i),
         UNCHANGED <<chainVars, rows, batches, sends>>,
         leads' \subseteq Node, {faults', restarts'} \subseteq Nat,
         step \notin {"send", "sent"},
         step \in {"begin", "finalize"} => i = Len(batches[n]) /\ Len(batches[n]) > 0,
         step = "begin" => LastStatus(n) = "CREATED",
         step = "finalize" => LastStatus(n) = "SENT_TO_TAP"
  PROVE  IInv'
<1>1. /\ pc' \in [Node -> Loop] /\ pc'[n] = step /\ current' \in [Node -> Nat] /\ current'[n] = i
      /\ \A o \in Node \ {n} : pc'[o] = pc[o] /\ current'[o] = current[o]
  BY DEF IInv, TypeOK, GoTo, Take
<1>2. TypeOK'
  BY <1>1 DEF IInv, TypeOK, chainVars
<1>3. rows[n] \in Nat /\ rows[n] <= Len(events)
  BY DEF IInv, TypeOK, StepInv, StepOf
<1>4. StepOf(n)'
  BY <1>1, <1>3 DEF StepOf, chainVars, LastStatus
<1>5. \E cut : IsCut(n, cut)' /\ IsSent(n, cut)'
  BY <1>1, <1>3, CutIsKept DEF chainVars
<1>6. QED
  BY <1>1, <1>2, <1>4, <1>5, OneNodeMoves DEF IInv

LEMMA EndingKeepsInv ==
  ASSUME IInv, NEW n \in Node, EndIteration(n),
         UNCHANGED <<chainVars, rows, batches, sends>>,
         leads' \subseteq Node, {faults', restarts'} \subseteq Nat
  PROVE  IInv'
<1>1. "idle" \in Loop /\ 0 \in Nat /\ GoTo(n, "idle") /\ Take(n, 0)
  BY DEF Loop, EndIteration
<1>2. QED
  BY <1>1, MovingKeepsInv

LEMMA NewBatchKeepsInv == \A n \in Node : IInv /\ NewBatch(n) => IInv'
<1> SUFFICES ASSUME NEW n \in Node, IInv, NewBatch(n)
             PROVE  IInv'
  OBVIOUS
<1>1. /\ batches' \in [Node -> Seq(Batch)]
      /\ \A o \in Node \ {n} : batches'[o] = batches[o]
      /\ Len(batches'[n]) = Len(batches[n]) + 1
      /\ batches'[n][Len(batches[n]) + 1].status = "CREATED"
      /\ \E cut : IsCut(n, cut)' /\ IsSent(n, cut)'
  BY NewBatchCuts
<1>2. Len(batches[n]) \in Nat /\ rows[n] <= Len(events)
  BY BatchesAreTyped DEF IInv, StepInv, StepOf
<1>3. /\ GoTo(n, "begin") /\ Take(n, Len(batches[n]) + 1)
      /\ UNCHANGED <<chainVars, rows, sends, cfgVars, faults>>
  BY DEF NewBatch
<1>4. /\ pc' \in [Node -> Loop] /\ pc'[n] = "begin"
      /\ current' \in [Node -> Nat] /\ current'[n] = Len(batches[n]) + 1
      /\ \A o \in Node \ {n} : pc'[o] = pc[o] /\ current'[o] = current[o]
  BY <1>2, <1>3 DEF IInv, TypeOK, GoTo, Take, Loop
<1>5. TypeOK'
  BY <1>1, <1>3, <1>4 DEF IInv, TypeOK, chainVars, cfgVars
<1>6. StepOf(n)'
  BY <1>1, <1>2, <1>3, <1>4 DEF StepOf, chainVars
<1>7. QED
  BY <1>1, <1>3, <1>4, <1>5, <1>6, OneNodeMoves DEF IInv

LEMMA TakeUpKeepsInv == \A n \in Node : IInv /\ TakeUp(n) => IInv'
<1> SUFFICES ASSUME NEW n \in Node, IInv, TakeUp(n)
             PROVE  IInv'
  OBVIOUS
<1> DEFINE num == Len(batches[n])
           step == StepFor(LastStatus(n))
<1>1. num \in Nat /\ num > 0 /\ Min(Unfinished(n)) = num /\ LastStatus(n) # "FINALIZED"
  BY UnfinishedIsLast, BatchesAreTyped DEF TakeUp, IInv
<1>2. LastStatus(n) \in {"CREATED", "SENT_TO_TAP", "SENDING_TO_TAP"}
  <2>1. num \in 1 .. num
    BY <1>1
  <2>2. LastStatus(n) \in Status
    BY <2>1, BatchesAreTyped DEF IInv, LastStatus
  <2>3. QED
    BY <1>1, <2>2 DEF Status
<1>3. GoTo(n, step) /\ Take(n, IF step = "idle" THEN 0 ELSE num)
  BY <1>1 DEF TakeUp, LastStatus
<1>4. /\ step \in {"begin", "finalize", "idle"}
      /\ step = "begin" => LastStatus(n) = "CREATED"
      /\ step = "finalize" => LastStatus(n) = "SENT_TO_TAP"
  BY <1>2 DEF StepFor
<1>5. /\ leads' \subseteq Node /\ {faults', restarts'} \subseteq Nat
      /\ UNCHANGED <<chainVars, rows, batches, sends>>
  BY DEF IInv, TypeOK, TakeUp, cfgVars
<1> HIDE DEF step, num
<1>6. step \in Loop /\ (IF step = "idle" THEN 0 ELSE num) \in Nat
  BY <1>1, <1>4 DEF Loop
<1>7. step \in {"begin", "finalize"} => (IF step = "idle" THEN 0 ELSE num) = num
  OBVIOUS
<1>8. QED
  BY <1>1, <1>3, <1>4, <1>5, <1>6, <1>7, MovingKeepsInv DEF num

(* A step of process_current_transfer_batch that sets the status            *)
LEMMA StatusStepKeepsInv ==
  ASSUME IInv, NEW n \in Node, NEW s \in Status, NEW step \in Loop, NEW i \in Nat,
         SetStatus(n, s), GoTo(n, step), Take(n, i),
         current[n] = Len(batches[n]), Len(batches[n]) > 0,
         UNCHANGED <<chainVars, rows, sends, cfgVars, faults>>,
         \/ s = "SENDING_TO_TAP" /\ step = "send" /\ i = current[n] /\ pc[n] = "begin"
         \/ s = "SENT_TO_TAP" /\ step = "finalize" /\ i = current[n] /\ pc[n] = "sent"
         \/ s = "FINALIZED" /\ step = "idle" /\ pc[n] = "finalize"
  PROVE  IInv'
<1>1. /\ pc' \in [Node -> Loop] /\ pc'[n] = step /\ current' \in [Node -> Nat] /\ current'[n] = i
      /\ \A o \in Node \ {n} : pc'[o] = pc[o] /\ current'[o] = current[o]
  BY DEF IInv, TypeOK, GoTo, Take
<1>2. /\ batches' \in [Node -> Seq(Batch)]
      /\ \A o \in Node \ {n} : batches'[o] = batches[o]
      /\ Len(batches'[n]) = Len(batches[n])
      /\ batches'[n][Len(batches[n])].status = s
  <2>1. Len(batches[n]) \in 1 .. Len(batches[n])
    BY BatchesAreTyped DEF IInv
  <2>2. QED
    BY <2>1, StatusIsSet DEF IInv
<1>3. TypeOK'
  BY <1>1, <1>2 DEF IInv, TypeOK, chainVars, cfgVars
<1>4. StepOf(n)'
  BY <1>1, <1>2 DEF IInv, StepInv, StepOf, chainVars
<1>5. \E cut : IsCut(n, cut)' /\ IsSent(n, cut)'
  <2>1. /\ pc[n] = "begin" => batches[n][current[n]].status = "CREATED"
        /\ pc[n] = "finalize" => batches[n][current[n]].status = "SENT_TO_TAP"
    BY DEF IInv, StepInv, StepOf
  <2>2. UNCHANGED <<events, rows, sends>>
    BY DEF chainVars
  <2>3. QED
    BY <1>1, <2>1, <2>2, CutOfStatus
<1>6. QED
  BY <1>1, <1>2, <1>3, <1>4, <1>5, OneNodeMoves DEF IInv

LEMMA SendingKeepsInv ==
  ASSUME IInv, NEW n \in Node, NEW step \in {"sent", "idle"}, NEW i \in Nat,
         pc[n] = "send", AssetsSent(n), GoTo(n, step), Take(n, i),
         step = "sent" => i = current[n],
         UNCHANGED <<chainVars, rows, batches, cfgVars>>, faults' \in Nat
  PROVE  IInv'
<1>1. /\ pc' \in [Node -> Loop] /\ pc'[n] = step /\ current' \in [Node -> Nat] /\ current'[n] = i
      /\ \A o \in Node \ {n} : pc'[o] = pc[o] /\ current'[o] = current[o]
  BY DEF IInv, TypeOK, GoTo, Take, Loop
<1>2. /\ sends' \in [Node -> Seq(Nat)]
      /\ \A o \in Node \ {n} : sends'[o] = sends[o]
      /\ \E cut : IsCut(n, cut)' /\ IsSent(n, cut)'
  BY <1>1, SendingReachesEnd DEF chainVars
<1>3. TypeOK'
  BY <1>1, <1>2 DEF IInv, TypeOK, chainVars, cfgVars
<1>4. StepOf(n)'
  BY <1>1 DEF IInv, StepInv, StepOf, chainVars
<1>5. QED
  BY <1>1, <1>2, <1>3, <1>4, OneNodeMoves DEF IInv

LEMMA BatchStepKeepsInv ==
  \A n \in Node : IInv /\ process_current_transfer_batch(n) => IInv'
<1> SUFFICES ASSUME NEW n \in Node, IInv, process_current_transfer_batch(n)
             PROVE  IInv'
  OBVIOUS
<1>t. /\ leads \subseteq Node /\ faults \in Nat /\ restarts \in Nat
      /\ current \in [Node -> Nat] /\ current[n] \in Nat
  BY DEF IInv, TypeOK
<1>s. /\ pc[n] \in {"begin", "send", "sent", "finalize"} =>
            current[n] = Len(batches[n]) /\ Len(batches[n]) > 0
      /\ {"idle", "send", "finalize"} \subseteq Loop
      /\ {"SENDING_TO_TAP", "SENT_TO_TAP", "FINALIZED"} \subseteq Status
  BY DEF IInv, StepInv, StepOf, Loop, Status
<1>i. current' = current => Take(n, current[n])
  BY <1>t DEF Take
<1>1. CASE NoCurrentBatch(n)
  BY <1>t, <1>1, EndingKeepsInv DEF NoCurrentBatch, cfgVars
<1>2. CASE NewBatch(n)
  BY <1>2, NewBatchKeepsInv
<1>3. CASE TakeUp(n)
  BY <1>3, TakeUpKeepsInv
<1>4. CASE BeginSending(n)
  BY <1>t, <1>s, <1>i, <1>4, StatusStepKeepsInv DEF BeginSending
<1>5. CASE send_assets(n)
  BY <1>t, <1>i, <1>5, SendingKeepsInv DEF send_assets
<1>6. CASE SendRaises(n)
  <2>1. /\ pc[n] = "send" /\ faults' = faults + 1 /\ faults' \in Nat
        /\ EndIteration(n) /\ UNCHANGED <<chainVars, rows, batches, cfgVars>>
        /\ GoTo(n, "idle") /\ Take(n, 0)
    BY <1>t, <1>6 DEF SendRaises, EndIteration
  <2>2. CASE AssetsSent(n)
    BY <2>1, <2>2, SendingKeepsInv
  <2>3. CASE UNCHANGED sends
    BY <1>t, <2>1, <2>3, EndingKeepsInv DEF cfgVars
  <2>4. QED
    BY <1>6, <2>2, <2>3 DEF SendRaises
<1>7. CASE MarkSent(n)
  BY <1>t, <1>s, <1>i, <1>7, StatusStepKeepsInv DEF MarkSent
<1>8. CASE Finalize(n)
  BY <1>t, <1>s, <1>8, StatusStepKeepsInv DEF Finalize, EndIteration
<1>9. QED
  BY <1>1, <1>2, <1>3, <1>4, <1>5, <1>6, <1>7, <1>8 DEF process_current_transfer_batch

LEMMA InvInductive == IInv /\ [Next]_vars => IInv'
<1> SUFFICES ASSUME IInv, [Next]_vars
             PROVE  IInv'
  OBVIOUS
<1>1. CASE transferToTap \/ acceptTransferFromTap
  BY <1>1, ContractKeepsInv
<1>2. ASSUME NEW n \in Node, RunIteration(n) \/ process_current_transfer_batch(n)
      PROVE  IInv'
  BY <1>2, RunIterationKeepsInv, BatchStepKeepsInv
<1>3. ASSUME NEW n \in Node, NEW leader \in BOOLEAN, Restart(n, leader)
      PROVE  IInv'
  <2>1. /\ leads' \subseteq Node /\ {faults', restarts'} \subseteq Nat
        /\ EndIteration(n) /\ UNCHANGED <<chainVars, rows, batches, sends>>
    BY <1>3 DEF Restart, IInv, TypeOK
  <2>2. QED
    BY <2>1, EndingKeepsInv
<1>4. CASE UNCHANGED vars
  <2>1. TypeOK' /\ EventInv' /\ StepInv'
    BY <1>4 DEF vars, IInv, TypeOK, EventInv, StepInv, StepOf
  <2>2. CutInv'
    <3> SUFFICES ASSUME NEW n \in Node
                 PROVE  \E cut : IsCut(n, cut)' /\ IsSent(n, cut)'
      BY DEF CutInv
    <3>1. rows[n] \in Nat
      BY DEF IInv, TypeOK
    <3>2. QED
      BY <1>4, <3>1, CutIsKept DEF vars
  <2>3. QED
    BY <2>1, <2>2 DEF IInv
<1>5. QED
  BY <1>1, <1>2, <1>3, <1>4 DEF Next

LEMMA InvHolds == Spec => []IInv
BY InvInitially, InvInductive, PTL DEF Spec

-----------------------------------------------------------------------------
(* Every variable of the RSK -> Tap direction keeps to its type. *)
THEOREM TypeCorrect == Spec => []TypeOK
<1>1. IInv => TypeOK
  BY DEF IInv
<1>2. QED
  BY InvHolds, <1>1, PTL

(* Whatever fails and whoever restarts, a node's tapd has sent the first    *)
(* transfers of the contract, each once, in the order of their counters.    *)
THEOREM SendsInOrder == Spec => []SentInOrder
<1>1. ASSUME IInv
      PROVE  SentInOrder
  <2> SUFFICES ASSUME NEW n \in Node
               PROVE  IsPrefix(sends[n], events)
    BY DEF SentInOrder
  <2>1. PICK cut : IsCut(n, cut) /\ IsSent(n, cut)
    BY <1>1 DEF IInv, CutInv
  <2>2. /\ sends[n] \in Seq(Nat) /\ events \in Seq(Nat)
        /\ Len(sends[n]) \in Nat /\ Len(events) \in Nat /\ Len(sends[n]) <= Len(events)
        /\ \A k \in 1 .. Len(sends[n]) : sends[n][k] = events[k]
    <3>1. sends[n] \in Seq(Nat) /\ events \in Seq(Nat)
      BY <1>1, BatchesAreTyped DEF IInv
    <3>2. \A k \in 1 .. Len(sends[n]) : sends[n][k] = events[k]
      BY <2>1 DEF IsSent
    <3>3. /\ rows[n] \in Nat /\ Len(events) \in Nat /\ rows[n] <= Len(events)
          /\ cut[Len(batches[n])] \in Nat /\ cut[Len(batches[n])] <= rows[n]
          /\ Len(sends[n]) \in Nat /\ Len(sends[n]) <= cut[Len(batches[n])]
      BY <1>1, <2>1, CutBounds
    <3>4. QED
      BY <3>1, <3>2, <3>3
  <2>3. SubSeq(events, 1, Len(sends[n])) = sends[n]
    BY <2>2
  <2>4. QED
    BY <2>2, <2>3 DEF IsPrefix
<1>2. QED
  BY InvHolds, <1>1, PTL

(* A batch that is CREATED has sent nothing and one that is SENT_TO_TAP or  *)
(* FINALIZED has sent everything, also after any failures and restarts.     *)
THEOREM StatusesAreTrue == Spec => []StatusInvariant
<1>1. ASSUME IInv
      PROVE  StatusInvariant
  <2> SUFFICES ASSUME NEW n \in Node, NEW i \in DOMAIN batches[n]
               PROVE  /\ batches[n][i].status = "CREATED" =>
                            Range(batches[n][i].transfers) \cap Range(sends[n]) = {}
                      /\ batches[n][i].status \in {"SENT_TO_TAP", "FINALIZED"} =>
                            Range(batches[n][i].transfers) \subseteq Range(sends[n])
    BY <1>1 DEF StatusInvariant, StatusTellsSent, IInv
  <2>1. PICK cut : IsCut(n, cut) /\ IsSent(n, cut)
    BY <1>1 DEF IInv, CutInv
  <2> DEFINE num == Len(batches[n])
             t == batches[n][i].transfers
             done == Len(sends[n])
  <2>2. /\ num \in Nat /\ i \in 1 .. num /\ t \in Seq(Nat) /\ sends[n] \in Seq(Nat)
        /\ events \in Seq(Nat)
    BY <1>1, BatchesAreTyped DEF IInv
  <2>3. /\ cut[i - 1] \in Nat /\ cut[i] \in Nat /\ cut[i] <= cut[num]
        /\ cut[num] \in Nat /\ cut[num] <= Len(events) /\ Len(events) \in Nat
        /\ \A k \in 1 .. Len(t) : cut[i - 1] + k \in 1 .. cut[i] /\ t[k] = events[cut[i - 1] + k]
        /\ done \in Nat /\ done <= cut[num]
        /\ \A k \in 1 .. done : sends[n][k] = events[k]
    <3>1. /\ rows[n] \in Nat /\ Len(events) \in Nat /\ rows[n] <= Len(events)
          /\ cut[num] \in Nat /\ cut[num] <= rows[n]
          /\ cut[i - 1] \in Nat /\ cut[i] \in Nat /\ cut[i] <= cut[num]
          /\ \A k \in 1 .. Len(t) : cut[i - 1] + k \in 1 .. cut[i]
          /\ done \in Nat /\ done <= cut[num]
      BY <1>1, <2>1, <2>2, CutBounds
    <3>2. \A k \in 1 .. Len(t) : t[k] = events[cut[i - 1] + k]
      BY <2>1, <2>2 DEF IsCut
    <3>3. \A k \in 1 .. done : sends[n][k] = events[k]
      BY <2>1 DEF IsSent
    <3> HIDE DEF num, t, done
    <3>4. cut[num] <= Len(events)
      BY <3>1
    <3>5. QED
      BY <3>1, <3>2, <3>3, <3>4
  <2> DEFINE own == Range(t)
             sent == Range(sends[n])
  <2>r. /\ \A c : c \in own <=> \E k \in 1 .. Len(t) : c = t[k]
        /\ \A c : c \in sent <=> \E j \in 1 .. done : c = sends[n][j]
    <3> HIDE DEF t
    <3>1. DOMAIN t = 1 .. Len(t) /\ DOMAIN sends[n] = 1 .. done
      BY <2>2
    <3>2. QED
      BY <3>1 DEF Range
  <2> SUFFICES /\ batches[n][i].status = "CREATED" => own \cap sent = {}
               /\ batches[n][i].status \in {"SENT_TO_TAP", "FINALIZED"} => own \subseteq sent
    OBVIOUS
  <2> HIDE DEF own, sent
  <2>4. CASE batches[n][i].status = "CREATED"
    <3>1. i = num
      <4>1. i \notin 1 .. num - 1
        BY <2>1, <2>4 DEF IsSent
      <4>2. QED
        BY <2>2, <4>1
    <3>2. done = cut[i - 1]
      BY <2>1, <2>2, <2>4, <3>1 DEF IsSent, LastStatus
    <3>3. ASSUME NEW k \in 1 .. Len(t), NEW j \in 1 .. done
          PROVE  t[k] # sends[n][j]
      <4> DEFINE l == cut[i - 1] + k
      <4> HIDE DEF t, num, done
      <4>1. t[k] = events[l] /\ sends[n][j] = events[j]
        BY <2>3
      <4>2. j \in 1 .. Len(events) /\ l \in 1 .. Len(events) /\ j < l
        <5>1. l \in 1 .. cut[i]
          BY <2>3
        <5>2. j \in Nat /\ k \in Nat /\ 0 < j /\ 0 < k /\ j <= cut[i - 1] /\ cut[i - 1] \in Nat
          <6>1. Len(t) \in Nat
            BY <2>2
          <6>2. QED
            BY <2>3, <3>2, <6>1
        <5>3. j < l
          BY <5>2
        <5> HIDE DEF l
        <5>4. QED
          BY <2>3, <5>1, <5>2, <5>3
      <4> HIDE DEF l
      <4>3. events[j] < events[l]
        BY <1>1, <4>2, Zenon DEF IInv, EventInv
      <4>4. \A q \in 1 .. Len(events) : events[q] \in Nat
        BY <2>2
      <4>5. QED
        BY <4>1, <4>2, <4>3, <4>4
    <3>4. QED
      BY <2>r, <2>4, <3>3
  <2>5. CASE batches[n][i].status \in {"SENT_TO_TAP", "FINALIZED"}
    <3>1. cut[i] <= done
      <4>1. CASE i = num
        BY <2>1, <2>2, <2>3, <2>5, <4>1 DEF IsSent, LastStatus
      <4>2. CASE i # num
        <5>1. num > 0 /\ num - 1 \in 0 .. num /\ num \in 0 .. num /\ i \in 0 .. num /\ i <= num - 1
          BY <2>2, <4>2
        <5>2. cut[i] <= cut[num - 1] /\ cut[num - 1] \in Nat
          BY <2>1, <5>1 DEF IsCut
        <5>3. done = cut[num - 1] \/ done = cut[num]
          BY <2>1, <5>1 DEF IsSent
        <5>4. QED
          BY <2>3, <5>2, <5>3
      <4>3. QED
        BY <4>1, <4>2
    <3>2. ASSUME NEW k \in 1 .. Len(t)
          PROVE  \E j \in 1 .. done : t[k] = sends[n][j]
      <4>1. cut[i - 1] + k \in 1 .. done
        BY <2>3, <3>1
      <4>2. QED
        BY <2>3, <4>1
    <3>3. QED
      BY <2>r, <2>5, <3>2
  <2>6. QED
    BY <2>4, <2>5
<1>2. QED
  BY InvHolds, <1>1, PTL
=============================================================================

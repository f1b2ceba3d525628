------------------------- MODULE RuneTokenToBtcProofs -------------------------
(***************************************************************************)
(* RuneTokenToBtc implements FederatedPayout, for any federation, quorum,  *)
(* wallet, burns, restarts and failing calls: a leader pays for a burn     *)
(* once, and all leaders together no more often than the quorum allows.    *)
(* The wallet holds what backs the tokens, since no payment loses runes.   *)
(* CoinSelection is how one payment is funded: the outputs it spends cover *)
(* the runes, nothing they hold is lost, and the peers sign the result.    *)
(***************************************************************************)
EXTENDS RuneTokenToBtc, CoinSelection, FiniteSetTheorems, WellFoundedInduction, TLAPS

(* The transactions are typed up to the amounts of runes in the change      *)
(* outputs, which are sums over sets: C is whatever set holds them.         *)
PsbtOf(C) == [dep : Burn, inputs : SUBSET Output, change : C]
TransactionOf(C) ==
    [dep : Burn, inputs : SUBSET Output, change : C, by : Candidate, mined : BOOLEAN]

(* The steps at which the loop holds a transaction. *)
Holding == {"ask", "broadcast", "raised", "returned"}

Typed(C) ==
    /\ burned \in 0 .. NumBurns
    /\ status \in [Node -> [Burn -> Status]]
    /\ pc \in [Candidate -> Loop]
    /\ DOMAIN psbt = Candidate
    /\ \A n \in Candidate : pc[n] \in Holding => psbt[n] \in PsbtOf(C)
    /\ signers \in [Candidate -> SUBSET Node]
    /\ txs \in Seq(TransactionOf(C))
    /\ leads \subseteq Candidate

(* What the rows of a node say about its loop and its payments. *)
BurntInv ==
    \A n \in Node, d \in Burn : status[n][d] # "NONE" => d \in 1 .. burned
LeadInv == \A n \in Candidate : pc[n] # "idle" => n \in leads
SendingInv ==
    \A n \in Candidate :
        pc[n] \in Holding \ {"ask"} => status[n][psbt[n].dep] = "SENDING_TO_BTC"
PaidInv == \A i \in DOMAIN txs : status[txs[i].by][txs[i].dep] \notin {"NONE", "ACCEPTED"}
UnpaidInv ==
    \A n \in Candidate : pc[n] = "broadcast" =>
        \A i \in DOMAIN txs : ~(txs[i].by = n /\ txs[i].dep = psbt[n].dep)
ReturnedInv ==
    \A n \in Candidate : pc[n] = "returned" =>
        \E i \in DOMAIN txs : txs[i].by = n /\ txs[i].dep = psbt[n].dep

RowInv ==
    /\ BurntInv
    /\ LeadInv
    /\ SendingInv
    /\ PaidInv
    /\ UnpaidInv
    /\ ReturnedInv
    /\ PaidOnceByEachLeader
    /\ SentIsPaid

-----------------------------------------------------------------------------
(* Facts about sequences, numbers and finite sets *)

LEMMA AppendedElements ==
  ASSUME NEW S, NEW s \in Seq(S), NEW e \in S
  PROVE  /\ Append(s, e) \in Seq(S)
         /\ DOMAIN Append(s, e) = DOMAIN s \cup {Len(s) + 1}
         /\ Len(s) + 1 \notin DOMAIN s
         /\ Append(s, e)[Len(s) + 1] = e
         /\ \A i \in DOMAIN s : Append(s, e)[i] = s[i]
OBVIOUS

LEMMA SeqOfSuperset ==
  ASSUME NEW S, NEW T, S \subseteq T, NEW s \in Seq(S)
  PROVE  s \in Seq(T)
OBVIOUS

(* A nonempty set of bounded naturals has a greatest element. *)
LEMMA GreatestExists ==
  ASSUME NEW X, X # {}, NEW f, NEW top \in Nat,
         \A x \in X : f[x] \in Nat /\ f[x] < top
  PROVE  \E q \in X : \A p \in X : f[p] <= f[q]
<1> DEFINE T == {top - f[x] : x \in X}
           R == OpToRel(<, Nat)
<1>1. T \subseteq Nat /\ T # {}
  OBVIOUS
<1>2. PICK m \in T : \A y \in T : ~(<<y, m>> \in R)
  <2>1. IsWellFoundedOn(R, Nat)
    BY NatLessThanWellFounded
  <2> HIDE DEF R, T
  <2>2. QED
    BY <1>1, <2>1, WFMin
<1>3. \A y \in T : ~(y < m)
  BY <1>1, <1>2 DEF OpToRel
<1>4. PICK q \in X : m = top - f[q]
  OBVIOUS
<1>5. \A p \in X : f[p] <= f[q]
  <2> TAKE p \in X
  <2>1. ~(top - f[p] < top - f[q])
    BY <1>3, <1>4
  <2>2. QED
    BY <2>1
<1>6. QED
  BY <1>5

(* Disjoint sets of nodes have together no more members than nodes. *)
LEMMA DisjointNodes ==
  ASSUME NEW A \in SUBSET Node, NEW B \in SUBSET Node, A \cap B = {}
  PROVE  /\ Cardinality(A) \in Nat /\ Cardinality(B) \in Nat /\ Cardinality(Node) \in Nat
         /\ Cardinality(A) + Cardinality(B) <= Cardinality(Node)
<1>1. IsFiniteSet(Node)
  BY FederationAssumption
<1>2. IsFiniteSet(A) /\ IsFiniteSet(B)
  BY <1>1, FS_Subset
<1>3. Cardinality(A) \in Nat /\ Cardinality(B) \in Nat /\ Cardinality(Node) \in Nat
  BY <1>1, <1>2, FS_CardinalityType
<1>4. Cardinality(A \cup B) = Cardinality(A) + Cardinality(B) - Cardinality(A \cap B)
  BY <1>2, FS_Union
<1>5. Cardinality(A \cap B) = 0
  BY FS_EmptySet
<1>6. Cardinality(A \cup B) <= Cardinality(Node)
  BY <1>1, FS_Subset
<1>7. QED
  BY <1>3, <1>4, <1>5, <1>6

(* The larger of two sets of nodes has at least as many members. *)
LEMMA FewerNodes ==
  ASSUME NEW A \in SUBSET Node, NEW B \in SUBSET A
  PROVE  /\ Cardinality(A) \in Nat /\ Cardinality(B) \in Nat
         /\ Cardinality(B) <= Cardinality(A)
<1>1. IsFiniteSet(A)
  BY FederationAssumption, FS_Subset
<1>2. IsFiniteSet(B) /\ Cardinality(B) <= Cardinality(A)
  BY <1>1, FS_Subset
<1>3. QED
  BY <1>1, <1>2, FS_CardinalityType

LEMMA TransactionTyped ==
  ASSUME NEW C, Typed(C), NEW i \in DOMAIN txs
  PROVE  txs[i] \in TransactionOf(C) /\ txs[i].by \in Candidate /\ txs[i].dep \in Burn
<1>1. txs[i] \in TransactionOf(C)
  BY DEF Typed
<1>2. QED
  BY <1>1 DEF TransactionOf

-----------------------------------------------------------------------------
(* The rows: one lemma per group of actions *)

LEMMA RowsInitially ==
  Init => Typed({}) /\ RowInv
<1> SUFFICES ASSUME Init
             PROVE  Typed({}) /\ RowInv
  OBVIOUS
<1>1. DOMAIN txs = {} /\ txs \in Seq(TransactionOf({}))
  BY DEF Init
<1>2. Typed({})
  BY <1>1, FederationAssumption, WalletAssumption DEF Init, Typed, Status, Loop, Holding
<1>3. BurntInv /\ LeadInv /\ SendingInv /\ PaidInv /\ UnpaidInv /\ ReturnedInv
  BY <1>1 DEF Init, BurntInv, LeadInv, SendingInv, PaidInv, UnpaidInv, ReturnedInv, Holding
<1>4. PaidOnceByEachLeader /\ SentIsPaid
  BY <1>1, FederationAssumption DEF Init, PaidOnceByEachLeader, SentIsPaid
<1>5. QED
  BY <1>2, <1>3, <1>4 DEF RowInv

(* Scanning makes rows of burns and leaves all others alone. *)
LEMMA ScanRows ==
  ASSUME NEW C, Typed(C), RowInv, NEW n \in Node, scan_rune_token_deposits(n),
         UNCHANGED <<burned, psbt, signers, txs, leads>>,
         \/ UNCHANGED pc
         \/ n \in leads /\ pc[n] = "idle" /\ pc' = [pc EXCEPT ![n] = "handle"]
  PROVE  Typed(C)' /\ RowInv'
<1> USE DEF RowInv
<1>1. \A m \in Node, d \in Burn :
         \/ status'[m][d] = status[m][d]
         \/ status[m][d] = "NONE" /\ status'[m][d] = "ACCEPTED" /\ d <= burned
  BY DEF scan_rune_token_deposits, Scanned, Typed
<1>2. status' \in [Node -> [Burn -> Status]]
  BY DEF scan_rune_token_deposits, Scanned, Typed, Status
<1>3. \A m \in Candidate : \/ pc'[m] = pc[m]
                           \/ m \in leads /\ pc[m] = "idle" /\ pc'[m] = "handle"
  BY DEF Typed
<1>4. pc' \in [Candidate -> Loop]
  BY DEF Typed, Loop
<1>5. Typed(C)'
  BY <1>2, <1>3, <1>4 DEF Typed, Holding
<1>6. BurntInv'
  <2> SUFFICES ASSUME NEW m \in Node, NEW d \in Burn, status'[m][d] # "NONE"
               PROVE  d \in 1 .. burned
    BY DEF BurntInv
  <2>1. status[m][d] # "NONE" \/ d <= burned
    BY <1>1
  <2>2. burned \in Nat /\ d \in Nat /\ 1 <= d
    BY WalletAssumption DEF Typed, Burn
  <2>3. QED
    BY <2>1, <2>2 DEF BurntInv
<1>7. LeadInv'
  BY <1>3 DEF LeadInv
<1>8. SendingInv'
  <2> SUFFICES ASSUME NEW m \in Candidate, pc'[m] \in Holding \ {"ask"}
               PROVE  status'[m][psbt[m].dep] = "SENDING_TO_BTC"
    BY DEF SendingInv
  <2>1. pc[m] = pc'[m]
    BY <1>3 DEF Holding
  <2>2. psbt[m].dep \in Burn /\ m \in Node
    BY <2>1, FederationAssumption DEF Typed, PsbtOf
  <2>3. QED
    BY <1>1, <2>1, <2>2 DEF SendingInv
<1>9. PaidInv'
  <2> SUFFICES ASSUME NEW i \in DOMAIN txs
               PROVE  status'[txs[i].by][txs[i].dep] \notin {"NONE", "ACCEPTED"}
    BY DEF PaidInv
  <2>1. txs[i].by \in Node /\ txs[i].dep \in Burn
    BY TransactionTyped, FederationAssumption
  <2>2. QED
    BY <1>1, <2>1 DEF PaidInv
<1>10. UnpaidInv' /\ ReturnedInv' /\ PaidOnceByEachLeader'
  BY <1>3 DEF UnpaidInv, ReturnedInv, PaidOnceByEachLeader
<1>11. SentIsPaid'
  BY <1>1, FederationAssumption DEF SentIsPaid, Payments
<1>12. QED
  BY <1>5, <1>6, <1>7, <1>8, <1>9, <1>10, <1>11

(* The loop lets go of a transaction, or stops, without touching a row or   *)
(* the wallet.                                                              *)
LEMMA LoopRows ==
  ASSUME NEW C, Typed(C), RowInv, NEW n \in Candidate,
         NEW step \in {"idle", "handle"}, pc' = [pc EXCEPT ![n] = step],
         DOMAIN psbt' = Candidate, \A m \in Candidate \ {n} : psbt'[m] = psbt[m],
         signers' \in [Candidate -> SUBSET Node],
         leads' \subseteq Candidate, leads \ {n} \subseteq leads',
         step = "idle" \/ n \in leads',
         UNCHANGED <<burned, status, txs>>
  PROVE  Typed(C)' /\ RowInv'
<1> USE DEF RowInv
<1>1. pc'[n] = step /\ \A m \in Candidate \ {n} : pc'[m] = pc[m]
  BY DEF Typed
<1>2. pc' \in [Candidate -> Loop]
  BY DEF Typed, Loop
<1>3. Typed(C)'
  BY <1>1, <1>2 DEF Typed, Holding
<1>4. BurntInv' /\ LeadInv'
  BY <1>1 DEF BurntInv, LeadInv
<1>5. SendingInv' /\ PaidInv' /\ UnpaidInv' /\ ReturnedInv'
  BY <1>1 DEF SendingInv, PaidInv, UnpaidInv, ReturnedInv, Holding
<1>6. PaidOnceByEachLeader' /\ SentIsPaid'
  BY DEF PaidOnceByEachLeader, SentIsPaid, Payments
<1>7. QED
  BY <1>3, <1>4, <1>5, <1>6

LEMMA CreateRows ==
  ASSUME NEW C, Typed(C), RowInv, NEW n \in Candidate, NEW d \in Burn, create_rune_psbt(n, d)
  PROVE  (\E D : Typed(D)') /\ RowInv'
<1> USE DEF RowInv
<1>1. PICK S \in RuneSelections(Amount[d]) :
         psbt' = [psbt EXCEPT ![n] = [dep |-> d, inputs |-> S, change |-> Runes(S) - Amount[d]]]
  BY DEF create_rune_psbt
<1>2. PICK v : v = Runes(S) - Amount[d]
  OBVIOUS
<1> DEFINE D == C \cup {v}
<1>3. S \in SUBSET Output
  <2>1. S \subseteq Coin \cup DOMAIN txs
    BY DEF RuneSelections, ListedOutputs, Unspent
  <2>2. DOMAIN txs \subseteq Nat
    BY DEF Typed
  <2>3. QED
    BY <2>1, <2>2 DEF Output
<1>4. psbt'[n] \in PsbtOf(D)
  <2>1. psbt'[n] = [dep |-> d, inputs |-> S, change |-> v]
    BY <1>1, <1>2 DEF Typed
  <2> HIDE DEF D
  <2>2. v \in D
    BY DEF D
  <2>3. QED
    BY <1>3, <2>1, <2>2 DEF PsbtOf
<1>5. /\ pc[n] = "handle" /\ status[n][d] = "ACCEPTED"
      /\ pc' = [pc EXCEPT ![n] = "ask"] /\ signers' = [signers EXCEPT ![n] = {n}]
      /\ UNCHANGED <<burned, status, txs, leads>>
  BY DEF create_rune_psbt, evmVars, cfgVars
<1>6. pc'[n] = "ask" /\ \A m \in Candidate \ {n} : pc'[m] = pc[m] /\ psbt'[m] = psbt[m]
  BY <1>1, <1>5 DEF Typed
<1>7. C \subseteq D
  OBVIOUS
<1>8. Typed(D)'
  <2> HIDE DEF D
  <2>1. PsbtOf(C) \subseteq PsbtOf(D) /\ TransactionOf(C) \subseteq TransactionOf(D)
    BY <1>7 DEF PsbtOf, TransactionOf
  <2>2. txs' \in Seq(TransactionOf(D))
    BY <1>5, <2>1, SeqOfSuperset DEF Typed
  <2>3. pc' \in [Candidate -> Loop] /\ signers' \in [Candidate -> SUBSET Node]
    BY <1>5, FederationAssumption DEF Typed, Loop
  <2>4. DOMAIN psbt' = Candidate
    BY <1>1 DEF Typed
  <2>5. \A m \in Candidate : pc'[m] \in Holding => psbt'[m] \in PsbtOf(D)
    BY <1>4, <1>6, <2>1 DEF Typed
  <2>6. QED
    BY <1>5, <2>2, <2>3, <2>4, <2>5 DEF Typed
<1>9. BurntInv' /\ LeadInv'
  BY <1>5, <1>6 DEF BurntInv, LeadInv
<1>10. SendingInv' /\ PaidInv' /\ UnpaidInv' /\ ReturnedInv'
  BY <1>5, <1>6 DEF SendingInv, PaidInv, UnpaidInv, ReturnedInv, Holding
<1>11. PaidOnceByEachLeader' /\ SentIsPaid'
  BY <1>5 DEF PaidOnceByEachLeader, SentIsPaid, Payments
<1>12. QED
  BY <1>8, <1>9, <1>10, <1>11

(* Only signatures, todo lists and the like change. *)
LEMMA OtherRows ==
  ASSUME NEW C, Typed(C), RowInv, signers' \in [Candidate -> SUBSET Node],
         UNCHANGED <<burned, status, pc, psbt, txs, leads>>
  PROVE  Typed(C)' /\ RowInv'
<1>1. Typed(C)'
  BY DEF Typed
<1>2. RowInv'
  BY DEF RowInv, BurntInv, LeadInv, SendingInv, PaidInv, UnpaidInv, ReturnedInv,
     PaidOnceByEachLeader, SentIsPaid, Payments
<1>3. QED
  BY <1>1, <1>2

(* The row of the transaction in hand gets another status than NONE and     *)
(* ACCEPTED.                                                                *)
LEMMA CommitRows ==
  ASSUME NEW C, Typed(C), RowInv, NEW n \in Candidate, pc[n] \in Holding,
         NEW s \in {"SENDING_TO_BTC", "SENT_TO_BTC", "SENDING_TO_BTC_FAILED"},
         NEW step \in {"handle", "broadcast"},
         status' = [status EXCEPT ![n][psbt[n].dep] = s],
         pc' = [pc EXCEPT ![n] = step], DOMAIN psbt' = Candidate,
         \A m \in Candidate \ {n} : psbt'[m] = psbt[m],
         signers' \in [Candidate -> SUBSET Node],
         UNCHANGED <<burned, txs, leads>>,
         status[n][psbt[n].dep] # "NONE",
         s = "SENT_TO_BTC" => pc[n] = "returned",
         step = "broadcast" => /\ s = "SENDING_TO_BTC"
                               /\ psbt'[n] = psbt[n]
                               /\ status[n][psbt[n].dep] = "ACCEPTED"
  PROVE  Typed(C)' /\ RowInv'
<1> USE DEF RowInv
<1> DEFINE d == psbt[n].dep
<1>1. d \in Burn /\ n \in Node
  BY FederationAssumption DEF Typed, PsbtOf
<1>2. /\ status' \in [Node -> [Burn -> Status]]
      /\ status'[n][d] = s
      /\ \A m \in Node, e \in Burn : m # n \/ e # d => status'[m][e] = status[m][e]
  BY <1>1 DEF Typed, Status
<1> HIDE DEF d
<1>3. pc'[n] = step /\ \A m \in Candidate \ {n} : pc'[m] = pc[m]
  BY DEF Typed
<1>4. pc' \in [Candidate -> Loop]
  BY DEF Typed, Loop
<1>5. Typed(C)'
  BY <1>2, <1>3, <1>4 DEF Typed, Holding
<1>6. BurntInv'
  BY <1>1, <1>2 DEF BurntInv, d
<1>7. LeadInv'
  BY <1>3 DEF LeadInv, Holding
<1>8. SendingInv'
  <2> SUFFICES ASSUME NEW m \in Candidate, pc'[m] \in Holding \ {"ask"}
               PROVE  status'[m][psbt'[m].dep] = "SENDING_TO_BTC"
    BY DEF SendingInv
  <2>1. CASE m = n
    BY <1>2, <1>3, <2>1 DEF Holding, d
  <2>2. CASE m # n
    <3>1. pc[m] = pc'[m] /\ psbt'[m] = psbt[m]
      BY <1>3, <2>2
    <3>2. psbt[m].dep \in Burn /\ m \in Node
      BY <3>1, FederationAssumption DEF Typed, PsbtOf
    <3>3. QED
      BY <1>2, <2>2, <3>1, <3>2 DEF SendingInv
  <2>3. QED
    BY <2>1, <2>2
<1>9. PaidInv'
  <2> SUFFICES ASSUME NEW i \in DOMAIN txs
               PROVE  status'[txs[i].by][txs[i].dep] \notin {"NONE", "ACCEPTED"}
    BY DEF PaidInv
  <2>1. txs[i].by \in Node /\ txs[i].dep \in Burn
    BY TransactionTyped, FederationAssumption
  <2>2. QED
    BY <1>2, <2>1 DEF PaidInv
<1>10. UnpaidInv'
  <2>1. step = "broadcast" =>
           \A i \in DOMAIN txs : ~(txs[i].by = n /\ txs[i].dep = psbt'[n].dep)
    BY DEF PaidInv
  <2>2. QED
    BY <1>3, <2>1 DEF UnpaidInv
<1>11. ReturnedInv' /\ PaidOnceByEachLeader'
  BY <1>3 DEF ReturnedInv, PaidOnceByEachLeader
<1>12. SentIsPaid'
  <2> SUFFICES ASSUME NEW m \in Candidate, NEW e \in Burn, status'[m][e] = "SENT_TO_BTC"
               PROVE  \E i \in Payments(e) : txs[i].by = m
    BY DEF SentIsPaid, Payments
  <2>1. CASE m = n /\ e = d
    <3>1. pc[n] = "returned"
      BY <1>2, <2>1
    <3>2. QED
      BY <2>1, <3>1 DEF ReturnedInv, Payments, d
  <2>2. CASE ~(m = n /\ e = d)
    BY <1>2, <2>2, FederationAssumption DEF SentIsPaid
  <2>3. QED
    BY <2>1, <2>2
<1>13. QED
  BY <1>5, <1>6, <1>7, <1>8, <1>9, <1>10, <1>11, <1>12

(* bitcoind accepts the transaction in hand. *)
LEMMA AcceptedTransaction ==
  ASSUME NEW C, Typed(C), NEW n \in Candidate, pc[n] = "broadcast", txs' = Accepted(n)
  PROVE  /\ txs' \in Seq(TransactionOf(C))
         /\ DOMAIN txs' = DOMAIN txs \cup {Len(txs) + 1}
         /\ Len(txs) + 1 \notin DOMAIN txs
         /\ txs'[Len(txs) + 1].by = n
         /\ txs'[Len(txs) + 1].dep = psbt[n].dep
         /\ \A i \in DOMAIN txs : txs'[i] = txs[i]
<1> DEFINE t == [dep |-> psbt[n].dep, inputs |-> psbt[n].inputs,
                 change |-> psbt[n].change, by |-> n, mined |-> FALSE]
<1>1. psbt[n] \in PsbtOf(C)
  BY DEF Typed, Holding
<1>2. t \in TransactionOf(C) /\ t.by = n /\ t.dep = psbt[n].dep
  BY <1>1 DEF PsbtOf, TransactionOf
<1>3. txs' = Append(txs, t)
  BY DEF Accepted
<1> HIDE DEF t
<1>4. QED
  BY <1>2, <1>3, AppendedElements DEF Typed

LEMMA AcceptedRows ==
  ASSUME NEW C, Typed(C), RowInv, NEW n \in Candidate, pc[n] = "broadcast",
         NEW step \in {"raised", "returned"}, pc' = [pc EXCEPT ![n] = step],
         txs' = Accepted(n), UNCHANGED <<burned, status, psbt, signers, leads>>
  PROVE  Typed(C)' /\ RowInv'
<1> USE DEF RowInv
<1> DEFINE k == Len(txs) + 1
<1>1. /\ txs' \in Seq(TransactionOf(C))
      /\ DOMAIN txs' = DOMAIN txs \cup {k}
      /\ txs'[k].by = n /\ txs'[k].dep = psbt[n].dep
      /\ \A i \in DOMAIN txs : txs'[i] = txs[i]
  BY AcceptedTransaction
<1> HIDE DEF k
<1>2. pc'[n] = step /\ \A m \in Candidate \ {n} : pc'[m] = pc[m]
  BY DEF Typed
<1>3. pc' \in [Candidate -> Loop]
  BY DEF Typed, Loop
<1>4. Typed(C)'
  <2>1. \A m \in Candidate : pc'[m] \in Holding => psbt'[m] \in PsbtOf(C)
    BY <1>2 DEF Typed, Holding
  <2>2. QED
    BY <1>1, <1>3, <2>1 DEF Typed
<1>5. BurntInv' /\ LeadInv' /\ SendingInv'
  BY <1>2 DEF BurntInv, LeadInv, SendingInv, Holding
<1>6. status[n][psbt[n].dep] = "SENDING_TO_BTC"
  BY DEF SendingInv, Holding
<1>7. PaidInv'
  BY <1>1, <1>6 DEF PaidInv
<1>8. UnpaidInv' /\ ReturnedInv'
  BY <1>1, <1>2 DEF UnpaidInv, ReturnedInv
<1>9. PaidOnceByEachLeader'
  <2>1. \A i \in DOMAIN txs : ~(txs[i].by = n /\ txs[i].dep = psbt[n].dep)
    BY DEF UnpaidInv
  <2>2. QED
    BY <1>1, <2>1 DEF PaidOnceByEachLeader
<1>10. SentIsPaid'
  BY <1>1 DEF SentIsPaid, Payments
<1>11. QED
  BY <1>4, <1>5, <1>7, <1>8, <1>9, <1>10

(* bitcoind does not accept it. *)
LEMMA RejectedRows ==
  ASSUME NEW C, Typed(C), RowInv, NEW n \in Candidate, pc[n] = "broadcast",
         pc' = [pc EXCEPT ![n] = "raised"],
         UNCHANGED <<burned, status, psbt, signers, txs, leads>>
  PROVE  Typed(C)' /\ RowInv'
<1> USE DEF RowInv
<1>1. pc'[n] = "raised" /\ \A m \in Candidate \ {n} : pc'[m] = pc[m]
  BY DEF Typed
<1>2. pc' \in [Candidate -> Loop]
  BY DEF Typed, Loop
<1>3. Typed(C)'
  BY <1>1, <1>2 DEF Typed, Holding
<1>4. BurntInv' /\ LeadInv' /\ SendingInv' /\ PaidInv' /\ UnpaidInv' /\ ReturnedInv'
  BY <1>1 DEF BurntInv, LeadInv, SendingInv, PaidInv, UnpaidInv, ReturnedInv, Holding
<1>5. PaidOnceByEachLeader' /\ SentIsPaid'
  BY DEF PaidOnceByEachLeader, SentIsPaid, Payments
<1>6. QED
  BY <1>3, <1>4, <1>5

LEMMA TransferRows ==
  ASSUME NEW C, Typed(C), RowInv, transferToBtc
  PROVE  Typed(C)' /\ RowInv'
<1> USE DEF RowInv, loopVars, cfgVars
<1>1. burned' = burned + 1 /\ burned' \in 0 .. NumBurns /\ burned \in Nat
  BY WalletAssumption DEF transferToBtc, Typed
<1>2. Typed(C)'
  BY <1>1 DEF transferToBtc, Typed
<1>3. BurntInv'
  BY <1>1 DEF transferToBtc, BurntInv
<1>4. LeadInv' /\ SendingInv' /\ PaidInv' /\ UnpaidInv' /\ ReturnedInv'
  BY DEF transferToBtc, LeadInv, SendingInv, PaidInv, UnpaidInv, ReturnedInv
<1>5. PaidOnceByEachLeader' /\ SentIsPaid'
  BY DEF transferToBtc, PaidOnceByEachLeader, SentIsPaid, Payments
<1>6. QED
  BY <1>2, <1>3, <1>4, <1>5

(* Mining changes nothing of who has paid for what. *)
LEMMA MinedPayments ==
  ASSUME NEW C, Typed(C), NEW i \in DOMAIN txs, MineBtc(i)
  PROVE  /\ txs' \in Seq(TransactionOf(C))
         /\ DOMAIN txs' = DOMAIN txs
         /\ \A j \in DOMAIN txs : txs'[j].by = txs[j].by /\ txs'[j].dep = txs[j].dep
<1>1. txs' = [txs EXCEPT ![i].mined = TRUE]
  BY DEF MineBtc
<1>2. txs \in Seq(TransactionOf(C)) /\ txs[i] \in TransactionOf(C)
  BY DEF Typed
<1>3. [txs[i] EXCEPT !.mined = TRUE] \in TransactionOf(C)
  BY <1>2 DEF TransactionOf
<1>4. /\ [txs[i] EXCEPT !.mined = TRUE].by = txs[i].by
      /\ [txs[i] EXCEPT !.mined = TRUE].dep = txs[i].dep
  BY <1>2 DEF TransactionOf
<1>5. txs' \in Seq(TransactionOf(C))
  BY <1>1, <1>2, <1>3
<1>6. QED
  BY <1>1, <1>2, <1>4, <1>5

LEMMA MineRows ==
  ASSUME NEW C, Typed(C), RowInv, NEW i \in DOMAIN txs, MineBtc(i)
  PROVE  Typed(C)' /\ RowInv'
<1> USE DEF RowInv, evmVars, loopVars, cfgVars
<1>1. /\ txs' \in Seq(TransactionOf(C))
      /\ DOMAIN txs' = DOMAIN txs
      /\ \A j \in DOMAIN txs : txs'[j].by = txs[j].by /\ txs'[j].dep = txs[j].dep
  BY MinedPayments
<1>2. UNCHANGED <<burned, status, pc, psbt, signers, leads>>
  BY DEF MineBtc
<1>3. Typed(C)'
  BY <1>1, <1>2 DEF Typed
<1>4. BurntInv' /\ LeadInv' /\ SendingInv' /\ PaidInv' /\ UnpaidInv' /\ ReturnedInv'
  BY <1>1, <1>2 DEF BurntInv, LeadInv, SendingInv, PaidInv, UnpaidInv, ReturnedInv
<1>5. PaidOnceByEachLeader' /\ SentIsPaid'
  BY <1>1, <1>2 DEF PaidOnceByEachLeader, SentIsPaid, Payments
<1>6. QED
  BY <1>3, <1>4, <1>5

Rows == (\E C : Typed(C)) /\ RowInv

(* Every action of a leader is one of the cases above. *)
LEMMA LeadKeepsRows ==
  ASSUME Rows, NEW n \in Candidate, Lead(n)
  PROVE  Rows'
<1> USE DEF evmVars, loopVars, cfgVars
<1>1. PICK C : Typed(C)
  BY DEF Rows
<1>2. RowInv /\ n \in Node
  BY FederationAssumption DEF Rows
<1>3. signers \in [Candidate -> SUBSET Node] /\ DOMAIN psbt = Candidate /\ leads \subseteq Candidate
  BY <1>1 DEF Typed
<1>4. CASE RunIterationLeader(n) \/ RunIterationFrozen(n)
  BY <1>1, <1>2, <1>4, ScanRows DEF RunIterationLeader, RunIterationFrozen, Rows
<1>5. CASE EndIteration(n)
  <2>1. n \in leads
    BY <1>2, <1>5 DEF EndIteration, RowInv, LeadInv
  <2>2. Typed(C)' /\ RowInv'
    BY <1>1, <1>2, <1>3, <1>5, <2>1, LoopRows DEF EndIteration
  <2>3. QED
    BY <2>2 DEF Rows
<1>6. ASSUME NEW d \in Burn, create_rune_psbt(n, d)
      PROVE  Rows'
  BY <1>1, <1>2, <1>6, CreateRows DEF Rows
<1>7. ASSUME NEW d \in Burn, SkipDeposit(n, d)
      PROVE  Rows'
  BY <1>1, <1>2, <1>3, <1>7, OtherRows DEF SkipDeposit, Rows
<1>8. ASSUME NEW p \in Node, PeerSigns(n, p) \/ PeerDoesNotSign(n, p)
      PROVE  Rows'
  <2>1. signers' \in [Candidate -> SUBSET Node]
    BY <1>3, <1>8 DEF PeerSigns, PeerDoesNotSign
  <2>2. QED
    BY <1>1, <1>2, <1>8, <2>1, OtherRows DEF PeerSigns, PeerDoesNotSign, AskPeer, Rows
<1>9. NextDeposit(n) => /\ pc' = [pc EXCEPT ![n] = "handle"]
                        /\ DOMAIN psbt' = Candidate
                        /\ \A m \in Candidate \ {n} : psbt'[m] = psbt[m]
                        /\ signers' \in [Candidate -> SUBSET Node]
  BY <1>3 DEF NextDeposit
<1>10. CASE TooFewSignatures(n)
  <2>1. n \in leads
    BY <1>2, <1>10 DEF TooFewSignatures, RowInv, LeadInv
  <2>2. Typed(C)' /\ RowInv'
    BY <1>1, <1>2, <1>3, <1>9, <1>10, <2>1, LoopRows DEF TooFewSignatures
  <2>3. QED
    BY <2>2 DEF Rows
<1>11. CASE CommitSending(n)
  <2>1. Typed(C)' /\ RowInv'
    BY <1>1, <1>2, <1>3, <1>11, CommitRows DEF CommitSending, Holding
  <2>2. QED
    BY <2>1 DEF Rows
<1>12. CASE broadcast_psbt(n)
  BY <1>1, <1>2, <1>12, AcceptedRows DEF broadcast_psbt, Rows
<1>13. CASE BroadcastRaises(n)
  BY <1>1, <1>2, <1>13, AcceptedRows, RejectedRows DEF BroadcastRaises, Rows
<1>14. CASE CommitFailed(n) \/ CommitSent(n)
  <2>1. /\ pc[n] \in {"raised", "returned"}
        /\ UNCHANGED <<burned, txs, leads>>
        /\ NextDeposit(n)
    BY <1>14 DEF CommitFailed, CommitSent
  <2>2. status[n][psbt[n].dep] = "SENDING_TO_BTC"
    BY <1>2, <2>1 DEF RowInv, SendingInv, Holding
  <2>3. PICK s \in {"SENT_TO_BTC", "SENDING_TO_BTC_FAILED"} :
           /\ status' = [status EXCEPT ![n][psbt[n].dep] = s]
           /\ s = "SENT_TO_BTC" => pc[n] = "returned"
    BY <1>14 DEF CommitFailed, CommitSent
  <2>4. Typed(C)' /\ RowInv'
    BY <1>1, <1>2, <1>9, <2>1, <2>2, <2>3, CommitRows DEF Holding
  <2>5. QED
    BY <2>4 DEF Rows
<1>15. QED
  BY <1>4, <1>5, <1>6, <1>7, <1>8, <1>10, <1>11, <1>12, <1>13, <1>14 DEF Lead

LEMMA NextKeepsRows ==
  Rows /\ [Next]_vars => Rows'
<1> SUFFICES ASSUME Rows, [Next]_vars
             PROVE  Rows'
  OBVIOUS
<1> USE DEF evmVars, loopVars, cfgVars
<1>1. PICK C : Typed(C)
  BY DEF Rows
<1>2. RowInv
  BY DEF Rows
<1>3. signers \in [Candidate -> SUBSET Node] /\ DOMAIN psbt = Candidate /\ leads \subseteq Candidate
  BY <1>1 DEF Typed
<1>4. ASSUME NEW n \in Node, RunIterationFollower(n)
      PROVE  Rows'
  BY <1>1, <1>2, <1>4, ScanRows DEF RunIterationFollower, Rows
<1>5. CASE transferToBtc
  BY <1>1, <1>2, <1>5, TransferRows DEF Rows
<1>6. ASSUME NEW i \in DOMAIN txs, MineBtc(i)
      PROVE  Rows'
  BY <1>1, <1>2, <1>6, MineRows DEF Rows
<1>7. CASE pause \/ freeze \/ unpause \/ unfreeze
  BY <1>1, <1>2, <1>3, <1>7, OtherRows DEF pause, freeze, unpause, unfreeze, Governs, Rows
<1>8. ASSUME NEW n \in Candidate, NEW leader \in BOOLEAN, Restart(n, leader)
      PROVE  Rows'
  <2>1. /\ signers' \in [Candidate -> SUBSET Node]
        /\ DOMAIN psbt' = Candidate
        /\ \A m \in Candidate \ {n} : psbt'[m] = psbt[m]
        /\ leads' \subseteq Candidate
        /\ leads \ {n} \subseteq leads'
        /\ pc' = [pc EXCEPT ![n] = "idle"]
        /\ UNCHANGED <<burned, status, txs>>
    BY <1>3, <1>8 DEF Restart
  <2>2. Typed(C)' /\ RowInv'
    BY <1>1, <1>2, <2>1, LoopRows
  <2>3. QED
    BY <2>2 DEF Rows
<1>9. CASE UNCHANGED vars
  BY <1>1, <1>2, <1>3, <1>9, OtherRows DEF vars, Rows
<1>10. QED
  BY <1>4, <1>5, <1>6, <1>7, <1>8, <1>9, LeadKeepsRows DEF Next

LEMMA RowsInvariant ==
  Spec => []Rows
<1>1. Init => Rows
  BY RowsInitially DEF Rows
<1>2. QED
  BY <1>1, NextKeepsRows, PTL DEF Spec

(* A leader never broadcasts a second transaction for a burn: it commits    *)
(* SENDING_TO_BTC before the first one, and no row becomes ACCEPTED again,  *)
(* whatever stops or fails in between.                                      *)
THEOREM LeadersPayOnce ==
  Spec => []PaidOnceByEachLeader
<1>1. Rows => PaidOnceByEachLeader
  BY DEF Rows, RowInv
<1>2. QED
  BY <1>1, RowsInvariant, PTL

(* A row is SENT_TO_BTC only after bitcoind has accepted a transaction of   *)
(* this node for it.                                                        *)
THEOREM SentBurnsArePaid ==
  Spec => []SentIsPaid
<1>1. Rows => SentIsPaid
  BY DEF Rows, RowInv
<1>2. QED
  BY <1>1, RowsInvariant, PTL

(* A frozen contract stays paused. *)
FrozenInv == frozen => paused

LEMMA NextKeepsFrozen ==
  FrozenInv /\ [Next]_vars => FrozenInv' /\ (burned' # burned => ~frozen)
<1> SUFFICES ASSUME FrozenInv, [Next]_vars
             PROVE  FrozenInv' /\ (burned' # burned => ~frozen)
  OBVIOUS
<1> USE DEF FrozenInv
<1>1. CASE UNCHANGED evmVars
  BY <1>1 DEF evmVars
<1>2. CASE transferToBtc
  BY <1>2 DEF transferToBtc
<1>3. CASE pause \/ freeze \/ unpause \/ unfreeze
  <2>1. burned' = burned
    BY <1>3 DEF pause, freeze, unpause, unfreeze, Governs
  <2>2. paused' = TRUE \/ (~frozen /\ frozen' = frozen) \/ frozen' = FALSE
    BY <1>3, Zenon DEF pause, freeze, unpause, unfreeze, Governs
  <2>3. FrozenInv'
    BY <2>2, Zenon
  <2>4. QED
    BY <2>1, <2>3
<1>4. ASSUME NEW n \in Candidate, Lead(n)
      PROVE  UNCHANGED evmVars
  BY <1>4 DEF Lead, RunIterationLeader, RunIterationFrozen, EndIteration, create_rune_psbt,
     SkipDeposit, PeerSigns, PeerDoesNotSign, AskPeer, TooFewSignatures, CommitSending,
     broadcast_psbt, BroadcastRaises, CommitFailed, CommitSent
<1>5. QED
  BY <1>1, <1>2, <1>3, <1>4 DEF Next, RunIterationFollower, MineBtc, Restart, vars

(* As long as the bridge is frozen and its leader pays no one, no token is  *)
(* burnt: freezing pauses the contract, and a frozen one is not unpaused.   *)
THEOREM FrozenBurnsNothing ==
  Spec => NoTransferWhileFrozen
<1>1. Init => FrozenInv
  BY DEF Init, FrozenInv
<1>2. FrozenInv /\ [Next]_vars => [burned' # burned => ~frozen]_vars
  BY NextKeepsFrozen
<1>3. FrozenInv /\ [Next]_vars => FrozenInv'
  BY NextKeepsFrozen
<1>4. QED
  BY <1>1, <1>2, <1>3, PTL DEF Spec, NoTransferWhileFrozen

-----------------------------------------------------------------------------
(* How many leaders can pay for one burn *)

(* The leaders that have paid for d, and those whose loop holds a           *)
(* transaction for it that may still be broadcast.                          *)
Paid(d) == {txs[i].by : i \in Payments(d)}
Active(n, d) == pc[n] \in {"ask", "broadcast"} /\ psbt[n].dep = d
Started(d) == Paid(d) \cup {n \in Candidate : Active(n, d)}

(* The leaders that started their transaction for d before n did; ord[d]    *)
(* numbers the starts.                                                      *)
Before(ord, d, n) == {p \in Started(d) : ord[d][p] < ord[d][n]}

(* Nobody signs for a leader that started later: who has started leads or   *)
(* has left ACCEPTED.  So a leader that has paid found its quorum outside   *)
(* of those that started before it.                                         *)
OrderInv(ord, top) ==
    /\ ord \in [Burn -> [Node -> Nat]]
    /\ top \in Nat
    /\ \A d \in Burn, n \in Node : ord[d][n] < top
    /\ \A d \in Burn : \A p, q \in Started(d) : ord[d][p] = ord[d][q] => p = q
    /\ \A d \in Burn, n \in Candidate : Active(n, d) => signers[n] \cap Before(ord, d, n) = {}
    /\ \A n \in Candidate : pc[n] = "broadcast" => Cardinality(signers[n]) >= Quorum
    /\ \A d \in Burn : \A n \in Paid(d) :
          Cardinality(Before(ord, d, n)) + Quorum <= Cardinality(Node)

LEMMA StartedNodes ==
  ASSUME NEW C, Typed(C), NEW d \in Burn
  PROVE  Paid(d) \subseteq Started(d) /\ Started(d) \subseteq Candidate /\ Started(d) \subseteq Node
<1>1. Paid(d) \subseteq Candidate
  BY TransactionTyped DEF Paid, Payments
<1>2. QED
  BY <1>1, FederationAssumption DEF Started

(* Steps on which nobody starts, signs or pays. *)
LEMMA OrderKept ==
  ASSUME NEW C, Typed(C), NEW ord, NEW top, OrderInv(ord, top),
         \A d \in Burn : Paid(d)' = Paid(d),
         \A n \in Candidate, d \in Burn : Active(n, d)' => Active(n, d),
         \A n \in Candidate : pc'[n] \in {"ask", "broadcast"} => signers'[n] = signers[n],
         \A n \in Candidate : pc'[n] = "broadcast" => Cardinality(signers[n]) >= Quorum
  PROVE  OrderInv(ord, top)'
<1>1. \A d \in Burn : Started(d)' \subseteq Started(d)
  BY DEF Started
<1>2. \A d \in Burn, n \in Node : Before(ord, d, n)' \subseteq Before(ord, d, n)
  BY <1>1 DEF Before
<1>3. \A d \in Burn, n \in Candidate : Active(n, d)' => signers'[n] \cap Before(ord, d, n)' = {}
  <2> TAKE d \in Burn, n \in Candidate
  <2>1. n \in Node /\ (Active(n, d)' => signers'[n] = signers[n])
    BY FederationAssumption DEF Active
  <2>2. QED
    BY <1>2, <2>1 DEF OrderInv
<1>4. \A d \in Burn : \A n \in Paid(d)' :
         Cardinality(Before(ord, d, n)') + Quorum <= Cardinality(Node)
  <2> TAKE d \in Burn
  <2> TAKE n \in Paid(d)'
  <2>1. n \in Paid(d) /\ n \in Node
    BY StartedNodes
  <2>2. Before(ord, d, n) \in SUBSET Node /\ Before(ord, d, n)' \in SUBSET Before(ord, d, n)
    BY <1>2, <2>1, StartedNodes DEF Before
  <2>3. /\ Cardinality(Before(ord, d, n)) \in Nat /\ Cardinality(Before(ord, d, n)') \in Nat
        /\ Cardinality(Before(ord, d, n)') <= Cardinality(Before(ord, d, n))
    BY <2>2, FewerNodes
  <2>4. Cardinality(Before(ord, d, n)) + Quorum <= Cardinality(Node)
    BY <2>1 DEF OrderInv
  <2>5. Cardinality(Node) \in Nat /\ Quorum \in Nat
    BY FederationAssumption, FS_CardinalityType
  <2>6. QED
    BY <2>3, <2>4, <2>5
<1>5. \A n \in Candidate : pc'[n] = "broadcast" => Cardinality(signers'[n]) >= Quorum
  OBVIOUS
<1>6. QED
  BY <1>1, <1>3, <1>4, <1>5 DEF OrderInv

(* A leader that starts comes last in the order. *)
LEMMA OrderCreates ==
  ASSUME NEW C, Typed(C), RowInv, NEW ord, NEW top, OrderInv(ord, top),
         NEW n \in Candidate, NEW d \in Burn, create_rune_psbt(n, d)
  PROVE  OrderInv([ord EXCEPT ![d][n] = top], top + 1)'
<1> DEFINE new == [ord EXCEPT ![d][n] = top]
<1>1. /\ pc[n] = "handle" /\ status[n][d] = "ACCEPTED"
      /\ pc' = [pc EXCEPT ![n] = "ask"] /\ signers' = [signers EXCEPT ![n] = {n}]
      /\ txs' = txs
  BY DEF create_rune_psbt
<1>2. psbt'[n].dep = d /\ \A m \in Candidate \ {n} : psbt'[m] = psbt[m]
  BY DEF create_rune_psbt, Typed
<1>3. /\ pc'[n] = "ask" /\ signers'[n] = {n}
      /\ \A m \in Candidate \ {n} : pc'[m] = pc[m] /\ signers'[m] = signers[m]
  BY <1>1 DEF Typed
<1>4. \A e \in Burn : Paid(e)' = Paid(e)
  BY <1>1 DEF Paid, Payments
<1>5. /\ \A e \in Burn : ~Active(n, e) /\ (Active(n, e)' <=> e = d)
      /\ \A m \in Candidate \ {n}, e \in Burn : Active(m, e)' <=> Active(m, e)
  BY <1>1, <1>2, <1>3 DEF Active
<1>6. n \notin Started(d)
  BY <1>1, <1>5 DEF Started, Paid, Payments, RowInv, PaidInv
<1>7. /\ Started(d)' = Started(d) \cup {n}
      /\ \A e \in Burn \ {d} : Started(e)' = Started(e)
  BY <1>4, <1>5 DEF Started
<1>8. /\ new \in [Burn -> [Node -> Nat]]
      /\ new[d][n] = top
      /\ \A m \in Node \ {n} : new[d][m] = ord[d][m]
      /\ \A e \in Burn \ {d} : new[e] = ord[e]
      /\ n \in Node
  BY FederationAssumption DEF OrderInv
<1> HIDE DEF new
<1>9. top \in Nat /\ top + 1 \in Nat /\ \A e \in Burn, m \in Node : ord[e][m] \in Nat /\ ord[e][m] < top
  BY DEF OrderInv
<1>10. \A e \in Burn : Started(e) \subseteq Node
  BY StartedNodes
<1>11. \A e \in Burn : \A m \in Started(e) : Before(new, e, m)' = Before(ord, e, m)
  <2> TAKE e \in Burn
  <2> TAKE m \in Started(e)
  <2>1. CASE e = d
    <3>1. m # n /\ m \in Node /\ new[d][m] = ord[d][m]
      BY <1>6, <1>8, <1>10, <2>1
    <3>2. ~(new[d][n] < new[d][m])
      BY <1>8, <1>9, <3>1
    <3>3. \A p \in Started(d) : new[d][p] = ord[d][p]
      BY <1>6, <1>8, <1>10
    <3>4. QED
      BY <1>7, <2>1, <3>1, <3>2, <3>3 DEF Before
  <2>2. CASE e # d
    BY <1>7, <1>8, <2>2 DEF Before
  <2>3. QED
    BY <2>1, <2>2
<1>12. \A e \in Burn, m \in Node : new[e][m] < top + 1
  <2> TAKE e \in Burn, m \in Node
  <2>1. CASE e = d /\ m = n
    BY <1>8, <1>9, <2>1
  <2>2. CASE ~(e = d /\ m = n)
    <3>1. new[e][m] = ord[e][m]
      BY <1>8, <2>2
    <3>2. QED
      BY <1>9, <3>1
  <2>3. QED
    BY <2>1, <2>2
<1>13. \A e \in Burn : \A p, q \in Started(e)' : new[e][p] = new[e][q] => p = q
  <2> TAKE e \in Burn
  <2>1. \A p, q \in Started(e) : ord[e][p] = ord[e][q] => p = q
    BY DEF OrderInv
  <2>2. CASE e = d
    <3>1. \A p \in Started(d) : new[d][p] = ord[d][p] /\ new[d][p] # new[d][n]
      BY <1>6, <1>8, <1>9, <1>10
    <3>2. QED
      BY <1>7, <2>1, <2>2, <3>1
  <2>3. CASE e # d
    BY <1>7, <1>8, <2>1, <2>3
  <2>4. QED
    BY <2>2, <2>3
<1>14. \A e \in Burn, m \in Candidate : Active(m, e)' => signers'[m] \cap Before(new, e, m)' = {}
  <2> TAKE e \in Burn, m \in Candidate
  <2> SUFFICES ASSUME Active(m, e)'
               PROVE  signers'[m] \cap Before(new, e, m)' = {}
    OBVIOUS
  <2>1. CASE m = n
    <3>1. ~(new[e][n] < new[e][n])
      BY <1>8
    <3>2. QED
      BY <1>3, <2>1, <3>1 DEF Before
  <2>2. CASE m # n
    <3>1. Active(m, e) /\ m \in Started(e) /\ signers'[m] = signers[m]
      BY <1>3, <1>5, <2>2 DEF Started
    <3>2. QED
      BY <1>11, <3>1 DEF OrderInv
  <2>3. QED
    BY <2>1, <2>2
<1>15. \A m \in Candidate : pc'[m] = "broadcast" => Cardinality(signers'[m]) >= Quorum
  BY <1>3 DEF OrderInv
<1>16. \A e \in Burn : \A m \in Paid(e)' :
          Cardinality(Before(new, e, m)') + Quorum <= Cardinality(Node)
  BY <1>4, <1>11, StartedNodes DEF OrderInv
<1>17. QED
  BY <1>8, <1>9, <1>12, <1>13, <1>14, <1>15, <1>16 DEF OrderInv, new

(* A peer that signs has not started. *)
LEMMA OrderSigns ==
  ASSUME NEW C, Typed(C), RowInv, NEW ord, NEW top, OrderInv(ord, top),
         NEW n \in Candidate, NEW p \in Node, PeerSigns(n, p)
  PROVE  OrderInv(ord, top)'
<1>1. /\ pc[n] = "ask" /\ pc' = pc /\ psbt' = psbt /\ txs' = txs
      /\ WillSign(p, psbt[n].dep)
      /\ signers' = [signers EXCEPT ![n] = @ \cup {p}]
  BY DEF PeerSigns, AskPeer
<1>2. /\ signers'[n] = signers[n] \cup {p}
      /\ \A m \in Candidate \ {n} : signers'[m] = signers[m]
  BY <1>1 DEF Typed
<1>3. p \notin Started(psbt[n].dep)
  <2>1. p \notin Paid(psbt[n].dep)
    BY <1>1 DEF WillSign, Paid, Payments, RowInv, PaidInv
  <2>2. p \in Candidate => pc[p] = "idle"
    BY <1>1 DEF WillSign, RowInv, LeadInv
  <2>3. QED
    BY <2>1, <2>2 DEF Started, Active
<1>4. \A d \in Burn : Paid(d)' = Paid(d) /\ Started(d)' = Started(d)
  BY <1>1 DEF Paid, Payments, Started, Active
<1>5. \A d \in Burn, m \in Node : Before(ord, d, m)' = Before(ord, d, m)
  BY <1>4 DEF Before
<1>6. \A d \in Burn, m \in Candidate : Active(m, d)' => signers'[m] \cap Before(ord, d, m)' = {}
  <2> SUFFICES ASSUME NEW d \in Burn, NEW m \in Candidate, Active(m, d)'
               PROVE  signers'[m] \cap Before(ord, d, m)' = {}
    OBVIOUS
  <2>1. Active(m, d) /\ m \in Node
    BY <1>1, FederationAssumption DEF Active
  <2>2. signers[m] \cap Before(ord, d, m) = {}
    BY <2>1 DEF OrderInv
  <2>3. m = n => p \notin Before(ord, d, m)
    BY <1>3, <2>1 DEF Before, Active
  <2>4. QED
    BY <1>2, <1>5, <2>1, <2>2, <2>3
<1>7. \A m \in Candidate : pc'[m] = "broadcast" => Cardinality(signers'[m]) >= Quorum
  BY <1>1, <1>2 DEF OrderInv
<1>8. \A d \in Burn : \A m \in Paid(d)' :
         Cardinality(Before(ord, d, m)') + Quorum <= Cardinality(Node)
  BY <1>4, <1>5, StartedNodes DEF OrderInv
<1>9. QED
  BY <1>4, <1>6, <1>7, <1>8 DEF OrderInv

(* The quorum of a leader that is about to pay lies outside of those that   *)
(* started before it.                                                       *)
LEMMA QuorumAmongOthers ==
  ASSUME NEW C, Typed(C), NEW ord, NEW top, OrderInv(ord, top),
         NEW n \in Candidate, pc[n] = "broadcast"
  PROVE  Cardinality(Before(ord, psbt[n].dep, n)) + Quorum <= Cardinality(Node)
<1> DEFINE d == psbt[n].dep
<1>1. d \in Burn /\ Active(n, d)
  BY DEF Typed, Holding, PsbtOf, Active
<1> HIDE DEF d
<1>2. signers[n] \in SUBSET Node /\ Before(ord, d, n) \in SUBSET Node
  BY <1>1, StartedNodes DEF Typed, Before
<1>3. signers[n] \cap Before(ord, d, n) = {} /\ Cardinality(signers[n]) >= Quorum
  BY <1>1 DEF OrderInv
<1>4. /\ Cardinality(signers[n]) \in Nat /\ Cardinality(Before(ord, d, n)) \in Nat
      /\ Cardinality(Node) \in Nat
      /\ Cardinality(signers[n]) + Cardinality(Before(ord, d, n)) <= Cardinality(Node)
  BY <1>2, <1>3, DisjointNodes
<1>5. Quorum \in Nat
  BY <1>4, FederationAssumption
<1>6. QED
  BY <1>3, <1>4, <1>5 DEF d

(* Paying does not change who has started. *)
LEMMA OrderPays ==
  ASSUME NEW C, Typed(C), NEW ord, NEW top, OrderInv(ord, top),
         NEW n \in Candidate, pc[n] = "broadcast", txs' = Accepted(n),
         NEW step \in {"raised", "returned"}, pc' = [pc EXCEPT ![n] = step],
         UNCHANGED <<psbt, signers>>
  PROVE  OrderInv(ord, top)'
<1>1. PICK d \in Burn : d = psbt[n].dep
  BY DEF Typed, Holding, PsbtOf
<1>2. pc'[n] = step /\ \A m \in Candidate \ {n} : pc'[m] = pc[m]
  BY DEF Typed
<1>3. Paid(d)' = Paid(d) \cup {n} /\ \A e \in Burn \ {d} : Paid(e)' = Paid(e)
  BY <1>1, AcceptedTransaction DEF Paid, Payments
<1>4. Active(n, d) /\ \A e \in Burn \ {d} : ~Active(n, e)
  BY <1>1 DEF Active
<1>5. \A e \in Burn : /\ ~Active(n, e)'
                      /\ \A m \in Candidate \ {n} : Active(m, e)' <=> Active(m, e)
  BY <1>2 DEF Active
<1>6. \A e \in Burn : Started(e)' = Started(e)
  <2> TAKE e \in Burn
  <2>1. {m \in Candidate : Active(m, e)'} = {m \in Candidate : Active(m, e)} \ {n}
    BY <1>5
  <2>2. n \in {m \in Candidate : Active(m, e)} <=> e = d
    BY <1>4
  <2>3. Started(e)' = Paid(e)' \cup {m \in Candidate : Active(m, e)'}
    BY DEF Started
  <2>4. QED
    BY <1>3, <2>1, <2>2, <2>3 DEF Started
<1>7. \A e \in Burn, m \in Node : Before(ord, e, m)' = Before(ord, e, m)
  BY <1>6 DEF Before
<1>8. \A e \in Burn, m \in Candidate : Active(m, e)' => signers'[m] \cap Before(ord, e, m)' = {}
  BY <1>5, <1>7, FederationAssumption DEF OrderInv
<1>9. \A m \in Candidate : pc'[m] = "broadcast" => Cardinality(signers'[m]) >= Quorum
  BY <1>2 DEF OrderInv
<1>10. \A e \in Burn : \A m \in Paid(e)' :
          Cardinality(Before(ord, e, m)') + Quorum <= Cardinality(Node)
  <2> TAKE e \in Burn
  <2> TAKE m \in Paid(e)'
  <2>1. CASE m \in Paid(e)
    BY <1>7, <2>1, StartedNodes DEF OrderInv
  <2>2. CASE e = d /\ m = n
    <3>1. Cardinality(Before(ord, d, n)) + Quorum <= Cardinality(Node)
      BY <1>1, QuorumAmongOthers
    <3>2. Before(ord, d, n)' = Before(ord, d, n)
      BY <1>7, FederationAssumption
    <3>3. Before(ord, e, m)' = Before(ord, d, n)'
      BY <2>2
    <3>4. QED
      BY <3>1, <3>2, <3>3
  <2>3. QED
    BY <1>3, <2>1, <2>2
<1>11. QED
  BY <1>6, <1>8, <1>9, <1>10 DEF OrderInv

(* The pay step of the abstract specification is enabled. *)
LEMMA PaymentAllowed ==
  ASSUME NEW C, Typed(C), RowInv, NEW ord, NEW top, OrderInv(ord, top),
         NEW n \in Candidate, pc[n] = "broadcast"
  PROVE  /\ n \notin Paid(psbt[n].dep)
         /\ Cardinality(Paid(psbt[n].dep)) + Quorum <= Cardinality(Node)
<1> DEFINE d == psbt[n].dep
           X == Paid(d) \cup {n}
<1>1. d \in Burn /\ Active(n, d)
  BY DEF Typed, Holding, PsbtOf, Active
<1>2. n \notin Paid(d)
  BY DEF RowInv, UnpaidInv, Paid, Payments
<1>3. Cardinality(Before(ord, d, n)) + Quorum <= Cardinality(Node)
  BY QuorumAmongOthers
<1> HIDE DEF d
<1>4. X \subseteq Started(d) /\ X \subseteq Node
  BY <1>1, StartedNodes, FederationAssumption DEF Started
<1>5. PICK q \in X : \A p \in X : ord[d][p] <= ord[d][q]
  <2>1. X # {} /\ top \in Nat
    BY DEF OrderInv
  <2>2. \A x \in X : ord[d][x] \in Nat /\ ord[d][x] < top
    BY <1>1, <1>4 DEF OrderInv
  <2> HIDE DEF X
  <2>3. QED
    BY <2>1, <2>2, GreatestExists
<1>6. X \ {q} \subseteq Before(ord, d, q)
  <2> SUFFICES ASSUME NEW p \in X \ {q}
               PROVE  p \in Before(ord, d, q)
    OBVIOUS
  <2>1. ord[d][p] # ord[d][q] /\ ord[d][p] <= ord[d][q]
    BY <1>1, <1>4, <1>5 DEF OrderInv
  <2>2. ord[d][p] \in Nat /\ ord[d][q] \in Nat
    BY <1>1, <1>4 DEF OrderInv
  <2>3. QED
    BY <1>4, <2>1, <2>2 DEF Before
<1>7. Cardinality(Before(ord, d, q)) + Quorum <= Cardinality(Node)
  BY <1>1, <1>3, <1>5 DEF OrderInv
<1>8. Cardinality(X \ {q}) = Cardinality(Paid(d))
  <2>1. IsFiniteSet(Node)
    BY FederationAssumption
  <2>2. IsFiniteSet(Paid(d)) /\ IsFiniteSet(X)
    BY <1>4, <2>1, FS_Subset
  <2>3. Cardinality(X) = Cardinality(Paid(d)) + 1
    BY <1>2, <2>2, FS_AddElement
  <2>4. Cardinality(X \ {q}) = Cardinality(X) - 1
    BY <2>2, FS_RemoveElement
  <2>5. Cardinality(Paid(d)) \in Nat
    BY <2>2, FS_CardinalityType
  <2>6. QED
    BY <2>3, <2>4, <2>5
<1>9. /\ Cardinality(Before(ord, d, q)) \in Nat /\ Cardinality(X \ {q}) \in Nat
      /\ Cardinality(X \ {q}) <= Cardinality(Before(ord, d, q))
  <2>1. Before(ord, d, q) \in SUBSET Node
    BY <1>1, StartedNodes DEF Before
  <2>2. X \ {q} \in SUBSET Before(ord, d, q)
    BY <1>6
  <2>3. QED
    BY <2>1, <2>2, FewerNodes
<1>10. Quorum \in Nat /\ Cardinality(Node) \in Nat
  BY FederationAssumption, FS_CardinalityType
<1>11. Cardinality(Paid(d)) + Quorum <= Cardinality(Node)
  BY <1>7, <1>8, <1>9, <1>10
<1>12. QED
  BY <1>2, <1>11 DEF d

(* The loop of n lets go of its transaction. *)
LEMMA OrderDrops ==
  ASSUME NEW C, Typed(C), NEW ord, NEW top, OrderInv(ord, top), NEW n \in Candidate,
         pc'[n] \notin {"ask", "broadcast"}, txs' = txs,
         \A m \in Candidate \ {n} :
            pc'[m] = pc[m] /\ psbt'[m] = psbt[m] /\ signers'[m] = signers[m]
  PROVE  OrderInv(ord, top)'
<1>1. \A d \in Burn : Paid(d)' = Paid(d)
  BY DEF Paid, Payments
<1>2. \A m \in Candidate, d \in Burn : Active(m, d)' => Active(m, d)
  BY DEF Active
<1>3. \A m \in Candidate : pc'[m] = "broadcast" => Cardinality(signers[m]) >= Quorum
  BY DEF OrderInv
<1>4. \A m \in Candidate : pc'[m] \in {"ask", "broadcast"} => signers'[m] = signers[m]
  OBVIOUS
<1>5. QED
  BY <1>1, <1>2, <1>3, <1>4, OrderKept

(* No loop changes its transaction, and no payment is added. *)
LEMMA OrderOther ==
  ASSUME NEW C, Typed(C), NEW ord, NEW top, OrderInv(ord, top),
         \A d \in Burn : Paid(d)' = Paid(d), UNCHANGED <<pc, psbt, signers>>
  PROVE  OrderInv(ord, top)'
<1>1. \A m \in Candidate, d \in Burn : Active(m, d)' => Active(m, d)
  BY DEF Active
<1>2. \A m \in Candidate : pc'[m] = "broadcast" => Cardinality(signers[m]) >= Quorum
  BY DEF OrderInv
<1>3. \A m \in Candidate : pc'[m] \in {"ask", "broadcast"} => signers'[m] = signers[m]
  OBVIOUS
<1>4. QED
  BY <1>1, <1>2, <1>3, OrderKept

LEMMA OrderCommits ==
  ASSUME NEW C, Typed(C), NEW ord, NEW top, OrderInv(ord, top),
         NEW n \in Candidate, CommitSending(n)
  PROVE  OrderInv(ord, top)'
<1>1. /\ pc[n] = "ask" /\ pc'[n] = "broadcast" /\ Cardinality(signers[n]) >= Quorum
      /\ \A m \in Candidate \ {n} : pc'[m] = pc[m]
      /\ UNCHANGED <<txs, psbt, signers>>
  BY DEF CommitSending, Finalizable, Typed
<1>2. \A d \in Burn : Paid(d)' = Paid(d)
  BY <1>1 DEF Paid, Payments
<1>3. \A m \in Candidate, d \in Burn : Active(m, d)' => Active(m, d)
  BY <1>1 DEF Active
<1>4. \A m \in Candidate : pc'[m] = "broadcast" => Cardinality(signers[m]) >= Quorum
  BY <1>1 DEF OrderInv
<1>5. \A m \in Candidate : pc'[m] \in {"ask", "broadcast"} => signers'[m] = signers[m]
  BY <1>1
<1>6. QED
  BY <1>2, <1>3, <1>4, <1>5, OrderKept

Ordered == \E ord, top : OrderInv(ord, top)

LEMMA LeadKeepsOrder ==
  ASSUME Rows, Ordered, NEW n \in Candidate, Lead(n)
  PROVE  Ordered'
<1> USE DEF evmVars, loopVars, cfgVars
<1>1. PICK C : Typed(C)
  BY DEF Rows
<1>2. PICK ord, top : OrderInv(ord, top)
  BY DEF Ordered
<1>3. RowInv
  BY DEF Rows
<1>4. txs' = txs => \A d \in Burn : Paid(d)' = Paid(d)
  BY DEF Paid, Payments
<1>5. DOMAIN pc = Candidate /\ DOMAIN psbt = Candidate /\ DOMAIN signers = Candidate
  BY <1>1 DEF Typed
<1>6. CASE RunIterationLeader(n) \/ EndIteration(n) \/ TooFewSignatures(n)
           \/ CommitFailed(n) \/ CommitSent(n)
  <2>1. /\ pc'[n] \notin {"ask", "broadcast"} /\ txs' = txs
        /\ \A m \in Candidate \ {n} :
              pc'[m] = pc[m] /\ psbt'[m] = psbt[m] /\ signers'[m] = signers[m]
    BY <1>5, <1>6 DEF RunIterationLeader, EndIteration, TooFewSignatures, CommitFailed,
       CommitSent, NextDeposit
  <2>2. OrderInv(ord, top)'
    BY <1>1, <1>2, <2>1, OrderDrops
  <2>3. QED
    BY <2>2 DEF Ordered
<1>7. CASE RunIterationFrozen(n)
  <2>1. OrderInv(ord, top)'
    BY <1>1, <1>2, <1>4, <1>7, OrderOther DEF RunIterationFrozen
  <2>2. QED
    BY <2>1 DEF Ordered
<1>8. ASSUME NEW d \in Burn, SkipDeposit(n, d)
      PROVE  Ordered'
  <2>1. OrderInv(ord, top)'
    BY <1>1, <1>2, <1>4, <1>8, OrderOther DEF SkipDeposit
  <2>2. QED
    BY <2>1 DEF Ordered
<1>9. ASSUME NEW d \in Burn, create_rune_psbt(n, d)
      PROVE  Ordered'
  <2>1. OrderInv([ord EXCEPT ![d][n] = top], top + 1)'
    BY <1>1, <1>2, <1>3, <1>9, OrderCreates
  <2>2. QED
    BY <2>1 DEF Ordered
<1>10. ASSUME NEW p \in Node, PeerSigns(n, p)
       PROVE  Ordered'
  <2>1. OrderInv(ord, top)'
    BY <1>1, <1>2, <1>3, <1>10, OrderSigns
  <2>2. QED
    BY <2>1 DEF Ordered
<1>11. ASSUME NEW p \in Node, PeerDoesNotSign(n, p)
       PROVE  Ordered'
  <2>1. OrderInv(ord, top)'
    BY <1>1, <1>2, <1>4, <1>11, OrderOther DEF PeerDoesNotSign, AskPeer
  <2>2. QED
    BY <2>1 DEF Ordered
<1>12. CASE CommitSending(n)
  <2>1. OrderInv(ord, top)'
    BY <1>1, <1>2, <1>12, OrderCommits
  <2>2. QED
    BY <2>1 DEF Ordered
<1>13. CASE broadcast_psbt(n)
  <2>1. OrderInv(ord, top)'
    BY <1>1, <1>2, <1>13, OrderPays DEF broadcast_psbt
  <2>2. QED
    BY <2>1 DEF Ordered
<1>14. CASE BroadcastRaises(n)
  <2>1. /\ pc[n] = "broadcast" /\ pc' = [pc EXCEPT ![n] = "raised"]
        /\ UNCHANGED <<psbt, signers>>
        /\ txs' = txs \/ txs' = Accepted(n)
    BY <1>14 DEF BroadcastRaises
  <2>2. CASE txs' = txs
    <3>1. OrderInv(ord, top)'
      BY <1>1, <1>2, <1>5, <2>1, <2>2, OrderDrops
    <3>2. QED
      BY <3>1 DEF Ordered
  <2>3. CASE txs' = Accepted(n)
    <3>1. OrderInv(ord, top)'
      BY <1>1, <1>2, <2>1, <2>3, OrderPays
    <3>2. QED
      BY <3>1 DEF Ordered
  <2>4. QED
    BY <2>1, <2>2, <2>3
<1>15. QED
  BY <1>6, <1>7, <1>8, <1>9, <1>10, <1>11, <1>12, <1>13, <1>14 DEF Lead

LEMMA NextKeepsOrder ==
  Rows /\ Ordered /\ [Next]_vars => Ordered'
<1> SUFFICES ASSUME Rows, Ordered, [Next]_vars
             PROVE  Ordered'
  OBVIOUS
<1> USE DEF evmVars, loopVars, cfgVars
<1>1. PICK C : Typed(C)
  BY DEF Rows
<1>2. PICK ord, top : OrderInv(ord, top)
  BY DEF Ordered
<1>3. txs' = txs => \A d \in Burn : Paid(d)' = Paid(d)
  BY DEF Paid, Payments
<1>4. CASE \/ \E n \in Node : RunIterationFollower(n)
           \/ transferToBtc \/ pause \/ freeze \/ unpause \/ unfreeze \/ UNCHANGED vars
  <2>1. UNCHANGED <<pc, psbt, signers, txs>>
    BY <1>4 DEF RunIterationFollower, transferToBtc, pause, freeze, unpause, unfreeze,
       Governs, vars
  <2>2. OrderInv(ord, top)'
    BY <1>1, <1>2, <1>3, <2>1, OrderOther
  <2>3. QED
    BY <2>2 DEF Ordered
<1>5. ASSUME NEW i \in DOMAIN txs, MineBtc(i)
      PROVE  Ordered'
  <2>1. \A d \in Burn : Paid(d)' = Paid(d)
    BY <1>1, <1>5, MinedPayments DEF Paid, Payments
  <2>2. OrderInv(ord, top)'
    BY <1>1, <1>2, <1>5, <2>1, OrderOther DEF MineBtc
  <2>3. QED
    BY <2>2 DEF Ordered
<1>6. ASSUME NEW n \in Candidate, NEW leader \in BOOLEAN, Restart(n, leader)
      PROVE  Ordered'
  <2>1. /\ pc'[n] \notin {"ask", "broadcast"} /\ txs' = txs
        /\ \A m \in Candidate \ {n} :
              pc'[m] = pc[m] /\ psbt'[m] = psbt[m] /\ signers'[m] = signers[m]
    BY <1>1, <1>6 DEF Restart, Typed
  <2>2. OrderInv(ord, top)'
    BY <1>1, <1>2, <2>1, OrderDrops
  <2>3. QED
    BY <2>2 DEF Ordered
<1>7. QED
  BY <1>4, <1>5, <1>6, LeadKeepsOrder DEF Next

LEMMA OrderedInitially ==
  Init => Ordered
<1> SUFFICES ASSUME Init
             PROVE  Ordered
  OBVIOUS
<1> DEFINE zero == [d \in Burn |-> [n \in Node |-> 0]]
<1>1. DOMAIN txs = {}
  BY DEF Init
<1>2. \A d \in Burn : Started(d) = {} /\ Paid(d) = {}
  BY <1>1 DEF Init, Started, Paid, Payments, Active
<1>3. zero \in [Burn -> [Node -> Nat]] /\ \A d \in Burn, n \in Node : zero[d][n] < 1
  OBVIOUS
<1> HIDE DEF zero
<1>4. OrderInv(zero, 1)
  BY <1>2, <1>3 DEF OrderInv, Init, Active
<1>5. QED
  BY <1>4 DEF Ordered

-----------------------------------------------------------------------------
(* The refinement *)

LEMMA PayMapsToPay ==
  ASSUME Rows, Ordered, NEW n \in Candidate, pc[n] = "broadcast",
         txs' = Accepted(n), burned' = burned
  PROVE  Payout!Next
<1>1. PICK C : Typed(C)
  BY DEF Rows
<1>2. PICK ord, top : OrderInv(ord, top)
  BY DEF Ordered
<1>3. RowInv /\ n \in Node
  BY FederationAssumption DEF Rows
<1>4. PICK d \in Burn : d = psbt[n].dep
  BY <1>1 DEF Typed, Holding, PsbtOf
<1> DEFINE k == Len(txs) + 1
           Pays(i) == [id |-> i, burn |-> txs[i].dep, by |-> txs[i].by]
           old == {Pays(i) : i \in DOMAIN txs}
           p == [id |-> k, burn |-> d, by |-> n]
<1>5. /\ DOMAIN txs' = DOMAIN txs \cup {k}
      /\ k \notin DOMAIN txs
      /\ txs'[k].by = n /\ txs'[k].dep = d
      /\ \A i \in DOMAIN txs : txs'[i] = txs[i]
  BY <1>1, <1>4, AcceptedTransaction
<1>6. d \in 1 .. burned
  <2>1. status[n][d] = "SENDING_TO_BTC"
    BY <1>3, <1>4 DEF RowInv, SendingInv, Holding
  <2>2. QED
    BY <1>3, <2>1 DEF RowInv, BurntInv
<1>7. Payout!PaidBy(d) = Paid(d)
  <2>1. Payout!PaidBy(d) = {q.by : q \in {r \in old : r.burn = d}}
    BY DEF Payout!PaidBy
  <2>2. ASSUME NEW i \in Payments(d)
        PROVE  txs[i].by \in {q.by : q \in {r \in old : r.burn = d}}
    <3>1. Pays(i) \in old /\ Pays(i).burn = d /\ Pays(i).by = txs[i].by
      BY DEF Payments
    <3> HIDE DEF Pays, old
    <3>2. QED
      BY <3>1
  <2>3. ASSUME NEW r \in old, r.burn = d
        PROVE  r.by \in Paid(d)
    <3>1. PICK i \in DOMAIN txs : r = Pays(i)
      OBVIOUS
    <3>2. i \in Payments(d) /\ r.by = txs[i].by
      BY <2>3, <3>1 DEF Payments
    <3>3. QED
      BY <3>2 DEF Paid
  <2> HIDE DEF old
  <2>4. QED
    BY <2>1, <2>2, <2>3 DEF Paid
<1>8. n \notin Paid(d) /\ Cardinality(Paid(d)) + Quorum <= Cardinality(Node)
  BY <1>1, <1>2, <1>3, <1>4, PaymentAllowed
<1>9. {[id |-> i, burn |-> txs'[i].dep, by |-> txs'[i].by] : i \in DOMAIN txs'} = old \cup {p}
  BY <1>5
<1>10. p \notin old /\ p.burn = d /\ p.by = n
  BY <1>5
<1>11. \E r \in (old \cup {p}) \ old : r.burn = d /\ r.by = n /\ old \cup {p} = old \cup {r}
  <2> HIDE DEF old, p
  <2>1. QED
    BY <1>10
<1>12. Payout!Pay(n, d)
  <2>1. Payout!PaidBy(d) = Paid(d) /\ d \in 1 .. burned
    BY <1>6, <1>7
  <2>2. UNCHANGED (1 .. burned)
    OBVIOUS
  <2>3. \E r \in {[id |-> i, burn |-> txs[i].dep, by |-> txs[i].by] : i \in DOMAIN txs}'
                 \ {[id |-> i, burn |-> txs[i].dep, by |-> txs[i].by] : i \in DOMAIN txs} :
           /\ r.burn = d
           /\ r.by = n
           /\ {[id |-> i, burn |-> txs[i].dep, by |-> txs[i].by] : i \in DOMAIN txs}'
                 = {[id |-> i, burn |-> txs[i].dep, by |-> txs[i].by] : i \in DOMAIN txs} \cup {r}
    BY <1>9, <1>11
  <2>4. QED
    BY <1>8, <2>1, <2>2, <2>3 DEF Payout!Pay, Payout!Cardinality, Cardinality
<1>13. QED
  BY <1>3, <1>12 DEF Payout!Next

LEMMA StepsArePayouts ==
  Rows /\ Ordered /\ [Next]_vars => [Payout!Next]_(Payout!vars)
<1> SUFFICES ASSUME Rows, Ordered, [Next]_vars
             PROVE  Payout!Next \/ UNCHANGED Payout!vars
  OBVIOUS
<1> USE DEF evmVars, loopVars, cfgVars
<1>1. PICK C : Typed(C)
  BY DEF Rows
<1>2. burned' = burned /\ txs' = txs => UNCHANGED Payout!vars
  BY DEF Payout!vars
<1>3. CASE transferToBtc
  <2>1. burned \in Nat /\ burned < NumBurns /\ burned' = burned + 1 /\ txs' = txs
    BY <1>1, <1>3, WalletAssumption DEF transferToBtc, Typed
  <2>2. burned + 1 \in Burn /\ burned + 1 \notin 1 .. burned
    BY <2>1, WalletAssumption DEF Burn
  <2>3. 1 .. burned' = (1 .. burned) \cup {burned + 1}
    BY <2>1
  <2>4. Payout!Transfer(burned + 1)
    BY <2>1, <2>2, <2>3 DEF Payout!Transfer
  <2>5. QED
    BY <2>2, <2>4 DEF Payout!Next
<1>4. ASSUME NEW n \in Candidate, broadcast_psbt(n) \/ BroadcastRaises(n)
      PROVE  Payout!Next \/ UNCHANGED Payout!vars
  <2>1. /\ pc[n] = "broadcast" /\ burned' = burned
        /\ txs' = txs \/ txs' = Accepted(n)
    BY <1>4 DEF broadcast_psbt, BroadcastRaises
  <2>2. QED
    BY <1>2, <2>1, PayMapsToPay
<1>5. ASSUME NEW n \in Candidate, Lead(n), ~(broadcast_psbt(n) \/ BroadcastRaises(n))
      PROVE  burned' = burned /\ txs' = txs
  BY <1>5 DEF Lead, RunIterationLeader, RunIterationFrozen, EndIteration, create_rune_psbt,
     SkipDeposit, PeerSigns, PeerDoesNotSign, AskPeer, TooFewSignatures, CommitSending,
     CommitFailed, CommitSent
<1>6. ASSUME NEW i \in DOMAIN txs, MineBtc(i)
      PROVE  UNCHANGED Payout!vars
  <2>1. /\ DOMAIN txs' = DOMAIN txs
        /\ \A j \in DOMAIN txs : txs'[j].by = txs[j].by /\ txs'[j].dep = txs[j].dep
    BY <1>1, <1>6, MinedPayments
  <2>2. burned' = burned
    BY <1>6 DEF MineBtc
  <2>3. QED
    BY <2>1, <2>2 DEF Payout!vars
<1>7. ASSUME \/ \E n \in Node : RunIterationFollower(n)
             \/ pause \/ freeze \/ unpause \/ unfreeze
             \/ \E n \in Candidate, leader \in BOOLEAN : Restart(n, leader)
             \/ UNCHANGED vars
      PROVE  burned' = burned /\ txs' = txs
  BY <1>7 DEF RunIterationFollower, pause, freeze, unpause, unfreeze, Governs, Restart, vars
<1>8. QED
  BY <1>2, <1>3, <1>4, <1>5, <1>6, <1>7 DEF Next

(* Runes are paid out only for burns, once by each leader, and a leader that *)
(* has paid is missing from the quorum of every later payment: with one      *)
(* leader or a unanimous quorum a burn is paid once, and otherwise at most   *)
(* as often as nodes are not needed for a quorum, and once more.             *)
THEOREM PayoutsAreFederated ==
  Spec => ImplementsFederatedPayout
<1>1. Init => Payout!Init
  <2> SUFFICES ASSUME Init
               PROVE  Payout!Init
    OBVIOUS
  <2>1. DOMAIN txs = {} /\ 1 .. burned = {}
    BY DEF Init
  <2>2. QED
    BY <2>1 DEF Payout!Init
<1>2. Init => Rows /\ Ordered
  BY RowsInitially, OrderedInitially DEF Rows
<1>3. Rows /\ Ordered /\ [Next]_vars => (Rows /\ Ordered)'
  BY NextKeepsRows, NextKeepsOrder
<1>4. QED
  BY <1>1, <1>2, <1>3, StepsArePayouts, PTL DEF Spec, ImplementsFederatedPayout, Payout!Spec

-----------------------------------------------------------------------------
(* Sums over finite sets.  The operators of the community modules pick the  *)
(* elements in some order and recur on what is left.                         *)

(* Among subsets of a finite set, some have no other one as a subset. *)
LEMMA LeastSet ==
  ASSUME NEW S, IsFiniteSet(S), NEW Bad \in SUBSET SUBSET S, Bad # {}
  PROVE  \E T \in Bad : \A U \in Bad : U \subseteq T => U = T
<1> DEFINE R == StrictSubsetOrdering(S)
<1>1. Bad \subseteq FiniteSubsetsOf(S)
  BY FS_Subset DEF FiniteSubsetsOf
<1>2. PICK T \in Bad : \A U \in Bad : ~(<<U, T>> \in R)
  <2>1. IsWellFoundedOn(R, FiniteSubsetsOf(S))
    BY FS_StrictSubsetOrderingWellFounded
  <2> HIDE DEF R
  <2>2. QED
    BY <1>1, <2>1, WFMin
<1>3. QED
  BY <1>2 DEF StrictSubsetOrdering

(* What holds of the empty set, and of a set with one more element when it  *)
(* holds of the set, holds of a finite set: W are the sets it holds of.     *)
LEMMA SetInduction ==
  ASSUME NEW S, IsFiniteSet(S), NEW W, {} \in W,
         \A T \in SUBSET S : \A x \in S \ T : T \in W => T \cup {x} \in W
  PROVE  S \in W
<1> DEFINE Bad == (SUBSET S) \ W
<1> SUFFICES ASSUME S \notin W
             PROVE  FALSE
  OBVIOUS
<1>1. Bad \in SUBSET SUBSET S /\ Bad # {}
  OBVIOUS
<1>2. PICK T \in Bad : \A U \in Bad : U \subseteq T => U = T
  <2> HIDE DEF Bad
  <2>1. QED
    BY <1>1, LeastSet
<1>3. PICK x \in T : TRUE
  OBVIOUS
<1>4. T \ {x} \in SUBSET S /\ x \in S \ (T \ {x}) /\ (T \ {x}) \cup {x} = T
  OBVIOUS
<1>5. T \ {x} \notin W
  BY <1>4
<1>6. QED
  BY <1>2, <1>4, <1>5

Pick(T) == CHOOSE x \in T : TRUE

IsSum(g, f, S) ==
    g = [T \in SUBSET S |-> IF T = {} THEN 0 ELSE f[Pick(T)] + g[T \ {Pick(T)}]]

LEMMA SumDef ==
  ASSUME NEW f, NEW S
  PROVE  SumFunctionOnSet(f, S) = (CHOOSE g : IsSum(g, f, S))[S]
BY DEF SumFunctionOnSet, FoldFunctionOnSet, MapThenFoldSet, IsSum, Pick

LEMMA PickIsIn == ASSUME NEW T, T # {} PROVE Pick(T) \in T
BY DEF Pick

(* What holds of zero and of the successor of every number it holds of     *)
(* holds of every number.                                                  *)
LEMMA NumberInduction ==
  ASSUME NEW W, 0 \in W, \A k \in Nat : k \in W => k + 1 \in W
  PROVE  Nat \subseteq W
<1> DEFINE R == OpToRel(<, Nat)
           Bad == Nat \ W
<1> SUFFICES ASSUME Bad # {}
             PROVE  FALSE
  OBVIOUS
<1>1. PICK k \in Bad : \A j \in Bad : ~(<<j, k>> \in R)
  <2>1. IsWellFoundedOn(R, Nat)
    BY NatLessThanWellFounded
  <2>2. Bad \subseteq Nat
    OBVIOUS
  <2> HIDE DEF R, Bad
  <2>3. QED
    BY <2>1, <2>2, WFMin
<1>2. k \in Nat /\ k # 0
  OBVIOUS
<1>3. k - 1 \in Nat /\ (k - 1) + 1 = k /\ k - 1 < k
  BY <1>2
<1>4. k - 1 \notin W
  BY <1>3
<1>5. <<k - 1, k>> \in R
  BY <1>2, <1>3 DEF OpToRel
<1>6. QED
  BY <1>1, <1>3, <1>4, <1>5

(* The sums of the subsets of a finite set exist: those of the larger ones  *)
(* follow from those of the smaller ones.                                   *)
LEMMA SumExists ==
  ASSUME NEW f, NEW S, IsFiniteSet(S)
  PROVE  \E g : IsSum(g, f, S)
<1> DEFINE Step(g, T) == IF T = {} THEN 0 ELSE f[Pick(T)] + g[T \ {Pick(T)}]
           Small(k) == {T \in SUBSET S : Cardinality(T) <= k}
           W == {k \in Nat : \E g : \A T \in Small(k) : g[T] = Step(g, T)}
<1>1. \A T \in SUBSET S : IsFiniteSet(T) /\ Cardinality(T) \in Nat
  BY FS_Subset, FS_CardinalityType
<1>2. \A T \in SUBSET S : Cardinality(T) = 0 => T = {}
  BY <1>1, FS_EmptySet
<1>3. 0 \in W
  <2>1. \A T \in Small(0) : T = {}
    BY <1>1, <1>2
  <2>2. \A T \in Small(0) : [U \in {{}} |-> 0][T] = Step([U \in {{}} |-> 0], T)
    BY <2>1
  <2>3. QED
    BY <2>2
<1>4. ASSUME NEW k \in Nat, k \in W
      PROVE  k + 1 \in W
  <2>1. PICK g : \A T \in Small(k) : g[T] = Step(g, T)
    BY <1>4
  <2> DEFINE h == [T \in SUBSET S |-> Step(g, T)]
  <2>2. ASSUME NEW T \in Small(k + 1), T # {}
        PROVE  T \ {Pick(T)} \in Small(k)
    <3>1. Pick(T) \in T /\ T \in SUBSET S
      BY <2>2, PickIsIn
    <3>2. Cardinality(T \ {Pick(T)}) = Cardinality(T) - 1
      BY <1>1, <3>1, FS_RemoveElement
    <3>3. Cardinality(T) \in Nat /\ Cardinality(T) <= k + 1
      BY <1>1
    <3>4. QED
      BY <3>1, <3>2, <3>3
  <2>3. \A T \in Small(k) : h[T] = g[T]
    BY <2>1
  <2>4. ASSUME NEW T \in Small(k + 1)
        PROVE  h[T] = Step(h, T)
    <3>1. h[T] = Step(g, T)
      OBVIOUS
    <3> HIDE DEF h, Small
    <3>2. T # {} => h[T \ {Pick(T)}] = g[T \ {Pick(T)}]
      BY <2>2, <2>3
    <3>3. QED
      BY <3>1, <3>2
  <2> HIDE DEF h, Small, Step
  <2>5. QED
    BY <2>4
<1>5. Cardinality(S) \in W
  <2> HIDE DEF W
  <2>1. Nat \subseteq W
    BY <1>3, <1>4, NumberInduction, Zenon
  <2>2. QED
    BY <1>1, <2>1
<1>6. PICK g : \A T \in Small(Cardinality(S)) : g[T] = Step(g, T)
  BY <1>5
<1>7. \A T \in SUBSET S : T \in Small(Cardinality(S))
  BY FS_Subset
<1> DEFINE all == [T \in SUBSET S |-> g[T]]
<1>8. ASSUME NEW T \in SUBSET S
      PROVE  all[T] = Step(all, T)
  <2>1. all[T] = Step(g, T)
    BY <1>6, <1>7
  <2>2. T \ {Pick(T)} \in SUBSET S
    OBVIOUS
  <2>3. QED
    BY <2>1, <2>2
<1>9. IsSum(all, f, S)
  <2>1. all = [T \in SUBSET S |-> all[T]]
    OBVIOUS
  <2> HIDE DEF all
  <2>2. QED
    BY <2>1, <1>8 DEF IsSum
<1>10. QED
  BY <1>9

LEMMA SumIsSum ==
  ASSUME NEW f, NEW S, IsFiniteSet(S)
  PROVE  \E g : IsSum(g, f, S) /\ SumFunctionOnSet(f, S) = g[S]
BY SumExists, SumDef

(* The sum depends on nothing but the values at the elements of the set. *)
LEMMA SumsAgree ==
  ASSUME NEW S, NEW T \in SUBSET S, IsFiniteSet(T), NEW f, NEW e, \A x \in T : f[x] = e[x],
         NEW g, IsSum(g, f, S), NEW h, IsSum(h, e, T)
  PROVE  g[T] = h[T]
<1> DEFINE Bad == {U \in SUBSET T : g[U] # h[U]}
<1> SUFFICES ASSUME Bad # {}
             PROVE  FALSE
  OBVIOUS
<1>1. PICK U \in Bad : \A V \in Bad : V \subseteq U => V = U
  <2>1. Bad \in SUBSET SUBSET T
    OBVIOUS
  <2> HIDE DEF Bad
  <2>2. QED
    BY <2>1, LeastSet
<1>2. U \in SUBSET T /\ U \in SUBSET S /\ g[U] # h[U]
  OBVIOUS
<1>3. /\ g[U] = IF U = {} THEN 0 ELSE f[Pick(U)] + g[U \ {Pick(U)}]
      /\ h[U] = IF U = {} THEN 0 ELSE e[Pick(U)] + h[U \ {Pick(U)}]
  BY <1>2 DEF IsSum
<1>4. U # {}
  BY <1>2, <1>3
<1>5. Pick(U) \in U
  BY <1>4, PickIsIn
<1>6. g[U \ {Pick(U)}] = h[U \ {Pick(U)}]
  BY <1>1, <1>2, <1>5
<1>7. f[Pick(U)] = e[Pick(U)]
  BY <1>2, <1>5
<1>8. QED
  BY <1>2, <1>3, <1>6, <1>7

LEMMA SumCongruence ==
  ASSUME NEW S, IsFiniteSet(S), NEW f, NEW e, \A x \in S : f[x] = e[x]
  PROVE  SumFunctionOnSet(f, S) = SumFunctionOnSet(e, S)
<1>1. PICK g : IsSum(g, f, S) /\ SumFunctionOnSet(f, S) = g[S]
  BY SumIsSum
<1>2. PICK h : IsSum(h, e, S) /\ SumFunctionOnSet(e, S) = h[S]
  BY SumIsSum
<1>3. g[S] = h[S]
  BY <1>1, <1>2, SumsAgree
<1>4. QED
  BY <1>1, <1>2, <1>3

LEMMA SumOfEmpty ==
  ASSUME NEW f
  PROVE  SumFunctionOnSet(f, {}) = 0
<1>1. PICK g : IsSum(g, f, {}) /\ SumFunctionOnSet(f, {}) = g[{}]
  BY SumIsSum, FS_EmptySet
<1>2. QED
  BY <1>1 DEF IsSum

LEMMA SumOfPicked ==
  ASSUME NEW f, NEW S, IsFiniteSet(S), S # {}
  PROVE  SumFunctionOnSet(f, S) = f[Pick(S)] + SumFunctionOnSet(f, S \ {Pick(S)})
<1> DEFINE T == S \ {Pick(S)}
<1>1. PICK g : IsSum(g, f, S) /\ SumFunctionOnSet(f, S) = g[S]
  BY SumIsSum
<1>2. T \in SUBSET S /\ IsFiniteSet(T)
  BY FS_Subset
<1>3. PICK h : IsSum(h, f, T) /\ SumFunctionOnSet(f, T) = h[T]
  BY <1>2, SumIsSum
<1>4. g[T] = h[T]
  BY <1>1, <1>2, <1>3, SumsAgree
<1>5. g[S] = f[Pick(S)] + g[T]
  BY <1>1 DEF IsSum
<1>6. QED
  BY <1>1, <1>3, <1>4, <1>5

(* Sums of integers are integers. *)
LEMMA SumIsInt ==
  ASSUME NEW S, IsFiniteSet(S), NEW f, \A x \in S : f[x] \in Int
  PROVE  SumFunctionOnSet(f, S) \in Int
<1> DEFINE Bad == {T \in SUBSET S : SumFunctionOnSet(f, T) \notin Int}
<1> SUFFICES ASSUME Bad # {}
             PROVE  FALSE
  OBVIOUS
<1>1. PICK T \in Bad : \A U \in Bad : U \subseteq T => U = T
  <2>1. Bad \in SUBSET SUBSET S
    OBVIOUS
  <2> HIDE DEF Bad
  <2>2. QED
    BY <2>1, LeastSet
<1>2. T # {}
  BY SumOfEmpty
<1>3. Pick(T) \in T
  BY <1>2, PickIsIn
<1>4. IsFiniteSet(T)
  BY FS_Subset
<1>5. SumFunctionOnSet(f, T) = f[Pick(T)] + SumFunctionOnSet(f, T \ {Pick(T)})
  BY <1>2, <1>4, SumOfPicked
<1>6. SumFunctionOnSet(f, T \ {Pick(T)}) \in Int
  BY <1>1, <1>3
<1>7. f[Pick(T)] \in Int
  BY <1>3
<1>8. QED
  BY <1>5, <1>6, <1>7

(* The sum of a set with one more element: in whatever order the elements   *)
(* are picked.                                                              *)
LEMMA SumOfAdded ==
  ASSUME NEW S, IsFiniteSet(S), NEW f, \A x \in S : f[x] \in Int,
         NEW T \in SUBSET S, NEW x \in S \ T
  PROVE  SumFunctionOnSet(f, T \cup {x}) = SumFunctionOnSet(f, T) + f[x]
<1> DEFINE Sum(U) == SumFunctionOnSet(f, U)
           Bad == {U \in SUBSET S : \E y \in S \ U : Sum(U \cup {y}) # Sum(U) + f[y]}
<1> SUFFICES ASSUME Bad # {}
             PROVE  FALSE
  OBVIOUS
<1>1. PICK U \in Bad : \A V \in Bad : V \subseteq U => V = U
  <2>1. Bad \in SUBSET SUBSET S
    OBVIOUS
  <2> HIDE DEF Bad
  <2>2. QED
    BY <2>1, LeastSet
<1>2. U \in SUBSET S
  OBVIOUS
<1>3. PICK y \in S \ U : Sum(U \cup {y}) # Sum(U) + f[y]
  OBVIOUS
<1> DEFINE c == Pick(U \cup {y})
<1>4. c \in U \cup {y}
  BY PickIsIn
<1>5. \A V \in SUBSET S : IsFiniteSet(V)
  BY FS_Subset
<1>6. \A V \in SUBSET S : Sum(V) \in Int
  BY <1>5, SumIsInt
<1> HIDE DEF Sum
<1>7. Sum(U \cup {y}) = f[c] + Sum((U \cup {y}) \ {c})
  BY <1>2, <1>5, SumOfPicked DEF Sum
<1>8. f[c] \in Int /\ f[y] \in Int
  BY <1>2, <1>4
<1>9. c # y
  <2> SUFFICES ASSUME c = y
               PROVE  FALSE
    OBVIOUS
  <2>1. (U \cup {y}) \ {c} = U
    OBVIOUS
  <2>2. Sum(U \cup {y}) = f[y] + Sum(U)
    BY <1>7, <2>1
  <2>3. Sum(U) \in Int
    BY <1>2, <1>6
  <2> HIDE DEF c, Bad
  <2>4. QED
    BY <1>3, <1>8, <2>2, <2>3
<1> DEFINE V == U \ {c}
<1>10. V \in SUBSET S /\ V \notin Bad /\ y \in S \ V /\ c \in S \ V
  BY <1>1, <1>2, <1>4, <1>9
<1>11. (U \cup {y}) \ {c} = V \cup {y} /\ V \cup {c} = U
  BY <1>4, <1>9
<1>12. Sum(V \cup {y}) = Sum(V) + f[y] /\ Sum(V \cup {c}) = Sum(V) + f[c]
  BY <1>10
<1>13. Sum(V) \in Int
  BY <1>6, <1>10
<1> HIDE DEF V, c, Bad
<1>14. Sum(U \cup {y}) = f[c] + (Sum(V) + f[y]) /\ Sum(U) = Sum(V) + f[c]
  BY <1>7, <1>11, <1>12
<1>15. QED
  BY <1>3, <1>8, <1>13, <1>14



LEMMA SumOfUnion ==
  ASSUME NEW S, IsFiniteSet(S), NEW f, \A x \in S : f[x] \in Int,
         NEW A \in SUBSET S, NEW B \in SUBSET S, A \cap B = {}
  PROVE  SumFunctionOnSet(f, A \cup B) = SumFunctionOnSet(f, A) + SumFunctionOnSet(f, B)
<1> DEFINE Sum(U) == SumFunctionOnSet(f, U)
           W == {T \in SUBSET B : Sum(A \cup T) = Sum(A) + Sum(T)}
<1>1. \A V \in SUBSET S : Sum(V) \in Int
  BY FS_Subset, SumIsInt
<1>2. {} \in W
  BY <1>1, SumOfEmpty
<1>3. ASSUME NEW T \in SUBSET B, NEW x \in B \ T, T \in W
      PROVE  T \cup {x} \in W
  <2>1. Sum(T \cup {x}) = Sum(T) + f[x]
    BY SumOfAdded
  <2>2. /\ A \cup T \in SUBSET S /\ x \in S \ (A \cup T)
        /\ (A \cup T) \cup {x} = A \cup (T \cup {x})
    OBVIOUS
  <2>3. Sum(A \cup (T \cup {x})) = Sum(A \cup T) + f[x]
    BY <2>2, SumOfAdded
  <2>4. Sum(A \cup T) = Sum(A) + Sum(T)
    BY <1>3
  <2>5. Sum(A) \in Int /\ Sum(T) \in Int /\ f[x] \in Int
    BY <1>1
  <2> HIDE DEF Sum
  <2>6. Sum(A \cup (T \cup {x})) = Sum(A) + Sum(T \cup {x})
    BY <2>1, <2>3, <2>4, <2>5
  <2>7. QED
    BY <2>6
<1>4. B \in W
  <2>1. IsFiniteSet(B)
    BY FS_Subset
  <2> HIDE DEF W
  <2>2. QED
    BY <1>2, <1>3, <2>1, SetInduction, Zenon
<1>5. QED
  BY <1>4

LEMMA SumIsNat ==
  ASSUME NEW S, IsFiniteSet(S), NEW f, \A x \in S : f[x] \in Nat
  PROVE  SumFunctionOnSet(f, S) \in Nat
<1> DEFINE W == {T \in SUBSET S : SumFunctionOnSet(f, T) \in Nat}
<1>1. {} \in W
  BY SumOfEmpty
<1>2. ASSUME NEW T \in SUBSET S, NEW x \in S \ T, T \in W
      PROVE  T \cup {x} \in W
  <2>1. SumFunctionOnSet(f, T \cup {x}) = SumFunctionOnSet(f, T) + f[x]
    BY SumOfAdded
  <2>2. SumFunctionOnSet(f, T) \in Nat /\ f[x] \in Nat
    BY <1>2
  <2>3. QED
    BY <2>1, <2>2
<1>3. S \in W
  <2> HIDE DEF W
  <2>1. QED
    BY <1>1, <1>2, SetInduction, Zenon
<1>4. QED
  BY <1>3

(* Naturals at different indices of a set add up to at most all of them. *)
LEMMA SumOfIndexed ==
  ASSUME NEW S, IsFiniteSet(S), NEW f, \A x \in S : f[x] \in Nat,
         NEW D, IsFiniteSet(D), NEW at, NEW e,
         \A i \in D : at[i] \in S /\ e[i] = f[at[i]],
         \A i, j \in D : at[i] = at[j] => i = j
  PROVE  SumFunctionOnSet(e, D) <= SumFunctionOnSet(f, S)
<1> DEFINE Image(T) == {at[i] : i \in T}
           W == {T \in SUBSET D : SumFunctionOnSet(e, T) = SumFunctionOnSet(f, Image(T))}
<1>1. {} \in W
  BY SumOfEmpty
<1>2. ASSUME NEW T \in SUBSET D, NEW i \in D \ T, T \in W
      PROVE  T \cup {i} \in W
  <2>1. Image(T) \in SUBSET S /\ at[i] \in S \ Image(T)
    OBVIOUS
  <2>2. SumFunctionOnSet(f, Image(T) \cup {at[i]}) = SumFunctionOnSet(f, Image(T)) + f[at[i]]
    <3> HIDE DEF Image
    <3>1. QED
      BY <2>1, SumOfAdded
  <2>3. SumFunctionOnSet(e, T \cup {i}) = SumFunctionOnSet(e, T) + e[i]
    BY SumOfAdded
  <2>4. Image(T \cup {i}) = Image(T) \cup {at[i]}
    OBVIOUS
  <2>5. QED
    BY <1>2, <2>2, <2>3, <2>4
<1>3. D \in W
  <2> HIDE DEF W
  <2>1. QED
    BY <1>1, <1>2, SetInduction, Zenon
<1> DEFINE A == Image(D)
           B == S \ A
<1>4. A \in SUBSET S /\ B \in SUBSET S /\ A \cap B = {} /\ A \cup B = S
  OBVIOUS
<1> HIDE DEF A, B
<1>5. SumFunctionOnSet(f, S) = SumFunctionOnSet(f, A) + SumFunctionOnSet(f, B)
  BY <1>4, SumOfUnion
<1>6. SumFunctionOnSet(f, A) \in Nat /\ SumFunctionOnSet(f, B) \in Nat
  BY <1>4, FS_Subset, SumIsNat
<1>7. SumFunctionOnSet(e, D) = SumFunctionOnSet(f, A)
  BY <1>3 DEF A
<1>8. QED
  BY <1>5, <1>6, <1>7

-----------------------------------------------------------------------------
(* The runes of the wallet *)

(* The outputs there are, spent or not, and the runes that were paid out. *)
Outputs == Coin \cup DOMAIN txs
PaidAmounts == [i \in DOMAIN txs |-> Amount[txs[i].dep]]

(* A transaction that is being signed or broadcast spends outputs there are *)
(* and returns all runes but those of the burn.                             *)
BuiltInv ==
    \A n \in Candidate : pc[n] \in Holding =>
        /\ psbt[n] \in PsbtOf(Int)
        /\ psbt[n].inputs \subseteq Outputs
        /\ psbt[n].change = Runes(psbt[n].inputs) - Amount[psbt[n].dep]

SpendsInv == \A i \in DOMAIN txs : txs[i].inputs \subseteq Outputs

(* No rune is lost or made: what is unspent and what was paid are the runes *)
(* the wallet held initially.                                               *)
Conserved ==
    Runes(Unspent) + SumFunctionOnSet(PaidAmounts, DOMAIN txs)
        = SumFunctionOnSet(CoinRunes, Coin)

RunesInv == BuiltInv /\ SpendsInv /\ Conserved

LEMMA OutputsAreKnown ==
  ASSUME txs \in Seq(TransactionOf(Int))
  PROVE  /\ DOMAIN txs = 1 .. Len(txs) /\ Len(txs) \in Nat
         /\ IsFiniteSet(DOMAIN txs) /\ IsFiniteSet(Outputs)
         /\ \A i \in DOMAIN txs : txs[i] \in TransactionOf(Int) /\ i \notin Coin
         /\ \A o \in Outputs : RunesIn[o] \in Int
         /\ Unspent \subseteq Outputs
<1>1. /\ DOMAIN txs = 1 .. Len(txs) /\ Len(txs) \in Nat
      /\ \A i \in DOMAIN txs : txs[i] \in TransactionOf(Int)
  OBVIOUS
<1>2. IsFiniteSet(DOMAIN txs)
  BY <1>1, FS_Interval
<1>3. IsFiniteSet(Outputs)
  BY <1>2, FS_Union, WalletAssumption DEF Outputs
<1>4. \A i \in DOMAIN txs : i \notin Coin
  BY <1>1, WalletAssumption
<1>5. \A i \in DOMAIN txs : txs[i].change \in Int
  BY <1>1 DEF TransactionOf
<1>6. \A o \in Outputs : RunesIn[o] \in Int
  BY <1>5, WalletAssumption DEF Outputs, RunesIn
<1>7. Unspent \subseteq Outputs
  BY DEF Unspent, Outputs
<1>8. QED
  BY <1>1, <1>2, <1>3, <1>4, <1>6, <1>7

LEMMA RunesAreInts ==
  ASSUME txs \in Seq(TransactionOf(Int)), NEW S \in SUBSET Outputs
  PROVE  Runes(S) \in Int
<1>1. IsFiniteSet(S) /\ \A o \in S : RunesIn[o] \in Int
  BY OutputsAreKnown, FS_Subset
<1>2. QED
  BY <1>1, SumIsInt DEF Runes

(* New transactions and blocks leave the runes of an output as they are. *)
LEMMA RunesAreKept ==
  ASSUME txs \in Seq(TransactionOf(Int)),
         \A o \in Outputs : o \in Outputs' /\ RunesIn'[o] = RunesIn[o],
         NEW S \in SUBSET Outputs
  PROVE  Runes(S)' = Runes(S)
<1>1. IsFiniteSet(S)
  BY OutputsAreKnown, FS_Subset
<1>2. SumFunctionOnSet(RunesIn, S) = SumFunctionOnSet(RunesIn', S)
  BY <1>1, SumCongruence
<1>3. QED
  BY <1>2 DEF Runes

(* A step that adds no transaction and changes none that is being signed; a *)
(* block may confirm some.                                                  *)
LEMMA RunesQuiet ==
  ASSUME RunesInv, DOMAIN txs' = DOMAIN txs,
         \A i \in DOMAIN txs : /\ txs'[i].dep = txs[i].dep
                               /\ txs'[i].inputs = txs[i].inputs
                               /\ txs'[i].change = txs[i].change,
         \A n \in Candidate : pc'[n] \in Holding => pc[n] \in Holding /\ psbt'[n] = psbt[n]
  PROVE  RunesInv'
<1>1. Outputs' = Outputs /\ Unspent' = Unspent /\ RunesIn' = RunesIn /\ PaidAmounts' = PaidAmounts
  BY DEF Outputs, Unspent, RunesIn, PaidAmounts
<1>2. \A S : Runes(S)' = Runes(S)
  BY <1>1 DEF Runes
<1>3. BuiltInv'
  BY <1>1, <1>2 DEF RunesInv, BuiltInv
<1>4. SpendsInv'
  BY <1>1 DEF RunesInv, SpendsInv
<1>5. Conserved'
  BY <1>1, <1>2 DEF RunesInv, Conserved
<1>6. QED
  BY <1>3, <1>4, <1>5 DEF RunesInv

(* The selected inputs hold what the change and the burn need. *)
LEMMA RunesAreSelected ==
  ASSUME RunesInv, txs \in Seq(TransactionOf(Int)), DOMAIN psbt = Candidate,
         NEW n \in Candidate, NEW d \in Burn, create_rune_psbt(n, d)
  PROVE  RunesInv'
<1>1. PICK S \in RuneSelections(Amount[d]) :
         psbt' = [psbt EXCEPT ![n] = [dep |-> d, inputs |-> S, change |-> Runes(S) - Amount[d]]]
  BY DEF create_rune_psbt
<1>2. S \in SUBSET Outputs
  BY <1>1, OutputsAreKnown DEF RuneSelections, ListedOutputs
<1>3. Runes(S) \in Int /\ Amount[d] \in Int
  BY <1>2, RunesAreInts, WalletAssumption
<1>4. PICK v \in Int : v = Runes(S) - Amount[d]
  BY <1>3
<1>5. psbt'[n] = [dep |-> d, inputs |-> S, change |-> v]
      /\ \A m \in Candidate \ {n} : psbt'[m] = psbt[m] /\ pc'[m] = pc[m]
  BY <1>1, <1>4 DEF create_rune_psbt
<1>6. txs' = txs
  BY DEF create_rune_psbt
<1>7. Outputs' = Outputs /\ Unspent' = Unspent /\ RunesIn' = RunesIn /\ PaidAmounts' = PaidAmounts
  BY <1>6 DEF Outputs, Unspent, RunesIn, PaidAmounts
<1>8. \A T : Runes(T)' = Runes(T)
  BY <1>7 DEF Runes
<1>9. S \subseteq Output
  BY <1>2, OutputsAreKnown DEF Outputs, Output
<1>10. /\ psbt'[n] \in PsbtOf(Int)
       /\ psbt'[n].inputs = S /\ psbt'[n].change = v /\ psbt'[n].dep = d
  BY <1>5, <1>9 DEF PsbtOf
<1>11. BuiltInv'
  <2> SUFFICES ASSUME NEW m \in Candidate, pc'[m] \in Holding
               PROVE  /\ psbt'[m] \in PsbtOf(Int)
                      /\ psbt'[m].inputs \subseteq Outputs
                      /\ psbt'[m].change = Runes(psbt'[m].inputs) - Amount[psbt'[m].dep]
    BY <1>7, <1>8 DEF BuiltInv
  <2>1. CASE m = n
    BY <1>2, <1>4, <1>10, <2>1
  <2>2. CASE m # n
    BY <1>5, <2>2 DEF RunesInv, BuiltInv
  <2>3. QED
    BY <2>1, <2>2
<1>12. SpendsInv' /\ Conserved'
  BY <1>6, <1>7, <1>8 DEF RunesInv, SpendsInv, Conserved
<1>13. QED
  BY <1>11, <1>12 DEF RunesInv

(* A payment replaces its inputs by its change: what is missing was paid. *)
LEMMA RunesArePaid ==
  ASSUME RunesInv, txs \in Seq(TransactionOf(Int)), NEW n \in Candidate,
         pc[n] = "broadcast", Acceptable(n), txs' = Accepted(n), psbt' = psbt,
         NEW step \in {"raised", "returned"}, pc' = [pc EXCEPT ![n] = step]
  PROVE  RunesInv'
<1> DEFINE t == [dep |-> psbt[n].dep, inputs |-> psbt[n].inputs,
                 change |-> psbt[n].change, by |-> n, mined |-> FALSE]
           new == Len(txs) + 1
           in == psbt[n].inputs
           rest == Unspent \ in
<1>1. /\ psbt[n] \in PsbtOf(Int)
      /\ in \subseteq Outputs
      /\ psbt[n].change = Runes(in) - Amount[psbt[n].dep]
  BY DEF RunesInv, BuiltInv, Holding
<1>2. in \subseteq Unspent
  BY DEF Acceptable
<1>3. t \in TransactionOf(Int) /\ t.inputs = in /\ t.dep = psbt[n].dep /\ t.change = psbt[n].change
  BY <1>1 DEF PsbtOf, TransactionOf
<1>4. txs' = Append(txs, t)
  BY DEF Accepted
<1>5. /\ DOMAIN txs' = DOMAIN txs \cup {new} /\ new \notin DOMAIN txs
      /\ txs'[new] = t
      /\ \A i \in DOMAIN txs : txs'[i] = txs[i]
  <2> HIDE DEF t
  <2>1. QED
    BY <1>3, <1>4, AppendedElements
<1> HIDE DEF t
<1>6. Outputs' = Outputs \cup {new} /\ new \notin Outputs /\ new \notin Coin
  <2>1. new \in Nat
    BY OutputsAreKnown
  <2> HIDE DEF new
  <2>2. new \notin Coin
    BY <2>1, WalletAssumption
  <2>3. QED
    BY <1>5, <2>2 DEF Outputs
<1>7. /\ \A o \in Outputs : RunesIn'[o] = RunesIn[o]
      /\ RunesIn'[new] = psbt[n].change
  BY <1>3, <1>5, <1>6 DEF RunesIn, Outputs
<1>8. \A i \in DOMAIN txs : txs[i].inputs \subseteq Outputs
  BY DEF RunesInv, SpendsInv
<1>9. Unspent' = rest \cup {new}
  <2>1. Unspent' = {o \in Outputs' : \A i \in DOMAIN txs' : o \notin txs'[i].inputs}
    BY DEF Unspent, Outputs
  <2>2. Unspent = {o \in Outputs : \A i \in DOMAIN txs : o \notin txs[i].inputs}
    BY DEF Unspent, Outputs
  <2>3. \A o : o \in Unspent' <=>
             o \in Outputs' /\ o \notin in /\ \A i \in DOMAIN txs : o \notin txs[i].inputs
    BY <1>3, <1>5, <2>1
  <2>4. QED
    BY <1>1, <1>6, <1>8, <2>2, <2>3
<1>10. IsFiniteSet(Outputs') /\ (\A o \in Outputs' : RunesIn'[o] \in Int)
  <2>1. txs' \in Seq(TransactionOf(Int))
    BY <1>3, <1>4
  <2>2. (txs \in Seq(TransactionOf(Int)))' =>
           (IsFiniteSet(Outputs) /\ (\A o \in Outputs : RunesIn[o] \in Int))'
    BY OutputsAreKnown, PTL
  <2>3. QED
    BY <2>1, <2>2
<1>11. \A S \in SUBSET Outputs : Runes(S)' = Runes(S)
  BY <1>6, <1>7, RunesAreKept
<1>12. \A S \in SUBSET Outputs : Runes(S) \in Int
  BY RunesAreInts
<1>13. Unspent \subseteq Outputs /\ rest \subseteq Outputs
  BY OutputsAreKnown
<1>14. Runes(Unspent)' = Runes(rest) + psbt[n].change
  <2>1. SumFunctionOnSet(RunesIn', rest \cup {new}) = SumFunctionOnSet(RunesIn', rest) + RunesIn'[new]
    <3>1. rest \in SUBSET Outputs' /\ new \in Outputs' \ rest
      BY <1>6, <1>13
    <3> HIDE DEF rest, new
    <3>2. QED
      BY <1>10, <3>1, SumOfAdded
  <2>2. SumFunctionOnSet(RunesIn', rest) = Runes(rest)
    BY <1>11, <1>13 DEF Runes
  <2>3. QED
    BY <1>7, <1>9, <2>1, <2>2 DEF Runes
<1>15. Runes(Unspent) = Runes(rest) + Runes(in)
  <2>1. Unspent = rest \cup in /\ rest \cap in = {}
    BY <1>2
  <2>2. IsFiniteSet(Outputs) /\ \A o \in Outputs : RunesIn[o] \in Int
    BY OutputsAreKnown
  <2> HIDE DEF rest, in
  <2>3. SumFunctionOnSet(RunesIn, rest \cup in)
           = SumFunctionOnSet(RunesIn, rest) + SumFunctionOnSet(RunesIn, in)
    BY <1>1, <1>13, <2>1, <2>2, SumOfUnion
  <2>4. QED
    BY <2>1, <2>3 DEF Runes
<1>16. \A i \in DOMAIN txs : PaidAmounts[i] \in Int /\ PaidAmounts'[i] = PaidAmounts[i]
  BY <1>5, OutputsAreKnown, WalletAssumption DEF PaidAmounts, TransactionOf
<1>17. PaidAmounts'[new] = Amount[psbt[n].dep] /\ Amount[psbt[n].dep] \in Int
  BY <1>1, <1>3, <1>5, WalletAssumption DEF PaidAmounts, PsbtOf
<1>18. SumFunctionOnSet(PaidAmounts', DOMAIN txs')
          = SumFunctionOnSet(PaidAmounts, DOMAIN txs) + Amount[psbt[n].dep]
  <2>1. IsFiniteSet(DOMAIN txs)
    BY OutputsAreKnown
  <2>2. IsFiniteSet(DOMAIN txs')
    BY <1>5, <2>1, FS_AddElement
  <2>3. \A i \in DOMAIN txs' : PaidAmounts'[i] \in Int
    BY <1>5, <1>16, <1>17
  <2> HIDE DEF new
  <2>4. SumFunctionOnSet(PaidAmounts', DOMAIN txs \cup {new})
          = SumFunctionOnSet(PaidAmounts', DOMAIN txs) + PaidAmounts'[new]
    BY <1>5, <2>2, <2>3, SumOfAdded
  <2>5. SumFunctionOnSet(PaidAmounts', DOMAIN txs) = SumFunctionOnSet(PaidAmounts, DOMAIN txs)
    BY <1>16, <2>1, SumCongruence
  <2>6. QED
    BY <1>5, <1>17, <2>4, <2>5
<1>19. SumFunctionOnSet(PaidAmounts, DOMAIN txs) \in Int
  BY <1>16, OutputsAreKnown, SumIsInt
<1>20. Runes(rest) \in Int /\ Runes(in) \in Int
  BY <1>1, <1>12, <1>13
<1>21. Conserved'
  <2>1. Runes(Unspent) + SumFunctionOnSet(PaidAmounts, DOMAIN txs) = SumFunctionOnSet(CoinRunes, Coin)
    BY DEF RunesInv, Conserved
  <2> HIDE DEF rest, in
  <2>2. Runes(Unspent)' + SumFunctionOnSet(PaidAmounts', DOMAIN txs') = SumFunctionOnSet(CoinRunes, Coin)
    BY <1>1, <1>14, <1>15, <1>17, <1>18, <1>19, <1>20, <2>1
  <2>3. QED
    BY <2>2 DEF Conserved
<1>22. SpendsInv'
  BY <1>1, <1>3, <1>5, <1>6, <1>8 DEF SpendsInv
<1>23. BuiltInv'
  <2> SUFFICES ASSUME NEW m \in Candidate, pc'[m] \in Holding
               PROVE  /\ psbt[m] \in PsbtOf(Int)
                      /\ psbt[m].inputs \subseteq Outputs'
                      /\ psbt[m].change = Runes(psbt[m].inputs)' - Amount[psbt[m].dep]
    BY DEF BuiltInv
  <2>1. pc[m] \in Holding
    BY DEF Holding
  <2>2. /\ psbt[m] \in PsbtOf(Int)
        /\ psbt[m].inputs \subseteq Outputs
        /\ psbt[m].change = Runes(psbt[m].inputs) - Amount[psbt[m].dep]
    BY <2>1 DEF RunesInv, BuiltInv
  <2>3. QED
    BY <1>6, <1>11, <2>2
<1>24. QED
  BY <1>21, <1>22, <1>23 DEF RunesInv

LEMMA WalletInitially ==
  Init => TypeOK /\ RunesInv
<1> SUFFICES ASSUME Init
             PROVE  TypeOK /\ RunesInv
  OBVIOUS
<1> USE DEF Init
<1>1. TypeOK
  <2>1. burned \in 0 .. NumBurns /\ leads \subseteq Candidate
    BY FederationAssumption, WalletAssumption
  <2>2. txs \in Seq(Transaction)
    OBVIOUS
  <2>3. status \in [Node -> [Burn -> Status]] /\ pc \in [Candidate -> Loop]
    BY DEF Status, Loop
  <2>4. QED
    BY <2>1, <2>2, <2>3 DEF TypeOK
<1>2. DOMAIN txs = {} /\ Unspent = Coin
  BY DEF Unspent
<1>3. SumFunctionOnSet(PaidAmounts, {}) = 0
  BY SumOfEmpty
<1>4. Runes(Unspent) = SumFunctionOnSet(CoinRunes, Coin)
  <2>1. \A c \in Coin : RunesIn[c] = CoinRunes[c]
    BY DEF RunesIn
  <2>2. QED
    BY <1>2, <2>1, SumCongruence, WalletAssumption DEF Runes
<1>5. SumFunctionOnSet(CoinRunes, Coin) \in Int
  BY SumIsInt, WalletAssumption
<1>6. Conserved
  BY <1>2, <1>3, <1>4, <1>5 DEF Conserved
<1>7. BuiltInv /\ SpendsInv
  BY <1>2 DEF BuiltInv, SpendsInv, Holding
<1>8. QED
  BY <1>1, <1>6, <1>7 DEF RunesInv

LEMMA AcceptedIsTyped ==
  ASSUME TypeOK, BuiltInv, NEW n \in Candidate, pc[n] \in Holding
  PROVE  Accepted(n) \in Seq(Transaction)
<1> DEFINE t == [dep |-> psbt[n].dep, inputs |-> psbt[n].inputs,
                 change |-> psbt[n].change, by |-> n, mined |-> FALSE]
<1>1. psbt[n] \in PsbtOf(Int)
  BY DEF BuiltInv
<1>2. t \in Transaction
  BY <1>1 DEF PsbtOf, Transaction
<1>3. Accepted(n) = Append(txs, t)
  BY DEF Accepted
<1> HIDE DEF t
<1>4. QED
  BY <1>2, <1>3, AppendedElements DEF TypeOK

LEMMA ScannedIsTyped ==
  ASSUME status \in [Node -> [Burn -> Status]], NEW n \in Node, scan_rune_token_deposits(n)
  PROVE  status' \in [Node -> [Burn -> Status]]
<1>1. \A d \in Burn : Scanned(n, d) \in Status
  BY DEF Scanned, Status
<1>2. [d \in Burn |-> Scanned(n, d)] \in [Burn -> Status]
  BY <1>1
<1>3. QED
  BY <1>2 DEF scan_rune_token_deposits

LEMMA LeadKeepsTypes ==
  ASSUME TypeOK, RunesInv, NEW n \in Candidate, Lead(n)
  PROVE  TypeOK'
<1> USE DEF evmVars, loopVars, cfgVars, TypeOK
<1>1. n \in Node
  BY FederationAssumption
<1>2. scan_rune_token_deposits(n) => status' \in [Node -> [Burn -> Status]]
  BY <1>1, ScannedIsTyped
<1>3. Fault => faults' \in Nat
  BY DEF Fault
<1>4. NextDeposit(n) => /\ pc' \in [Candidate -> Loop] /\ todo' = todo
                        /\ psbt' \in [Candidate -> Psbt \cup {NoPsbt}]
                        /\ asked' \in [Candidate -> SUBSET Node]
                        /\ signers' \in [Candidate -> SUBSET Node]
  BY DEF NextDeposit, Loop
<1>5. \A s \in Status : [status EXCEPT ![n][psbt[n].dep] = s] \in [Node -> [Burn -> Status]]
  OBVIOUS
<1>6. CASE RunIterationLeader(n)
  BY <1>2, <1>6 DEF RunIterationLeader, Loop
<1>7. CASE RunIterationFrozen(n)
  BY <1>2, <1>7 DEF RunIterationFrozen
<1>8. CASE EndIteration(n)
  BY <1>8 DEF EndIteration, Loop
<1>9. ASSUME NEW d \in Burn, create_rune_psbt(n, d)
      PROVE  TypeOK'
  <2>1. PICK S \in RuneSelections(Amount[d]) :
           psbt' = [psbt EXCEPT ![n] = [dep |-> d, inputs |-> S, change |-> Runes(S) - Amount[d]]]
    BY <1>9 DEF create_rune_psbt
  <2>2. txs \in Seq(TransactionOf(Int))
    BY DEF Transaction, TransactionOf
  <2>3. S \in SUBSET Outputs
    BY <2>1, <2>2, OutputsAreKnown DEF RuneSelections, ListedOutputs
  <2>4. Runes(S) - Amount[d] \in Int
    <3>1. Runes(S) \in Int
      BY <2>2, <2>3, RunesAreInts
    <3>2. Amount[d] \in Int
      BY WalletAssumption
    <3>3. QED
      BY <3>1, <3>2
  <2>5. S \subseteq Output
    BY <2>2, <2>3, OutputsAreKnown DEF Outputs, Output
  <2>6. [dep |-> d, inputs |-> S, change |-> Runes(S) - Amount[d]] \in Psbt
    BY <2>4, <2>5 DEF Psbt
  <2>7. psbt' \in [Candidate -> Psbt \cup {NoPsbt}]
    BY <2>1, <2>6
  <2>8. QED
    BY <1>1, <1>9, <2>7 DEF create_rune_psbt, Loop
<1>10. ASSUME NEW d \in Burn, SkipDeposit(n, d)
       PROVE  TypeOK'
  BY <1>3, <1>10 DEF SkipDeposit
<1>11. ASSUME NEW p \in Node, PeerSigns(n, p) \/ PeerDoesNotSign(n, p)
       PROVE  TypeOK'
  BY <1>3, <1>11 DEF PeerSigns, PeerDoesNotSign, AskPeer
<1>12. CASE TooFewSignatures(n)
  BY <1>4, <1>12 DEF TooFewSignatures
<1>13. CASE CommitSending(n)
  BY <1>5, <1>13 DEF CommitSending, Status, Loop
<1>14. CASE broadcast_psbt(n) \/ BroadcastRaises(n)
  <2>1. pc[n] \in Holding
    BY <1>14 DEF broadcast_psbt, BroadcastRaises, Holding
  <2>2. Accepted(n) \in Seq(Transaction)
    BY <2>1, AcceptedIsTyped DEF RunesInv
  <2>3. QED
    BY <1>3, <1>14, <2>2 DEF broadcast_psbt, BroadcastRaises, Loop
<1>15. CASE CommitFailed(n) \/ CommitSent(n)
  BY <1>4, <1>5, <1>15 DEF CommitFailed, CommitSent, Status
<1>16. QED
  BY <1>6, <1>7, <1>8, <1>9, <1>10, <1>11, <1>12, <1>13, <1>14, <1>15 DEF Lead

LEMMA LeadKeepsRunes ==
  ASSUME TypeOK, RunesInv, NEW n \in Candidate, Lead(n)
  PROVE  RunesInv'
<1> USE DEF evmVars, loopVars, cfgVars
<1>1. pc \in [Candidate -> Loop] /\ DOMAIN psbt = Candidate /\ txs \in Seq(TransactionOf(Int))
  BY DEF TypeOK, Transaction, TransactionOf
<1>2. ASSUME txs' = txs, psbt' = psbt, pc'[n] \in Holding => pc[n] \in Holding,
             \A m \in Candidate \ {n} : pc'[m] = pc[m]
      PROVE  RunesInv'
  BY <1>2, RunesQuiet
<1>3. NextDeposit(n) /\ txs' = txs => RunesInv'
  BY <1>1, RunesQuiet DEF NextDeposit, Holding
<1>4. CASE RunIterationLeader(n) \/ RunIterationFrozen(n) \/ EndIteration(n)
  BY <1>1, <1>2, <1>4 DEF RunIterationLeader, RunIterationFrozen, EndIteration, Holding
<1>5. ASSUME NEW d \in Burn, create_rune_psbt(n, d)
      PROVE  RunesInv'
  BY <1>1, <1>5, RunesAreSelected
<1>6. ASSUME NEW d \in Burn, SkipDeposit(n, d)
      PROVE  RunesInv'
  BY <1>2, <1>6 DEF SkipDeposit
<1>7. ASSUME NEW p \in Node, PeerSigns(n, p) \/ PeerDoesNotSign(n, p)
      PROVE  RunesInv'
  BY <1>2, <1>7 DEF PeerSigns, PeerDoesNotSign, AskPeer
<1>8. CASE TooFewSignatures(n) \/ CommitFailed(n) \/ CommitSent(n)
  BY <1>3, <1>8 DEF TooFewSignatures, CommitFailed, CommitSent
<1>9. CASE CommitSending(n)
  BY <1>1, <1>2, <1>9 DEF CommitSending, Holding
<1>10. CASE broadcast_psbt(n)
  BY <1>1, <1>10, RunesArePaid DEF broadcast_psbt
<1>11. CASE BroadcastRaises(n)
  <2>1. pc[n] = "broadcast" /\ pc' = [pc EXCEPT ![n] = "raised"] /\ psbt' = psbt
    BY <1>11 DEF BroadcastRaises
  <2>2. CASE txs' = txs
    BY <1>1, <1>2, <2>1, <2>2 DEF Holding
  <2>3. CASE Acceptable(n) /\ txs' = Accepted(n)
    BY <1>1, <2>1, <2>3, RunesArePaid
  <2>4. QED
    BY <1>11, <2>2, <2>3 DEF BroadcastRaises
<1>12. QED
  BY <1>4, <1>5, <1>6, <1>7, <1>8, <1>9, <1>10, <1>11 DEF Lead

LEMMA NextKeepsWallet ==
  TypeOK /\ RunesInv /\ [Next]_vars => (TypeOK /\ RunesInv)'
<1> SUFFICES ASSUME TypeOK, RunesInv, [Next]_vars
             PROVE  TypeOK' /\ RunesInv'
  OBVIOUS
<1> USE DEF evmVars, loopVars, cfgVars
<1>1. ASSUME NEW n \in Candidate, Lead(n)
      PROVE  TypeOK' /\ RunesInv'
  BY <1>1, LeadKeepsTypes, LeadKeepsRunes
<1>2. ASSUME UNCHANGED <<txs, psbt, pc>>
      PROVE  RunesInv'
  BY <1>2, RunesQuiet
<1>3. ASSUME NEW n \in Node, RunIterationFollower(n)
      PROVE  TypeOK' /\ RunesInv'
  <2>1. status' \in [Node -> [Burn -> Status]]
    BY <1>3, ScannedIsTyped DEF RunIterationFollower, TypeOK
  <2>2. QED
    BY <1>2, <1>3, <2>1 DEF RunIterationFollower, TypeOK
<1>4. CASE transferToBtc
  <2>1. burned' \in 0 .. NumBurns
    BY <1>4, WalletAssumption DEF transferToBtc, TypeOK
  <2>2. QED
    BY <1>2, <1>4, <2>1 DEF transferToBtc, TypeOK
<1>5. ASSUME NEW i \in DOMAIN txs, MineBtc(i)
      PROVE  TypeOK' /\ RunesInv'
  <2>1. txs' = [txs EXCEPT ![i].mined = TRUE] /\ txs \in Seq(Transaction)
    BY <1>5 DEF MineBtc, TypeOK
  <2>2. txs[i] \in Transaction
    BY <2>1
  <2>3. /\ [txs[i] EXCEPT !.mined = TRUE] \in Transaction
        /\ [txs[i] EXCEPT !.mined = TRUE].dep = txs[i].dep
        /\ [txs[i] EXCEPT !.mined = TRUE].inputs = txs[i].inputs
        /\ [txs[i] EXCEPT !.mined = TRUE].change = txs[i].change
    BY <2>2 DEF Transaction
  <2>4. /\ txs' \in Seq(Transaction) /\ DOMAIN txs' = DOMAIN txs
        /\ \A j \in DOMAIN txs : txs'[j] = IF j = i THEN [txs[i] EXCEPT !.mined = TRUE] ELSE txs[j]
    BY <2>1, <2>3
  <2>5. TypeOK'
    BY <1>5, <2>4 DEF MineBtc, TypeOK
  <2>6. RunesInv'
    BY <1>5, <2>3, <2>4, RunesQuiet DEF MineBtc
  <2>7. QED
    BY <2>5, <2>6
<1>6. CASE pause \/ freeze \/ unpause \/ unfreeze
  <2>1. frozen \in BOOLEAN /\ paused \in BOOLEAN /\ governance \in Nat
    BY DEF TypeOK
  <2>2. PICK p \in BOOLEAN, f \in BOOLEAN : Governs(p, f)
    BY <1>6, <2>1 DEF pause, freeze, unpause, unfreeze
  <2>3. TypeOK'
    BY <2>1, <2>2 DEF Governs, TypeOK
  <2>4. RunesInv'
    BY <1>2, <2>2 DEF Governs
  <2>5. QED
    BY <2>3, <2>4
<1>7. ASSUME NEW n \in Candidate, NEW leader \in BOOLEAN, Restart(n, leader)
      PROVE  TypeOK' /\ RunesInv'
  <2>1. TypeOK'
    BY <1>7 DEF Restart, TypeOK, Loop
  <2>2. RunesInv'
    BY <1>7, RunesQuiet DEF Restart, TypeOK, Holding
  <2>3. QED
    BY <2>1, <2>2
<1>8. CASE UNCHANGED vars
  BY <1>2, <1>8 DEF vars, TypeOK
<1>9. QED
  BY <1>1, <1>3, <1>4, <1>5, <1>6, <1>7, <1>8 DEF Next

(* When every burn is paid once at most, the runes that were paid are no    *)
(* more than the tokens that were burnt.                                    *)
LEMMA ConservedIsBacked ==
  ASSUME Rows, TypeOK, RunesInv
  PROVE  TokensAreBacked
<1> SUFFICES ASSUME \A i, j \in DOMAIN txs : txs[i].mined /\ (txs[i].dep = txs[j].dep => i = j)
             PROVE  sanity_check >= 0
  BY DEF TokensAreBacked
<1> DEFINE S == 1 .. burned
           at == [i \in DOMAIN txs |-> txs[i].dep]
<1>1. txs \in Seq(TransactionOf(Int)) /\ burned \in Nat /\ S \subseteq Burn
  BY WalletAssumption DEF TypeOK, Transaction, TransactionOf, Burn
<1>2. \A i \in DOMAIN txs : txs[i].dep \in S
  <2> TAKE i \in DOMAIN txs
  <2>1. txs[i].by \in Node /\ txs[i].dep \in Burn
    <3>1. txs[i] \in TransactionOf(Int)
      BY <1>1
    <3>2. QED
      BY <3>1, FederationAssumption DEF TransactionOf
  <2>2. status[txs[i].by][txs[i].dep] # "NONE"
    BY DEF Rows, RowInv, PaidInv
  <2>3. QED
    BY <2>1, <2>2 DEF Rows, RowInv, BurntInv
<1>3. IsFiniteSet(S) /\ \A d \in S : Amount[d] \in Nat
  BY <1>1, FS_Interval, WalletAssumption
<1>4. SumFunctionOnSet(PaidAmounts, DOMAIN txs) <= SumFunctionOnSet(Amount, S)
  <2>1. IsFiniteSet(DOMAIN txs)
    BY <1>1, OutputsAreKnown
  <2>2. \A i \in DOMAIN txs : at[i] \in S /\ PaidAmounts[i] = Amount[at[i]]
    BY <1>2 DEF PaidAmounts
  <2>3. \A i, j \in DOMAIN txs : at[i] = at[j] => i = j
    OBVIOUS
  <2> HIDE DEF at, S
  <2>4. QED
    BY <1>3, <2>1, <2>2, <2>3, SumOfIndexed
<1>5. SumFunctionOnSet(PaidAmounts, DOMAIN txs) \in Int
  <2>1. IsFiniteSet(DOMAIN txs) /\ \A i \in DOMAIN txs : PaidAmounts[i] \in Int
    BY <1>1, <1>2, <1>3, OutputsAreKnown DEF PaidAmounts
  <2>2. QED
    BY <2>1, SumIsInt
<1>6. SumFunctionOnSet(Amount, S) \in Int
  <2> HIDE DEF S
  <2>1. SumFunctionOnSet(Amount, S) \in Nat
    BY <1>3, SumIsNat
  <2>2. QED
    BY <2>1
<1>7. ListedOutputs = Unspent
  BY DEF ListedOutputs, Unspent
<1>8. Runes(Unspent) \in Int
  BY <1>1, OutputsAreKnown, RunesAreInts
<1>9. SumFunctionOnSet(CoinRunes, Coin) \in Int
  BY SumIsInt, WalletAssumption
<1>10. Runes(Unspent) + SumFunctionOnSet(PaidAmounts, DOMAIN txs) = SumFunctionOnSet(CoinRunes, Coin)
  BY DEF RunesInv, Conserved
<1>11. sanity_check = Runes(Unspent) - (SumFunctionOnSet(CoinRunes, Coin) - SumFunctionOnSet(Amount, S))
  BY <1>7 DEF sanity_check, Supply
<1>12. QED
  BY <1>4, <1>5, <1>6, <1>8, <1>9, <1>10, <1>11

(* The monitor's sanity check never shows that tokens are not backed, except *)
(* while a change is unconfirmed or after a second leader's payment: every   *)
(* transaction returns to the wallet all runes but those that were burnt.    *)
THEOREM WalletBacksTokens ==
  Spec => []WalletInvariant
<1>1. Rows /\ TypeOK /\ RunesInv => WalletInvariant
  BY ConservedIsBacked DEF WalletInvariant
<1>2. QED
  BY <1>1, RowsInvariant, WalletInitially, NextKeepsWallet, PTL DEF Spec

-----------------------------------------------------------------------------
(* The selection of coins *)

(* The outputs before the change is known, and their fee. *)
BaseOutputs ==
    << [value |-> 0, to |-> "runestone"],
       [value |-> TARGET_POSTAGE_SAT, to |-> "wallet"],
       [value |-> TARGET_POSTAGE_SAT, to |-> "receiver"] >>
Change(c) == [value |-> c, to |-> "wallet"]
WithChange(c) == Append(BaseOutputs, Change(c))
BaseFee == estimate_size(Len(inputs), BaseOutputs, TRUE) * rate
NeededSat == 2 * TARGET_POSTAGE_SAT + BaseFee

(* Both loops add outputs in the order of the list: the first one only      *)
(* outputs with runes, the second one only outputs without.                 *)
PassInv ==
    \A i \in DOMAIN inputs :
        /\ stage = "runes" => inputs[i] < next /\ utxos[inputs[i]].runes > 0
        /\ stage = "fund" /\ utxos[inputs[i]].runes = 0 => inputs[i] < next

(* The second loop has passed over no output that can pay the fee. *)
AddedInv ==
    stage \in {"fund", "InsufficientBTCBalanceError"} =>
        \A k \in DOMAIN utxos :
            k < next /\ UsableForFee(utxos[k]) => \E i \in DOMAIN inputs : inputs[i] = k
ShortInv ==
    stage = "InsufficientBTCBalanceError" => ~Funded /\ next > Len(utxos)

(* The runes of the inputs: the last one that holds some was needed. *)
ForRunes == {i \in DOMAIN inputs : RunesAt[i] > 0}
Covered ==
    /\ SumFunctionOnSet(RunesAt, ForRunes) >= amount
    /\ \E i \in ForRunes : SumFunctionOnSet(RunesAt, ForRunes \ {i}) < amount
CoverInv ==
    /\ stage = "runes" => InputRunes < amount
    /\ stage \in {"fund", "add_change", "built"} => Covered

(* What the inputs hold is spent to the last satoshi. *)
FundedInv ==
    /\ stage # "built" => outputs = BaseOutputs
    /\ stage = "add_change" => Funded
    /\ stage = "built" =>
           \/ outputs = BaseOutputs /\ InputSat = NeededSat
           \/ \E c \in Nat : /\ c >= DUST_SAT
                             /\ outputs = WithChange(c)
                             /\ InputSat = NeededSat + c

SelectionInv ==
    /\ InputInvariant
    /\ PassInv /\ AddedInv /\ ShortInv
    /\ CoverInv /\ FundedInv

(* The sum of a sequence with one more element. *)
LEMMA SumOfLast ==
  ASSUME NEW n \in Nat, NEW f, DOMAIN f = 1 .. n, NEW e, DOMAIN e = 1 .. n + 1,
         \A i \in 1 .. n + 1 : e[i] \in Int, \A i \in 1 .. n : f[i] = e[i]
  PROVE  /\ SumFunction(e) = SumFunction(f) + e[n + 1]
         /\ SumFunction(f) \in Int /\ SumFunction(e) \in Int
<1>1. IsFiniteSet(1 .. n) /\ IsFiniteSet(1 .. n + 1)
  BY FS_Interval
<1>2. /\ 1 .. n \in SUBSET (1 .. n + 1) /\ n + 1 \in (1 .. n + 1) \ (1 .. n)
      /\ (1 .. n) \cup {n + 1} = 1 .. n + 1
  OBVIOUS
<1>3. SumFunctionOnSet(e, 1 .. n + 1) = SumFunctionOnSet(e, 1 .. n) + e[n + 1]
  BY <1>1, <1>2, SumOfAdded
<1>4. SumFunctionOnSet(f, 1 .. n) = SumFunctionOnSet(e, 1 .. n)
  BY <1>1, SumCongruence
<1>5. SumFunctionOnSet(f, 1 .. n) \in Int
  BY <1>1, SumIsInt
<1>6. SumFunctionOnSet(e, 1 .. n + 1) \in Int
  BY <1>1, SumIsInt
<1>7. QED
  BY <1>3, <1>4, <1>5, <1>6 DEF SumFunction

LEMMA SumOfNone ==
  ASSUME NEW f, DOMAIN f = {}
  PROVE  SumFunction(f) = 0
BY SumOfEmpty DEF SumFunction

(* The lists of outputs are sequences. *)
LEMMA ListedUtxos ==
  ASSUME NEW s \in list_utxos
  PROVE  s \in Seq(Utxo) /\ Len(s) \in Nat /\ DOMAIN s = 1 .. Len(s)
<1>1. PICK n \in 0 .. MaxUtxos : s \in [1 .. n -> Kind]
  BY DEF list_utxos
<1>2. n \in Nat
  BY NumberAssumption
<1>3. s \in Seq(Utxo)
  BY <1>1, <1>2, KindAssumption
<1>4. QED
  BY <1>3

LEMMA UtxoTyped ==
  ASSUME NEW u \in Utxo
  PROVE  /\ u.sat \in Nat /\ u.runes \in Nat /\ u.confirmations \in Nat
         /\ u.otherRunes \in BOOLEAN /\ u.change \in BOOLEAN
         /\ u.witnessScript \in BOOLEAN /\ u.indexed \in BOOLEAN
BY DEF Utxo

(* What the variables hold. *)
LEMMA TypedSelection ==
  ASSUME SelectionTypeOK
  PROVE  /\ Len(utxos) \in Nat /\ DOMAIN utxos = 1 .. Len(utxos)
         /\ next \in Nat /\ 1 <= next /\ next <= Len(utxos) + 1
         /\ inputs \in Seq(DOMAIN utxos) /\ Len(inputs) \in Nat /\ DOMAIN inputs = 1 .. Len(inputs)
         /\ \A k \in DOMAIN utxos : utxos[k] \in Utxo
         /\ \A i \in DOMAIN inputs : inputs[i] \in DOMAIN utxos /\ utxos[inputs[i]] \in Utxo
         /\ amount \in Nat /\ amount > 0 /\ rate \in Nat /\ rate > 0
<1>1. /\ utxos \in list_utxos /\ inputs \in Seq(DOMAIN utxos) /\ amount \in Nat \ {0}
      /\ rate \in Nat \ {0} /\ next \in 1 .. Len(utxos) + 1
  BY NumberAssumption DEF SelectionTypeOK
<1>2. utxos \in Seq(Utxo) /\ Len(utxos) \in Nat /\ DOMAIN utxos = 1 .. Len(utxos)
  BY <1>1, ListedUtxos
<1>3. \A k \in DOMAIN utxos : utxos[k] \in Utxo
  BY <1>2
<1>4. Len(inputs) \in Nat /\ DOMAIN inputs = 1 .. Len(inputs) /\ \A i \in DOMAIN inputs : inputs[i] \in DOMAIN utxos
  BY <1>1
<1>5. QED
  BY <1>1, <1>2, <1>3, <1>4

(* The sums over the inputs are natural numbers. *)
LEMMA SumsAreNat ==
  ASSUME SelectionTypeOK
  PROVE  InputSat \in Nat /\ InputRunes \in Nat
<1>1. /\ IsFiniteSet(DOMAIN inputs)
      /\ \A i \in DOMAIN inputs : utxos[inputs[i]].sat \in Nat /\ utxos[inputs[i]].runes \in Nat
  BY TypedSelection, UtxoTyped, FS_Interval
<1> DEFINE sats == [i \in DOMAIN inputs |-> utxos[inputs[i]].sat]
<1>2. SumFunctionOnSet(sats, DOMAIN inputs) \in Nat
  <2>1. \A i \in DOMAIN inputs : sats[i] \in Nat
    BY <1>1
  <2> HIDE DEF sats
  <2>2. QED
    BY <1>1, <2>1, SumIsNat
<1>3. SumFunctionOnSet(RunesAt, DOMAIN inputs) \in Nat
  <2>1. \A i \in DOMAIN inputs : RunesAt[i] \in Nat
    BY <1>1 DEF RunesAt
  <2>2. QED
    BY <1>1, <2>1, SumIsNat
<1>4. DOMAIN sats = DOMAIN inputs /\ DOMAIN RunesAt = DOMAIN inputs
  BY DEF RunesAt
<1>5. QED
  BY <1>2, <1>3, <1>4 DEF InputSat, InputRunes, SumFunction

LEMMA SumOfThree ==
  ASSUME NEW e, DOMAIN e = 1 .. 3, \A i \in 1 .. 3 : e[i] \in Int
  PROVE  SumFunction(e) = e[1] + e[2] + e[3]
<1> DEFINE g(n) == [i \in 1 .. n |-> e[i]]
<1>1. ASSUME NEW n \in 0 .. 2
      PROVE  SumFunction(g(n + 1)) = SumFunction(g(n)) + e[n + 1]
  <2>1. /\ n \in Nat /\ DOMAIN g(n) = 1 .. n /\ DOMAIN g(n + 1) = 1 .. n + 1
        /\ \A i \in 1 .. n : g(n)[i] = g(n + 1)[i]
        /\ \A i \in 1 .. n + 1 : g(n + 1)[i] \in Int
        /\ g(n + 1)[n + 1] = e[n + 1]
    OBVIOUS
  <2> HIDE DEF g
  <2>2. QED
    BY <2>1, SumOfLast
<1>2. SumFunction(g(0)) = 0
  <2>1. DOMAIN g(0) = {}
    OBVIOUS
  <2> HIDE DEF g
  <2>2. QED
    BY <2>1, SumOfNone
<1>3. SumFunction(e) = SumFunction(g(3))
  <2>1. DOMAIN g(3) = 1 .. 3 /\ \A i \in 1 .. 3 : e[i] = g(3)[i]
    OBVIOUS
  <2>2. IsFiniteSet(1 .. 3)
    <3>1. \A n \in Nat : IsFiniteSet(1 .. n)
      BY FS_Interval
    <3>2. 3 \in Nat
      OBVIOUS
    <3>3. QED
      BY <3>1, <3>2, Zenon
  <2> HIDE DEF g
  <2>3. SumFunctionOnSet(e, 1 .. 3) = SumFunctionOnSet(g(3), 1 .. 3)
    BY <2>1, <2>2, SumCongruence
  <2>4. QED
    BY <2>1, <2>3 DEF SumFunction
<1> HIDE DEF g
<1>4. /\ SumFunction(g(0 + 1)) = SumFunction(g(0)) + e[0 + 1]
      /\ SumFunction(g(1 + 1)) = SumFunction(g(1)) + e[1 + 1]
      /\ SumFunction(g(2 + 1)) = SumFunction(g(2)) + e[2 + 1]
  BY <1>1
<1>5. 0 + 1 = 1 /\ 1 + 1 = 2 /\ 2 + 1 = 3
  OBVIOUS
<1>6. /\ SumFunction(g(1)) = SumFunction(g(0)) + e[1]
      /\ SumFunction(g(2)) = SumFunction(g(1)) + e[2]
      /\ SumFunction(g(3)) = SumFunction(g(2)) + e[3]
  BY <1>4, <1>5
<1>7. e[1] \in Int /\ e[2] \in Int /\ e[3] \in Int
  OBVIOUS
<1>8. QED
  BY <1>2, <1>3, <1>6, <1>7

(* What outputs hold and how long they are, without and with change. *)
SatOf(outs) == SumFunction([i \in DOMAIN outs |-> outs[i].value])
BytesOf(outs) == SumFunction([i \in DOMAIN outs |-> OutputBytes(outs[i])])

LEMMA BaseSums ==
  SatOf(BaseOutputs) = 2 * TARGET_POSTAGE_SAT /\ BytesOf(BaseOutputs) = 104
<1> DEFINE value == [i \in DOMAIN BaseOutputs |-> BaseOutputs[i].value]
           bytes == [i \in DOMAIN BaseOutputs |-> OutputBytes(BaseOutputs[i])]
<1>1. /\ DOMAIN BaseOutputs = 1 .. 3 /\ TARGET_POSTAGE_SAT \in Nat
      /\ value[1] = 0 /\ value[2] = TARGET_POSTAGE_SAT /\ value[3] = TARGET_POSTAGE_SAT
      /\ bytes[1] = 30 /\ bytes[2] = 43 /\ bytes[3] = 31
  BY DEF BaseOutputs, OutputBytes, TARGET_POSTAGE_SAT
<1>2. DOMAIN value = 1 .. 3 /\ DOMAIN bytes = 1 .. 3
  BY <1>1
<1> HIDE DEF value, bytes
<1>3. \A i \in 1 .. 3 : value[i] \in Int /\ bytes[i] \in Int
  BY <1>1
<1>4. /\ SumFunction(value) = value[1] + value[2] + value[3]
      /\ SumFunction(bytes) = bytes[1] + bytes[2] + bytes[3]
  BY <1>2, <1>3, SumOfThree
<1>5. QED
  BY <1>1, <1>4 DEF value, bytes, SatOf, BytesOf

(* One more output adds what it holds, and its bytes. *)
LEMMA SumsOfAppend ==
  ASSUME NEW n \in Nat, NEW outs, DOMAIN outs = 1 .. n, NEW more, DOMAIN more = 1 .. n + 1,
         \A i \in 1 .. n : more[i] = outs[i],
         \A i \in 1 .. n + 1 : more[i].value \in Int /\ OutputBytes(more[i]) \in Int
  PROVE  /\ SatOf(more) = SatOf(outs) + more[n + 1].value
         /\ BytesOf(more) = BytesOf(outs) + OutputBytes(more[n + 1])
<1> DEFINE oldValue == [i \in DOMAIN outs |-> outs[i].value]
           oldBytes == [i \in DOMAIN outs |-> OutputBytes(outs[i])]
           value == [i \in DOMAIN more |-> more[i].value]
           bytes == [i \in DOMAIN more |-> OutputBytes(more[i])]
<1>1. /\ DOMAIN oldValue = 1 .. n /\ DOMAIN oldBytes = 1 .. n
      /\ DOMAIN value = 1 .. n + 1 /\ DOMAIN bytes = 1 .. n + 1
      /\ \A i \in 1 .. n : oldValue[i] = value[i] /\ oldBytes[i] = bytes[i]
      /\ \A i \in 1 .. n + 1 : value[i] \in Int /\ bytes[i] \in Int
      /\ value[n + 1] = more[n + 1].value /\ bytes[n + 1] = OutputBytes(more[n + 1])
  OBVIOUS
<1> HIDE DEF oldValue, oldBytes, value, bytes
<1>2. SumFunction(value) = SumFunction(oldValue) + value[n + 1]
  BY <1>1, SumOfLast
<1>3. SumFunction(bytes) = SumFunction(oldBytes) + bytes[n + 1]
  BY <1>1, SumOfLast
<1>4. QED
  BY <1>1, <1>2, <1>3 DEF SatOf, BytesOf, oldValue, oldBytes, value, bytes

LEMMA ChangeSums ==
  ASSUME NEW c \in Nat
  PROVE  /\ Len(WithChange(c)) = 4 /\ SubSeq(WithChange(c), 1, 3) = BaseOutputs
         /\ WithChange(c)[4] = Change(c)
         /\ SatOf(WithChange(c)) = 2 * TARGET_POSTAGE_SAT + c
         /\ BytesOf(WithChange(c)) = 147
<1> DEFINE n == 3
           outs == WithChange(c)
<1> USE DEF WithChange
<1>1. /\ Len(outs) = 4 /\ DOMAIN outs = 1 .. n + 1 /\ DOMAIN BaseOutputs = 1 .. n
      /\ outs[n + 1] = Change(c) /\ n \in Nat /\ n + 1 = 4
  BY DEF BaseOutputs
<1>2. \A i \in 1 .. n : outs[i] = BaseOutputs[i]
  BY DEF BaseOutputs
<1>3. \A i \in 1 .. n : outs[i].value \in Int /\ OutputBytes(outs[i]) \in Int
  BY <1>2 DEF BaseOutputs, OutputBytes, TARGET_POSTAGE_SAT
<1>4. Change(c).value = c /\ OutputBytes(Change(c)) = 43
  BY DEF Change, OutputBytes
<1>5. SubSeq(outs, 1, 3) = BaseOutputs
  <2>1. SubSeq(outs, 1, 3) = [i \in 1 .. 3 |-> outs[i]]
    BY DEF BaseOutputs
  <2>2. BaseOutputs = [i \in 1 .. 3 |-> BaseOutputs[i]]
    BY DEF BaseOutputs
  <2>3. QED
    BY <1>2, <2>1, <2>2
<1> HIDE DEF n, outs, WithChange
<1>6. \A i \in 1 .. n + 1 : outs[i].value \in Int /\ OutputBytes(outs[i]) \in Int
  <2>1. \A i \in 1 .. n + 1 : i \in 1 .. n \/ i = n + 1
    BY <1>1
  <2>2. QED
    BY <1>1, <1>3, <1>4, <2>1
<1>7. /\ SatOf(outs) = SatOf(BaseOutputs) + outs[n + 1].value
      /\ BytesOf(outs) = BytesOf(BaseOutputs) + OutputBytes(outs[n + 1])
  BY <1>1, <1>2, <1>6, SumsOfAppend
<1>8. QED
  BY <1>1, <1>4, <1>5, <1>7, BaseSums DEF outs

(* The estimate for the outputs without change counts a change output, and *)
(* is the estimate for the outputs with change.                            *)
LEMMA Estimates ==
  ASSUME NEW n \in Nat
  PROVE  /\ estimate_size(n, BaseOutputs, TRUE) \in Nat
         /\ estimate_size(n, BaseOutputs, TRUE) > 0
         /\ \A c \in Nat : estimate_size(n, WithChange(c), FALSE)
                             = estimate_size(n, BaseOutputs, TRUE)
<1> DEFINE size == (4 * (10 + 41 * n + 147) + 2 + 252 * n + 3) \div 4
<1>1. estimate_size(n, BaseOutputs, TRUE) = size
  <2>1. estimate_size(n, BaseOutputs, TRUE) =
          (4 * (10 + 41 * n + BytesOf(BaseOutputs) + 43) + 2 + 252 * n + 3) \div 4
    BY DEF estimate_size, BytesOf
  <2>2. 10 + 41 * n + 104 + 43 = 10 + 41 * n + 147
    OBVIOUS
  <2>3. QED
    BY <2>1, <2>2, BaseSums
<1>2. ASSUME NEW c \in Nat
      PROVE  estimate_size(n, WithChange(c), FALSE) = size
  <2>1. estimate_size(n, WithChange(c), FALSE) =
          (4 * (10 + 41 * n + BytesOf(WithChange(c)) + 0) + 2 + 252 * n + 3) \div 4
    BY DEF estimate_size, BytesOf
  <2>2. 10 + 41 * n + 147 + 0 = 10 + 41 * n + 147
    OBVIOUS
  <2>3. BytesOf(WithChange(c)) = 147
    BY ChangeSums
  <2>4. QED
    BY <2>1, <2>2, <2>3
<1>3. size \in Nat /\ size > 0
  OBVIOUS
<1>4. QED
  BY <1>1, <1>2, <1>3

LEMMA SelectionInitInv ==
  SelectionInit => SelectionInv
<1> SUFFICES ASSUME SelectionInit
             PROVE  SelectionInv
  OBVIOUS
<1> USE DEF SelectionInit
<1>1. utxos \in list_utxos /\ Len(utxos) \in Nat
  BY ListedUtxos
<1>2. outputs = BaseOutputs
  BY DEF BaseOutputs
<1>3. outputs \in Seq([value : Nat, to : Recipient])
  <2>1. TARGET_POSTAGE_SAT \in Nat /\ {"runestone", "wallet", "receiver"} \subseteq Recipient
    BY DEF TARGET_POSTAGE_SAT, Recipient
  <2>2. QED
    BY <2>1
<1>4. SelectionTypeOK
  <2>1. next \in 1 .. Len(utxos) + 1
    BY <1>1
  <2>2. inputs \in Seq(DOMAIN utxos)
    OBVIOUS
  <2>3. QED
    BY <1>1, <1>3, <2>1, <2>2 DEF SelectionTypeOK
<1>5. DOMAIN inputs = {}
  OBVIOUS
<1>6. InputInvariant /\ PassInv /\ AddedInv /\ ShortInv
  BY <1>4, <1>5 DEF InputInvariant, InputsAreDistinct, InputsAreSafe, PassInv, AddedInv, ShortInv
<1>7. CoverInv
  <2>1. InputRunes = 0
    BY <1>5, SumOfNone DEF InputRunes, RunesAt
  <2>2. amount > 0
    BY <1>4, TypedSelection
  <2>3. QED
    BY <2>1, <2>2 DEF CoverInv
<1>8. FundedInv
  BY <1>2 DEF FundedInv
<1>9. QED
  BY <1>6, <1>7, <1>8 DEF SelectionInv

(* Steps that add no input keep what is known of the inputs. *)
LEMMA SameInputs ==
  ASSUME SelectionInv, UNCHANGED <<utxos, amount, rate, inputs, outputs>>,
         next' \in 1 .. Len(utxos) + 1, stage' \in {"runes", "fund", "add_change"} \/ Done'
  PROVE  /\ InputInvariant'
         /\ Covered' <=> Covered
         /\ InputRunes' = InputRunes /\ InputSat' = InputSat
         /\ Funded' <=> Funded
<1> USE DEF SelectionInv, InputInvariant
<1>1. SelectionTypeOK'
  BY DEF SelectionTypeOK
<1>2. InputsAreDistinct' /\ InputsAreSafe'
  BY DEF InputsAreDistinct, InputsAreSafe
<1>3. RunesAt' = RunesAt /\ InputSat' = InputSat /\ OutputSat' = OutputSat /\ FeeSat' = FeeSat
  BY DEF RunesAt, InputSat, OutputSat, FeeSat
<1>4. InputRunes' = InputRunes /\ (Funded' <=> Funded)
  BY <1>3 DEF InputRunes, Funded
<1>5. ForRunes' = ForRunes
  BY <1>3 DEF ForRunes
<1>6. Covered' <=> Covered
  BY <1>3, <1>5 DEF Covered
<1>7. QED
  BY <1>1, <1>2, <1>3, <1>4, <1>6

(* One more input, of an output that has been looked at. *)
LEMMA OneMoreInput ==
  ASSUME SelectionTypeOK, next <= Len(utxos), inputs' = Append(inputs, next),
         UNCHANGED <<utxos, amount, rate, outputs>>,
         next' \in 1 .. Len(utxos) + 1, stage' \in {"runes", "fund"}
  PROVE  /\ SelectionTypeOK'
         /\ next \in DOMAIN utxos /\ utxos[next] \in Utxo
         /\ DOMAIN inputs = 1 .. Len(inputs) /\ DOMAIN inputs' = 1 .. Len(inputs) + 1
         /\ Len(inputs) \in Nat /\ inputs'[Len(inputs) + 1] = next
         /\ \A i \in DOMAIN inputs : inputs'[i] = inputs[i] /\ RunesAt'[i] = RunesAt[i]
         /\ RunesAt'[Len(inputs) + 1] = utxos[next].runes
         /\ InputRunes' = InputRunes + utxos[next].runes
<1>1. /\ inputs \in Seq(DOMAIN utxos) /\ Len(inputs) \in Nat /\ DOMAIN inputs = 1 .. Len(inputs)
      /\ next \in DOMAIN utxos /\ utxos[next] \in Utxo
      /\ \A i \in DOMAIN inputs : utxos[inputs[i]] \in Utxo
  BY TypedSelection
<1>2. /\ inputs' \in Seq(DOMAIN utxos) /\ Len(inputs') = Len(inputs) + 1
      /\ DOMAIN inputs' = 1 .. Len(inputs) + 1 /\ inputs'[Len(inputs) + 1] = next
      /\ \A i \in DOMAIN inputs : inputs'[i] = inputs[i]
  BY <1>1
<1>3. SelectionTypeOK'
  BY <1>2 DEF SelectionTypeOK
<1>4. /\ DOMAIN RunesAt = 1 .. Len(inputs) /\ DOMAIN RunesAt' = 1 .. Len(inputs) + 1
      /\ \A i \in DOMAIN inputs : RunesAt'[i] = RunesAt[i]
      /\ RunesAt'[Len(inputs) + 1] = utxos[next].runes
  BY <1>1, <1>2 DEF RunesAt
<1>5. \A i \in 1 .. Len(inputs) + 1 : RunesAt'[i] \in Int
  <2>1. \A i \in 1 .. Len(inputs) : RunesAt'[i] = utxos[inputs[i]].runes
    BY <1>1, <1>2, <1>4 DEF RunesAt
  <2>2. \A i \in 1 .. Len(inputs) : RunesAt'[i] \in Int
    <3>1. ASSUME NEW i \in 1 .. Len(inputs)
          PROVE  utxos[inputs[i]].runes \in Int
      <4>1. utxos[inputs[i]] \in Utxo
        BY <1>1
      <4>2. QED
        BY <4>1, UtxoTyped
    <3>2. QED
      BY <2>1, <3>1
  <2>3. utxos[next].runes \in Int
    BY <1>1, UtxoTyped
  <2>4. \A i \in 1 .. Len(inputs) + 1 : i \in 1 .. Len(inputs) \/ i = Len(inputs) + 1
    BY <1>1
  <2>5. QED
    BY <1>4, <2>2, <2>3, <2>4
<1>6. SumFunction(RunesAt') = SumFunction(RunesAt) + RunesAt'[Len(inputs) + 1]
  BY <1>1, <1>4, <1>5, SumOfLast
<1>7. QED
  BY <1>1, <1>2, <1>3, <1>4, <1>6 DEF InputRunes

LEMMA SkipForRunesInv ==
  ASSUME SelectionInv, SkipForRunes
  PROVE  SelectionInv'
<1> USE DEF SkipForRunes
<1>1. SelectionTypeOK
  BY DEF SelectionInv, InputInvariant
<1>2. next' \in 1 .. Len(utxos) + 1 /\ next < next' /\ next \in Nat
  BY <1>1, TypedSelection
<1>3. InputInvariant' /\ InputRunes' = InputRunes
  BY <1>2, SameInputs
<1>4. PassInv'
  BY <1>1, <1>2, TypedSelection DEF SelectionInv, PassInv
<1>5. CoverInv' /\ AddedInv' /\ ShortInv' /\ FundedInv'
  BY <1>3 DEF SelectionInv, CoverInv, AddedInv, ShortInv, FundedInv
<1>6. QED
  BY <1>3, <1>4, <1>5 DEF SelectionInv

LEMMA AddForRunesInv ==
  ASSUME SelectionInv, AddForRunes
  PROVE  SelectionInv'
<1> DEFINE n == Len(inputs)
<1> USE DEF AddForRunes
<1>1. /\ SelectionTypeOK /\ InputsAreDistinct /\ InputsAreSafe /\ PassInv /\ CoverInv
      /\ stage = "runes" /\ next <= Len(utxos)
  BY DEF SelectionInv, InputInvariant
<1>2. /\ next \in Nat /\ Len(utxos) \in Nat /\ 1 <= next /\ amount \in Nat
      /\ InputRunes \in Nat
  BY <1>1, TypedSelection, SumsAreNat
<1>3. next' \in 1 .. Len(utxos) + 1 /\ stage' \in {"runes", "fund"}
  BY <1>1, <1>2
<1>4. /\ SelectionTypeOK'
      /\ next \in DOMAIN utxos /\ utxos[next] \in Utxo
      /\ DOMAIN inputs = 1 .. n /\ DOMAIN inputs' = 1 .. n + 1
      /\ n \in Nat /\ inputs'[n + 1] = next
      /\ \A i \in DOMAIN inputs : inputs'[i] = inputs[i] /\ RunesAt'[i] = RunesAt[i]
      /\ RunesAt'[n + 1] = utxos[next].runes
      /\ InputRunes' = InputRunes + utxos[next].runes
  BY <1>1, <1>3, OneMoreInput
<1>5. /\ utxos[next].runes \in Nat /\ utxos[next].runes > 0
      /\ utxos[next].witnessScript /\ utxos[next].indexed
      /\ utxos[next].change \/ utxos[next].confirmations >= MinConfirmations
  BY <1>4, UtxoTyped DEF UsableForRunes, Unindexed
<1> HIDE DEF n
<1>6. \A i \in 1 .. n + 1 : i \in 1 .. n \/ i = n + 1
  BY <1>4
<1>7. \A i \in 1 .. n : inputs[i] < next /\ utxos[inputs[i]].runes > 0 /\ inputs[i] \in Nat
  <2>1. \A i \in DOMAIN inputs : inputs[i] \in DOMAIN utxos /\ DOMAIN utxos = 1 .. Len(utxos)
    BY <1>1, TypedSelection
  <2>2. \A i \in 1 .. n : inputs[i] \in Nat
    BY <1>4, <2>1
  <2>3. QED
    BY <1>1, <1>4, <2>2 DEF PassInv
<1>8. InputsAreDistinct'
  <2>1. ASSUME NEW i \in 1 .. n + 1, NEW j \in 1 .. n + 1, inputs'[i] = inputs'[j]
        PROVE  i = j
    <3>1. CASE i \in 1 .. n /\ j \in 1 .. n
      BY <1>1, <1>4, <2>1, <3>1 DEF InputsAreDistinct
    <3>2. \A m \in 1 .. n : inputs'[m] # next
      BY <1>2, <1>4, <1>7
    <3>3. QED
      BY <1>4, <1>6, <2>1, <3>1, <3>2
  <2>2. QED
    BY <1>4, <2>1 DEF InputsAreDistinct
<1>9. InputsAreSafe'
  BY <1>1, <1>4, <1>5, <1>6 DEF InputsAreSafe
<1>10. PassInv'
  <2>1. stage' = "runes" => next' = next + 1
    BY <1>1
  <2>2. ASSUME NEW i \in 1 .. n + 1
        PROVE  /\ utxos'[inputs'[i]].runes > 0 /\ utxos'[inputs'[i]].runes # 0
               /\ stage' = "runes" => inputs'[i] < next'
    <3>1. CASE i = n + 1
      BY <1>2, <1>4, <1>5, <2>1, <3>1
    <3>2. CASE i \in 1 .. n
      <4>1. inputs'[i] = inputs[i] /\ utxos[inputs[i]].runes \in Nat
        BY <1>1, <1>4, <3>2, TypedSelection, UtxoTyped
      <4>2. QED
        BY <1>2, <1>7, <2>1, <3>2, <4>1
    <3>3. QED
      BY <1>6, <3>1, <3>2
  <2>3. QED
    BY <1>4, <2>2 DEF PassInv
<1>11. AddedInv' /\ ShortInv' /\ FundedInv'
  <2>1. stage' = "fund" => next' = 1
    BY <1>1
  <2>2. stage' = "fund" => \A k \in DOMAIN utxos' : ~(k < next')
    BY <1>1, <2>1, TypedSelection
  <2>3. AddedInv'
    BY <1>3, <2>2 DEF AddedInv
  <2>4. QED
    BY <1>1, <1>3, <2>3 DEF SelectionInv, ShortInv, FundedInv
<1>12. CoverInv'
  <2>1. CASE InputRunes + utxos[next].runes >= amount
    <3>1. ForRunes' = 1 .. n + 1 /\ DOMAIN RunesAt' = 1 .. n + 1 /\ DOMAIN RunesAt = 1 .. n
      <4>1. DOMAIN RunesAt' = 1 .. n + 1 /\ DOMAIN RunesAt = 1 .. n
        BY <1>4 DEF RunesAt
      <4>2. \A i \in 1 .. n : RunesAt'[i] > 0
        BY <1>4, <1>7 DEF RunesAt
      <4>3. QED
        BY <1>4, <1>5, <1>6, <4>1, <4>2 DEF ForRunes
    <3>2. SumFunctionOnSet(RunesAt', ForRunes') >= amount'
      BY <1>4, <2>1, <3>1 DEF InputRunes, SumFunction
    <3>3. (1 .. n + 1) \ {n + 1} = 1 .. n
      BY <1>4
    <3>4. SumFunctionOnSet(RunesAt', 1 .. n) = SumFunctionOnSet(RunesAt, 1 .. n)
      <4>1. IsFiniteSet(1 .. n)
        BY <1>4, FS_Interval
      <4>2. \A i \in 1 .. n : RunesAt'[i] = RunesAt[i]
        BY <1>4
      <4>3. QED
        BY <4>1, <4>2, SumCongruence
    <3>5. SumFunctionOnSet(RunesAt, 1 .. n) < amount
      BY <1>1, <3>1 DEF CoverInv, InputRunes, SumFunction
    <3>6. n + 1 \in ForRunes' /\ SumFunctionOnSet(RunesAt', ForRunes' \ {n + 1}) < amount'
      <4>1. n + 1 \in 1 .. n + 1
        BY <1>4
      <4>2. QED
        BY <3>1, <3>3, <3>4, <3>5, <4>1
    <3>7. Covered'
      BY <3>2, <3>6 DEF Covered
    <3>8. stage' = "fund"
      BY <2>1
    <3>9. QED
      BY <3>7, <3>8 DEF CoverInv
  <2>2. CASE ~(InputRunes + utxos[next].runes >= amount)
    <3>1. stage' = "runes"
      BY <1>1, <2>2
    <3>2. InputRunes' < amount'
      BY <1>2, <1>4, <1>5, <2>2
    <3>3. QED
      BY <3>1, <3>2 DEF CoverInv
  <2>3. QED
    BY <2>1, <2>2
<1>13. QED
  BY <1>4, <1>8, <1>9, <1>10, <1>11, <1>12 DEF SelectionInv, InputInvariant

LEMMA RaisesInv ==
  ASSUME SelectionInv,
         \/ InsufficientRuneBalance \/ UnindexedForRunes
         \/ InsufficientBTCBalance \/ UnindexedForFee \/ TooManyInputs
  PROVE  SelectionInv'
<1>1. /\ UNCHANGED <<utxos, amount, rate, next, inputs, outputs>>
      /\ stage' \in {"InsufficientRuneBalanceError", "InsufficientBTCBalanceError",
                     "UnindexedOutput", "RuntimeError"}
      /\ stage # "built"
      /\ stage' = "InsufficientBTCBalanceError" =>
             stage = "fund" /\ ~Funded /\ next > Len(utxos)
  BY DEF InsufficientRuneBalance, UnindexedForRunes, InsufficientBTCBalance, UnindexedForFee,
     TooManyInputs, Raise
<1>2. SelectionTypeOK
  BY DEF SelectionInv, InputInvariant
<1>3. next' \in 1 .. Len(utxos) + 1 /\ Done'
  BY <1>1, <1>2 DEF Done, SelectionTypeOK
<1>4. InputInvariant' /\ (Funded' <=> Funded)
  BY <1>1, <1>3, SameInputs
<1>5. PassInv' /\ CoverInv'
  BY <1>1 DEF PassInv, CoverInv
<1>6. AddedInv'
  BY <1>1 DEF SelectionInv, AddedInv
<1>7. ShortInv' /\ FundedInv'
  BY <1>1, <1>4 DEF SelectionInv, ShortInv, FundedInv
<1>8. QED
  BY <1>4, <1>5, <1>6, <1>7 DEF SelectionInv

LEMMA StopFundingInv ==
  ASSUME SelectionInv, StopFunding
  PROVE  SelectionInv'
<1> USE DEF StopFunding
<1>1. next' \in 1 .. Len(utxos) + 1
  BY DEF SelectionInv, InputInvariant, SelectionTypeOK
<1>2. InputInvariant' /\ (Covered' <=> Covered) /\ (Funded' <=> Funded)
  BY <1>1, SameInputs
<1>3. PassInv' /\ AddedInv' /\ ShortInv'
  BY DEF PassInv, AddedInv, ShortInv
<1>4. CoverInv' /\ FundedInv'
  BY <1>2 DEF SelectionInv, CoverInv, FundedInv
<1>5. QED
  BY <1>2, <1>3, <1>4 DEF SelectionInv

LEMMA SkipForFeeInv ==
  ASSUME SelectionInv, SkipForFee
  PROVE  SelectionInv'
<1> USE DEF SkipForFee
<1>1. SelectionTypeOK
  BY DEF SelectionInv, InputInvariant
<1>2. /\ next' \in 1 .. Len(utxos) + 1 /\ next < next' /\ next \in Nat
      /\ next' = next + 1 /\ DOMAIN utxos = 1 .. Len(utxos)
  BY <1>1, TypedSelection
<1>3. InputInvariant' /\ (Covered' <=> Covered)
  BY <1>2, SameInputs
<1>4. PassInv'
  <2>1. \A i \in DOMAIN inputs : inputs[i] \in DOMAIN utxos
    BY <1>1, TypedSelection
  <2>2. \A i \in DOMAIN inputs : inputs[i] \in Nat
    BY <1>2, <2>1
  <2>3. QED
    BY <1>2, <2>2 DEF SelectionInv, PassInv
<1>5. AddedInv'
  <2>1. \A k \in DOMAIN utxos : k < next' => k < next \/ k = next
    BY <1>2
  <2>2. QED
    BY <2>1 DEF SelectionInv, AddedInv
<1>6. CoverInv' /\ ShortInv' /\ FundedInv'
  BY <1>3 DEF SelectionInv, CoverInv, ShortInv, FundedInv
<1>7. QED
  BY <1>3, <1>4, <1>5, <1>6 DEF SelectionInv

(* An output without runes leaves the sums over the others as they are. *)
LEMMA AddForFeeInv ==
  ASSUME SelectionInv, AddForFee
  PROVE  SelectionInv'
<1> DEFINE n == Len(inputs)
<1> USE DEF AddForFee
<1>1. /\ SelectionTypeOK /\ InputsAreDistinct /\ InputsAreSafe /\ PassInv /\ AddedInv /\ Covered
      /\ stage = "fund" /\ stage' = "fund" /\ next <= Len(utxos) /\ next' = next + 1
      /\ utxos' = utxos
  BY DEF SelectionInv, InputInvariant, CoverInv
<1>2. /\ next \in Nat /\ Len(utxos) \in Nat /\ 1 <= next /\ DOMAIN utxos = 1 .. Len(utxos)
      /\ next' \in 1 .. Len(utxos) + 1
  BY <1>1, TypedSelection
<1>3. /\ SelectionTypeOK'
      /\ next \in DOMAIN utxos /\ utxos[next] \in Utxo
      /\ DOMAIN inputs = 1 .. n /\ DOMAIN inputs' = 1 .. n + 1
      /\ n \in Nat /\ inputs'[n + 1] = next
      /\ \A i \in DOMAIN inputs : inputs'[i] = inputs[i] /\ RunesAt'[i] = RunesAt[i]
      /\ RunesAt'[n + 1] = utxos[next].runes
  BY <1>1, <1>2, OneMoreInput
<1>4. /\ utxos[next].runes = 0 /\ ~utxos[next].otherRunes
      /\ utxos[next].witnessScript /\ utxos[next].indexed
  <2>1. utxos[next].runes \in Nat
    BY <1>3, UtxoTyped
  <2>2. QED
    BY <2>1 DEF UsableForFee, HasRunes, Unindexed
<1> HIDE DEF n
<1>5. \A i \in 1 .. n + 1 : i \in 1 .. n \/ i = n + 1
  BY <1>3
<1>6. \A i \in 1 .. n : inputs[i] \in DOMAIN utxos /\ inputs[i] \in Nat
  <2>1. \A i \in DOMAIN inputs : inputs[i] \in DOMAIN utxos
    BY <1>1, TypedSelection
  <2>2. QED
    BY <1>2, <1>3, <2>1
<1>7. \A i \in 1 .. n : utxos[inputs[i]].runes = 0 => inputs[i] < next
  BY <1>1, <1>3 DEF PassInv
<1>8. \A i \in 1 .. n : inputs[i] # next
  BY <1>2, <1>4, <1>6, <1>7
<1>9. InputsAreDistinct'
  <2>1. ASSUME NEW i \in 1 .. n + 1, NEW j \in 1 .. n + 1, inputs'[i] = inputs'[j]
        PROVE  i = j
    BY <1>1, <1>3, <1>5, <1>8, <2>1 DEF InputsAreDistinct
  <2>2. QED
    BY <1>3, <2>1 DEF InputsAreDistinct
<1>10. InputsAreSafe'
  BY <1>1, <1>3, <1>4, <1>5 DEF InputsAreSafe
<1>11. PassInv'
  <2>1. ASSUME NEW i \in 1 .. n + 1, utxos[inputs'[i]].runes = 0
        PROVE  inputs'[i] < next'
    <3>1. CASE i = n + 1
      BY <1>1, <1>2, <1>3, <3>1
    <3>2. CASE i \in 1 .. n
      BY <1>1, <1>2, <1>3, <1>6, <1>7, <2>1, <3>2
    <3>3. QED
      BY <1>5, <3>1, <3>2
  <2>2. QED
    BY <1>1, <1>3, <2>1 DEF PassInv
<1>12. AddedInv'
  <2>1. ASSUME NEW k \in DOMAIN utxos, k < next', UsableForFee(utxos[k])
        PROVE  \E i \in 1 .. n + 1 : inputs'[i] = k
    <3>1. CASE k < next
      <4>1. PICK i \in 1 .. n : inputs[i] = k
        BY <1>1, <1>3, <2>1, <3>1 DEF AddedInv
      <4>2. i \in 1 .. n + 1 /\ inputs'[i] = k
        BY <1>3, <4>1
      <4>3. QED
        BY <4>2
    <3>2. CASE k = next
      <4>1. n + 1 \in 1 .. n + 1
        BY <1>3
      <4>2. QED
        BY <1>3, <3>2, <4>1
    <3>3. k \in Nat
      BY <1>2
    <3>4. k < next \/ k = next
      BY <1>1, <1>2, <2>1, <3>3
    <3>5. QED
      BY <3>1, <3>2, <3>4
  <2>2. QED
    BY <1>1, <1>3, <2>1 DEF AddedInv, UsableForFee, HasRunes
<1>13. Covered'
  <2>1. DOMAIN RunesAt' = 1 .. n + 1 /\ DOMAIN RunesAt = 1 .. n
    BY <1>3 DEF RunesAt
  <2>2. ~(RunesAt'[n + 1] > 0)
    BY <1>3, <1>4
  <2>3. ForRunes' = ForRunes
    BY <1>3, <1>5, <2>2 DEF ForRunes
  <2>4. ASSUME NEW S \in SUBSET ForRunes
        PROVE  SumFunctionOnSet(RunesAt', S) = SumFunctionOnSet(RunesAt, S)
    <3>1. S \subseteq 1 .. n
      BY <1>3 DEF ForRunes
    <3>2. IsFiniteSet(1 .. n)
      BY <1>3, FS_Interval
    <3>3. IsFiniteSet(S)
      BY <3>1, <3>2, FS_Subset
    <3>4. \A i \in S : RunesAt'[i] = RunesAt[i]
      BY <1>3, <3>1
    <3>5. QED
      BY <3>3, <3>4, SumCongruence
  <2>5. PICK i \in ForRunes : SumFunctionOnSet(RunesAt, ForRunes \ {i}) < amount
    BY <1>1 DEF Covered
  <2>6. /\ SumFunctionOnSet(RunesAt', ForRunes) = SumFunctionOnSet(RunesAt, ForRunes)
        /\ SumFunctionOnSet(RunesAt', ForRunes \ {i}) = SumFunctionOnSet(RunesAt, ForRunes \ {i})
    BY <2>4
  <2>7. SumFunctionOnSet(RunesAt, ForRunes) >= amount
    BY <1>1 DEF Covered
  <2>8. QED
    BY <2>3, <2>5, <2>6, <2>7 DEF Covered
<1>14. CoverInv' /\ ShortInv' /\ FundedInv'
  BY <1>1, <1>13 DEF SelectionInv, CoverInv, ShortInv, FundedInv
<1>15. QED
  BY <1>3, <1>9, <1>10, <1>11, <1>12, <1>14 DEF SelectionInv, InputInvariant

(* The change is what is left of the inputs, and nothing if nothing is left. *)
LEMMA AddChangeInv ==
  ASSUME SelectionInv, AddChange
  PROVE  SelectionInv'
<1> DEFINE change == InputSat - OutputSat - FeeSat
<1> USE DEF AddChange
<1>1. /\ SelectionTypeOK /\ InputsAreDistinct /\ InputsAreSafe /\ Covered
      /\ Funded /\ outputs = BaseOutputs
      /\ stage' = "built" /\ UNCHANGED <<utxos, amount, rate, next, inputs>>
      /\ outputs' = IF change > 0 THEN Append(outputs, Change(change)) ELSE outputs
  BY DEF SelectionInv, InputInvariant, CoverInv, FundedInv, Change
<1> DEFINE estimate == estimate_size(Len(inputs), BaseOutputs, TRUE)
<1>2. BaseFee = estimate * rate /\ BaseFee \in Nat
  <2>1. Len(inputs) \in Nat /\ rate \in Nat
    BY <1>1, TypedSelection
  <2>2. estimate \in Nat
    BY <2>1, Estimates
  <2> HIDE DEF estimate
  <2>3. estimate * rate \in Nat
    BY <2>1, <2>2
  <2>4. QED
    BY <2>3 DEF BaseFee, estimate
<1>3. FeeSat = BaseFee /\ OutputSat = 2 * TARGET_POSTAGE_SAT
  BY <1>1, BaseSums DEF FeeSat, BaseFee, OutputSat, SatOf
<1>4. /\ InputSat \in Nat /\ NeededSat \in Nat /\ TARGET_POSTAGE_SAT \in Nat
      /\ DUST_SAT \in Nat /\ DUST_SAT > 0
      /\ NeededSat = 2 * TARGET_POSTAGE_SAT + BaseFee
  <2>1. /\ TARGET_POSTAGE_SAT \in Nat /\ DUST_SAT \in Nat /\ DUST_SAT > 0
        /\ InputSat \in Nat /\ BaseFee \in Nat
    <3>1. TARGET_POSTAGE_SAT \in Nat /\ DUST_SAT \in Nat /\ DUST_SAT > 0
      BY DEF TARGET_POSTAGE_SAT, DUST_SAT
    <3>2. InputSat \in Nat
      BY <1>1, SumsAreNat
    <3>3. QED
      BY <1>2, <3>1, <3>2
  <2>2. NeededSat = 2 * TARGET_POSTAGE_SAT + BaseFee
    BY DEF NeededSat
  <2>3. QED
    BY <2>1, <2>2
<1>5. InputSat = NeededSat \/ InputSat >= NeededSat + DUST_SAT
  BY <1>1, <1>3, <1>4 DEF Funded
<1>6. change = InputSat - NeededSat
  <2>1. BaseFee \in Nat
    BY <1>2
  <2>2. QED
    BY <1>3, <1>4, <2>1
<1> HIDE DEF change, estimate
<1>7. InputSat' = InputSat /\ NeededSat' = NeededSat /\ RunesAt' = RunesAt
  BY <1>1 DEF InputSat, NeededSat, BaseFee, BaseOutputs, RunesAt
<1>8. FundedInv' /\ outputs' \in Seq([value : Nat, to : Recipient])
  <2>1. outputs \in Seq([value : Nat, to : Recipient])
    BY <1>1 DEF SelectionTypeOK
  <2>2. CASE InputSat = NeededSat
    <3>1. change = 0
      BY <1>4, <1>6, <2>2
    <3>2. outputs' = BaseOutputs
      BY <1>1, <3>1
    <3>3. BaseOutputs' = BaseOutputs
      BY DEF BaseOutputs
    <3>4. QED
      BY <1>1, <1>7, <2>1, <2>2, <3>2, <3>3 DEF FundedInv
  <2>3. CASE InputSat >= NeededSat + DUST_SAT
    <3>1. change \in Nat /\ change > 0 /\ change >= DUST_SAT /\ InputSat = NeededSat + change
      BY <1>4, <1>6, <2>3
    <3>2. outputs' = WithChange(change)
      BY <1>1, <3>1 DEF WithChange
    <3>3. PICK c \in Nat : c = change
      BY <3>1
    <3>4. c >= DUST_SAT /\ outputs' = WithChange(c) /\ InputSat' = NeededSat' + c
      BY <1>7, <3>1, <3>2, <3>3
    <3>5. WithChange(c)' = WithChange(c) /\ DUST_SAT' = DUST_SAT
      BY DEF WithChange, BaseOutputs, Change, DUST_SAT
    <3>6. FundedInv'
      BY <1>1, <3>4, <3>5 DEF FundedInv
    <3>7. Change(c) \in [value : Nat, to : Recipient]
      BY DEF Change, Recipient
    <3>8. outputs' = Append(outputs, Change(c))
      BY <1>1, <3>4 DEF WithChange
    <3>9. \A S : \A seq \in Seq(S) : \A e \in S : Append(seq, e) \in Seq(S)
      OBVIOUS
    <3>10. Append(outputs, Change(c)) \in Seq([value : Nat, to : Recipient])
      BY <2>1, <3>7, <3>9, Zenon
    <3>11. QED
      BY <3>6, <3>8, <3>10
  <2>4. QED
    BY <1>5, <2>2, <2>3
<1>9. SelectionTypeOK'
  BY <1>1, <1>8 DEF SelectionTypeOK, Done
<1>10. InputsAreDistinct' /\ InputsAreSafe'
  BY <1>1 DEF InputsAreDistinct, InputsAreSafe
<1>11. CoverInv'
  <2>1. ForRunes' = ForRunes
    BY <1>1, <1>7 DEF ForRunes
  <2>2. Covered'
    BY <1>1, <1>7, <2>1 DEF Covered
  <2>3. QED
    BY <1>1, <2>2 DEF CoverInv
<1>12. PassInv' /\ AddedInv' /\ ShortInv'
  BY <1>1 DEF PassInv, AddedInv, ShortInv
<1>13. QED
  BY <1>8, <1>9, <1>10, <1>11, <1>12 DEF SelectionInv, InputInvariant

LEMMA SelectionNextInv ==
  SelectionInv /\ [SelectionNext]_selectionVars => SelectionInv'
<1> SUFFICES ASSUME SelectionInv, [SelectionNext]_selectionVars
             PROVE  SelectionInv'
  OBVIOUS
<1>1. CASE SkipForRunes
  BY <1>1, SkipForRunesInv
<1>2. CASE AddForRunes
  BY <1>2, AddForRunesInv
<1>3. CASE \/ InsufficientRuneBalance \/ UnindexedForRunes
           \/ InsufficientBTCBalance \/ UnindexedForFee \/ TooManyInputs
  BY <1>3, RaisesInv
<1>4. CASE StopFunding
  BY <1>4, StopFundingInv
<1>5. CASE SkipForFee
  BY <1>5, SkipForFeeInv
<1>6. CASE AddForFee
  BY <1>6, AddForFeeInv
<1>7. CASE AddChange
  BY <1>7, AddChangeInv
<1>8. CASE UNCHANGED selectionVars
  <2>1. /\ UNCHANGED <<utxos, amount, rate, inputs, outputs>> /\ stage' = stage /\ next' = next
        /\ SelectionTypeOK
    BY <1>8 DEF selectionVars, SelectionInv, InputInvariant
  <2>2. next' \in 1 .. Len(utxos) + 1 /\ (stage' \in {"runes", "fund", "add_change"} \/ Done')
    BY <2>1 DEF SelectionTypeOK, Done
  <2>3. /\ InputInvariant' /\ (Covered' <=> Covered)
        /\ InputRunes' = InputRunes /\ InputSat' = InputSat /\ (Funded' <=> Funded)
    BY <2>1, <2>2, SameInputs
  <2>4. PassInv' /\ AddedInv' /\ ShortInv' /\ CoverInv'
    BY <2>1, <2>3 DEF SelectionInv, PassInv, AddedInv, ShortInv, CoverInv
  <2>5. FundedInv'
    BY <2>1, <2>3 DEF SelectionInv, FundedInv, NeededSat, BaseFee
  <2>6. QED
    BY <2>3, <2>4, <2>5 DEF SelectionInv
<1>9. QED
  BY <1>1, <1>2, <1>3, <1>4, <1>5, <1>6, <1>7, <1>8 DEF SelectionNext

LEMMA SelectionInvariant ==
  SelectionSpec => []SelectionInv
BY SelectionInitInv, SelectionNextInv, PTL DEF SelectionSpec

(* No selection spends an output twice, an output that is not indexed, a    *)
(* user's output before it is confirmed, or one with other runes only: what *)
(* the second loop adds, the first one has not added.                       *)
THEOREM SelectionSpendsSafely == SelectionSpec => []InputInvariant
<1>1. SelectionInv => InputInvariant
  BY DEF SelectionInv
<1>2. QED
  BY <1>1, SelectionInvariant, PTL

(* What create_rune_psbt builds spends enough runes for the transfer, and   *)
(* none too many.                                                           *)
THEOREM SelectionCoversTransfer == SelectionSpec => []RunesAreCovered
<1>1. SelectionInv => RunesAreCovered
  BY DEF SelectionInv, CoverInv, Covered, ForRunes, RunesAreCovered
<1>2. QED
  BY <1>1, SelectionInvariant, PTL

(* A transaction spends its inputs to the last satoshi: postage, fee, and a *)
(* change above the dust limit.                                             *)
THEOREM SelectionSpendsAll == SelectionSpec => []BuiltIsFunded
<1>1. ASSUME SelectionInv, stage = "built"
      PROVE  BuiltIsFunded
  <2>1. /\ Len(inputs) \in Nat /\ rate \in Nat /\ DUST_SAT \in Nat
        /\ TARGET_POSTAGE_SAT \in Nat
    BY <1>1, TypedSelection DEF SelectionInv, InputInvariant, DUST_SAT, TARGET_POSTAGE_SAT
  <2>2. BaseFee \in Nat /\ NeededSat = 2 * TARGET_POSTAGE_SAT + BaseFee
    <3>1. estimate_size(Len(inputs), BaseOutputs, TRUE) \in Nat
      BY <2>1, Estimates
    <3>2. \A x, y \in Nat : x * y \in Nat
      OBVIOUS
    <3>3. QED
      BY <2>1, <3>1, <3>2 DEF BaseFee, NeededSat
  <2>3. OutputSat = SatOf(outputs)
    BY DEF OutputSat, SatOf
  <2>4. CASE outputs = BaseOutputs /\ InputSat = NeededSat
    <3>1. Len(BaseOutputs) = 3 /\ SubSeq(BaseOutputs, 1, 3) = BaseOutputs
      <4>1. SubSeq(BaseOutputs, 1, 3) = [i \in 1 .. 3 |-> BaseOutputs[i]]
        BY DEF BaseOutputs
      <4>2. BaseOutputs = [i \in 1 .. 3 |-> BaseOutputs[i]]
        BY DEF BaseOutputs
      <4>3. Len(BaseOutputs) = 3
        BY DEF BaseOutputs
      <4>4. QED
        BY <4>1, <4>2, <4>3
    <3>2. OutputSat = 2 * TARGET_POSTAGE_SAT
      BY <2>3, <2>4, BaseSums
    <3>3. InputSat = OutputSat + BaseFee
      BY <2>2, <2>4, <3>2
    <3>4. Len(outputs) # 4
      BY <2>4, <3>1
    <3>5. InputSat = OutputSat + estimate_size(Len(inputs), SubSeq(outputs, 1, 3), TRUE) * rate
      BY <2>4, <3>1, <3>3 DEF BaseFee
    <3>6. QED
      BY <3>4, <3>5 DEF BuiltIsFunded
  <2>5. CASE \E c \in Nat : /\ c >= DUST_SAT /\ outputs = WithChange(c)
                            /\ InputSat = NeededSat + c
    <3>1. PICK c \in Nat : /\ c >= DUST_SAT /\ outputs = WithChange(c)
                           /\ InputSat = NeededSat + c
      BY <2>5
    <3>2. /\ Len(outputs) = 4 /\ SubSeq(outputs, 1, 3) = BaseOutputs
          /\ outputs[4].value = c /\ OutputSat = 2 * TARGET_POSTAGE_SAT + c
      <4>1. outputs[4] = Change(c) /\ Change(c).value = c
        BY <3>1, ChangeSums DEF Change
      <4>2. QED
        BY <2>3, <3>1, <4>1, ChangeSums
    <3>3. InputSat = OutputSat + BaseFee
      BY <2>1, <2>2, <3>1, <3>2
    <3>4. QED
      BY <3>1, <3>2, <3>3 DEF BuiltIsFunded, BaseFee
  <2>6. QED
    BY <1>1, <2>4, <2>5 DEF SelectionInv, FundedInv
<1>2. SelectionInv => BuiltIsFunded
  BY <1>1 DEF BuiltIsFunded
<1>3. QED
  BY <1>2, SelectionInvariant, PTL

(* The other nodes accept the outputs and the fee of every transaction with *)
(* change, at every fee rate: their estimate of its size is the leader's.   *)
THEOREM SelectionIsAccepted == SelectionSpec => []PeersAcceptChange
<1>1. ASSUME SelectionInv, stage = "built", Len(outputs) = 4
      PROVE  PeersAccept
  <2>1. /\ Len(inputs) \in Nat /\ rate \in Nat /\ rate > 0 /\ TARGET_POSTAGE_SAT \in Nat
    BY <1>1, TypedSelection DEF SelectionInv, InputInvariant, TARGET_POSTAGE_SAT
  <2>2. Len(BaseOutputs) = 3
    BY DEF BaseOutputs
  <2>3. PICK c \in Nat : outputs = WithChange(c) /\ InputSat = NeededSat + c
    BY <1>1, <2>2 DEF SelectionInv, FundedInv
  <2>4. ValidOutputs(outputs)
    <3>1. /\ outputs[1] = BaseOutputs[1] /\ outputs[2] = BaseOutputs[2]
          /\ outputs[3] = BaseOutputs[3]
      BY <2>3 DEF WithChange, BaseOutputs
    <3>2. outputs[4].to = "wallet"
      <4>1. outputs[4] = Change(c)
        BY <2>3, ChangeSums
      <4>2. QED
        BY <4>1 DEF Change
    <3>3. QED
      BY <1>1, <3>1, <3>2 DEF ValidOutputs, BaseOutputs
  <2>5. /\ BaseFee \in Nat /\ BaseFee > 0
        /\ estimate_size(Len(inputs), outputs, FALSE) * rate = BaseFee
    <3> DEFINE estimate == estimate_size(Len(inputs), BaseOutputs, TRUE)
    <3>1. /\ estimate \in Nat /\ estimate > 0
          /\ estimate_size(Len(inputs), outputs, FALSE) = estimate
      BY <2>1, <2>3, Estimates
    <3>2. BaseFee = estimate * rate
      BY DEF BaseFee
    <3> HIDE DEF estimate
    <3>3. \A x, y \in Nat : x > 0 /\ y > 0 => x * y \in Nat /\ x * y > 0
      OBVIOUS
    <3>4. QED
      BY <2>1, <3>1, <3>2, <3>3
  <2>6. InputSat - OutputSat = BaseFee
    <3>1. OutputSat = 2 * TARGET_POSTAGE_SAT + c
      BY <2>3, ChangeSums DEF OutputSat, SatOf
    <3>2. QED
      BY <2>1, <2>3, <2>5, <3>1 DEF NeededSat
  <2>7. ValidFee(BaseFee, BaseFee)
    BY <2>5 DEF ValidFee
  <2>8. QED
    BY <2>4, <2>5, <2>6, <2>7 DEF PeersAccept
<1>2. SelectionInv => PeersAcceptChange
  BY <1>1 DEF PeersAcceptChange
<1>3. QED
  BY <1>2, SelectionInvariant, PTL

(* A transfer is refused for a lack of satoshis only when all outputs       *)
(* without runes together do not pay for it.                                *)
THEOREM SelectionShortageIsReal == SelectionSpec => []ShortageIsReal
<1>1. ASSUME SelectionInv, stage = "InsufficientBTCBalanceError"
      PROVE  ShortageIsReal
  <2>1. ~Funded /\ next > Len(utxos)
    BY <1>1 DEF SelectionInv, ShortInv
  <2>2. \A k \in DOMAIN utxos : k < next
    <3>1. /\ DOMAIN utxos = 1 .. Len(utxos) /\ Len(utxos) \in Nat /\ next \in Nat
      BY <1>1, TypedSelection DEF SelectionInv, InputInvariant
    <3>2. QED
      BY <2>1, <3>1
  <2>3. QED
    BY <1>1, <2>1, <2>2 DEF SelectionInv, AddedInv, ShortageIsReal
<1>2. SelectionInv => ShortageIsReal
  BY <1>1 DEF ShortageIsReal
<1>3. QED
  BY <1>2, SelectionInvariant, PTL

=============================================================================

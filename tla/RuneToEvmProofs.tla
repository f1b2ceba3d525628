--------------------------- MODULE RuneToEvmProofs ---------------------------
(***************************************************************************)
(* Proofs about RuneToEvm, for any federation, any set of deposits and any *)
(* number of leaders, restarts and governance transactions.                *)
(***************************************************************************)
EXTENDS RuneToEvm, TLAPS, FiniteSetTheorems, FunctionTheorems

(* What the loop has in its local variables while it handles a deposit *)
Handling == {"sign", "ask", "send", "sending", "sent", "own"}

LoopInv ==
    \A n \in Candidate :
        /\ pc[n] \in Handling => cur[n] \in Deposit
        /\ pc[n] = "sending" => numRequired[n] <= Len(signatures[n][cur[n]])

-----------------------------------------------------------------------------
LEMMA NumRequiredIsNat ==
  ASSUME NEW F, IsFiniteSet(F)
  PROVE  numRequiredFederators(F) \in Nat
BY FS_CardinalityType DEF numRequiredFederators

(* A list extended by c more elements of the same kind *)
LEMMA ExtendedList ==
  ASSUME NEW S, NEW s \in Seq(S), NEW c \in Nat, NEW g \in [1 .. c -> S]
  PROVE  /\ s \o g \in Seq(S)
         /\ Len(s \o g) = Len(s) + c
         /\ \A i \in DOMAIN (s \o g) :
               \/ i \in DOMAIN s /\ (s \o g)[i] = s[i]
               \/ i - Len(s) \in 1 .. c /\ (s \o g)[i] = g[i - Len(s)]
<1>1. g \in Seq(S) /\ Len(g) = c
  OBVIOUS
<1>2. QED
  BY <1>1

(* update_rune_deposit_signatures only adds answers it was given. *)
LEMMA ExtendedSignaturesAre ==
  ASSUME TypeOK, NEW n \in Candidate, NEW d \in Deposit, NEW s \in ExtendedSignatures(n, d)
  PROVE  /\ s \in Seq(Signature)
         /\ \A i \in DOMAIN s : \/ \E j \in DOMAIN signatures[n][d] : s[i] = signatures[n][d][j]
                                \/ \E j \in DOMAIN answers[n] : s[i] = answers[n][j]
<1> DEFINE new == NewAnswers(n, d)
           c == Cardinality(new)
<1>1. new \subseteq 1 .. Len(answers[n]) /\ answers[n] \in Seq(Signature)
  BY DEF NewAnswers, TypeOK
<1>2. IsFiniteSet(new)
  <2>1. Len(answers[n]) \in Int /\ 1 \in Int
    BY <1>1
  <2>2. IsFiniteSet(1 .. Len(answers[n]))
    BY <2>1, FS_Interval
  <2>3. QED
    BY <1>1, <2>2, FS_Subset
<1>3. c \in Nat
  BY <1>2, FS_CardinalityType
<1>4. PICK f \in [1 .. c -> new] :
         s = signatures[n][d] \o [k \in 1 .. c |-> answers[n][f[k]]]
  BY DEF ExtendedSignatures
<1> DEFINE g == [k \in 1 .. c |-> answers[n][f[k]]]
           old == signatures[n][d]
<1>5. \A k \in 1 .. c : f[k] \in DOMAIN answers[n] /\ g[k] = answers[n][f[k]]
  BY <1>1, <1>4
<1>6. g \in [1 .. c -> Signature]
  BY <1>1, <1>5
<1>7. old \in Seq(Signature) /\ s = old \o g
  BY <1>4 DEF TypeOK
<1>8. /\ s \in Seq(Signature)
      /\ \A i \in DOMAIN s : \/ i \in DOMAIN old /\ s[i] = old[i]
                             \/ i - Len(old) \in 1 .. c /\ s[i] = g[i - Len(old)]
  <2> HIDE DEF g, c, old
  <2>1. /\ old \o g \in Seq(Signature)
        /\ \A i \in DOMAIN (old \o g) :
              \/ i \in DOMAIN old /\ (old \o g)[i] = old[i]
              \/ i - Len(old) \in 1 .. c /\ (old \o g)[i] = g[i - Len(old)]
    BY <1>3, <1>6, <1>7, ExtendedList
  <2>2. QED
    BY <1>7, <2>1
<1>9. QED
  BY <1>5, <1>8

LEMMA TypeInitially == Init => TypeOK /\ LoopInv
<1> SUFFICES ASSUME Init
             PROVE  TypeOK /\ LoopInv
  OBVIOUS
<1>1. LoopInv
  BY DEF Init, LoopInv, Handling
<1>2. /\ signatures \in [Candidate -> [Deposit -> Seq(Signature)]]
      /\ answers \in [Candidate -> Seq(Signature)]
      /\ txs \in Seq(Transaction)
      /\ mints \in [Deposit -> Seq(Fee)]
  BY DEF Init
<1>3. /\ depth \in [Deposit -> Depth]
      /\ status \in [Candidate -> [Deposit -> Status]]
      /\ net \in [Candidate -> [Deposit -> Fee]]
      /\ evmTxHash \in [Candidate -> [Deposit -> Nat]]
      /\ dropped \in [Candidate -> SUBSET Deposit]
      /\ pc \in [Candidate -> Loop]
      /\ cur \in [Candidate -> Deposit \cup {NoDeposit}]
      /\ todo \in [Candidate -> SUBSET Deposit]
      /\ asked \in [Candidate -> SUBSET Node]
      /\ numRequired \in [Candidate -> Nat]
      /\ txHash \in [Candidate -> Nat]
      /\ fee \in [Node -> Fee]
  BY DepositAssumption DEF Init, Depth, Status, Loop
<1>4. /\ spent \subseteq Deposit /\ leads \subseteq Candidate /\ processed \subseteq Deposit
      /\ federators \subseteq Node /\ registered \subseteq Rune /\ runePaused \subseteq Rune
      /\ signed \subseteq Signature /\ governance \in Nat /\ restarts \in Nat
  BY NodeAssumption, DepositAssumption DEF Init
<1>5. frozen \in BOOLEAN
  BY DEF Init
<1>6. QED
  BY <1>1, <1>2, <1>3, <1>4, <1>5 DEF TypeOK

(* send_rune_deposit_to_evm has the signatures it cuts the list to. *)
LEMMA SubmittedIsTransaction ==
  ASSUME TypeOK, LoopInv, NEW n \in Candidate, pc[n] = "sending"
  PROVE  /\ Submitted(n) \in Transaction
         /\ Append(txs, Submitted(n)) \in Seq(Transaction)
         /\ \A j \in DOMAIN Submitted(n).sigs :
               /\ j \in DOMAIN signatures[n][cur[n]]
               /\ Submitted(n).sigs[j] = signatures[n][cur[n]][j]
<1> DEFINE stored == signatures[n][cur[n]]
           cut == [i \in 1 .. numRequired[n] |-> stored[i]]
<1>1. /\ cur[n] \in Deposit
      /\ stored \in Seq(Signature)
      /\ numRequired[n] \in Nat
      /\ numRequired[n] <= Len(stored)
  BY DEF TypeOK, LoopInv, Handling
<1>2. /\ cut \in [1 .. numRequired[n] -> Signature]
      /\ \A j \in DOMAIN cut : j \in DOMAIN stored /\ cut[j] = stored[j]
  BY <1>1
<1>3. cut \in Seq(Signature)
  <2> HIDE DEF cut
  <2>1. QED
    BY <1>1, <1>2
<1>4. Msg(n, cur[n]) \in Message
  BY <1>1 DEF Msg, Message, TypeOK
<1>5. Submitted(n) \in Transaction /\ Submitted(n).sigs = cut
  BY <1>3, <1>4 DEF Submitted, Transaction
<1>6. QED
  BY <1>2, <1>5 DEF TypeOK

(* Mining a transaction changes nothing but its state. *)
LEMMA SettledTransaction ==
  ASSUME txs \in Seq(Transaction), NEW i \in DOMAIN txs, NEW st \in {"ok", "reverted"}
  PROVE  /\ txs[i].msg \in Message
         /\ [txs EXCEPT ![i].state = st] \in Seq(Transaction)
         /\ DOMAIN [txs EXCEPT ![i].state = st] = DOMAIN txs
         /\ \A j \in DOMAIN txs :
               LET t == [txs EXCEPT ![i].state = st][j]
               IN  /\ t.from = txs[j].from /\ t.msg = txs[j].msg /\ t.sigs = txs[j].sigs
                   /\ t.state = IF j = i THEN st ELSE txs[j].state
<1> DEFINE settled == [txs[i] EXCEPT !.state = st]
<1>1. \A j \in DOMAIN txs : txs[j] \in Transaction
  OBVIOUS
<1>2. /\ settled \in Transaction /\ settled.from = txs[i].from /\ settled.msg = txs[i].msg
      /\ settled.sigs = txs[i].sigs /\ settled.state = st
  BY <1>1 DEF Transaction
<1>3. [txs EXCEPT ![i].state = st] = [txs EXCEPT ![i] = settled]
  OBVIOUS
<1> HIDE DEF settled
<1>4. /\ [txs EXCEPT ![i] = settled] \in Seq(Transaction)
      /\ DOMAIN [txs EXCEPT ![i] = settled] = DOMAIN txs
      /\ \A j \in DOMAIN txs :
            [txs EXCEPT ![i] = settled][j] = IF j = i THEN settled ELSE txs[j]
  BY <1>2
<1>5. txs[i].msg \in Message
  BY <1>1 DEF Transaction
<1>6. QED
  BY <1>2, <1>3, <1>4, <1>5

(* Going on to the next deposit resets the local variables of the loop. *)
LEMMA NextDepositLoop ==
  ASSUME TypeOK, NEW n \in Candidate, NextDeposit(n)
  PROVE  /\ pc' \in [Candidate -> Loop]
         /\ cur' \in [Candidate -> Deposit \cup {NoDeposit}]
         /\ todo' \in [Candidate -> SUBSET Deposit]
         /\ asked' \in [Candidate -> SUBSET Node]
         /\ answers' \in [Candidate -> Seq(Signature)]
         /\ numRequired' \in [Candidate -> Nat]
         /\ txHash' \in [Candidate -> Nat]
         /\ pc'[n] = "handle"
         /\ answers'[n] = <<>>
         /\ \A m \in Candidate \ {n} :
               /\ pc'[m] = pc[m] /\ cur'[m] = cur[m] /\ answers'[m] = answers[m]
               /\ numRequired'[m] = numRequired[m] /\ txHash'[m] = txHash[m]
BY DEF NextDeposit, TypeOK, Loop

LEMMA TypeInductive == TypeOK /\ LoopInv /\ [Next]_vars => (TypeOK /\ LoopInv)'
<1> SUFFICES ASSUME TypeOK, LoopInv, [Next]_vars
             PROVE  (TypeOK /\ LoopInv)'
  OBVIOUS
<1> USE NodeAssumption, DepositAssumption, BoundAssumption
    DEF TypeOK, LoopInv, Handling, Status, Loop,
        btcVars, dbVars, loopVars, cfgVars, mintVars, adminVars
<1>0. numRequiredFederators(federators) \in Nat
  BY FS_Subset, NumRequiredIsNat
<1>1. ASSUME NEW d \in Deposit, MineBtc(d)
      PROVE  (TypeOK /\ LoopInv)'
  <2>1. depth' \in [Deposit -> Depth]
    <3> HIDE DEF TypeOK, LoopInv
    <3>1. depth \in [Deposit -> 0 .. 3] /\ depth[d] \in 0 .. 3
      BY DEF TypeOK, Depth
    <3>2. depth[d] + 1 \in 0 .. 3
      BY <1>1, <3>1, DepthAssumption DEF MineBtc
    <3>3. QED
      BY <1>1, <3>1, <3>2 DEF MineBtc, Depth
  <2>2. QED
    BY <1>1, <2>1 DEF MineBtc
<1>2. ASSUME NEW d \in Deposit, SpendOutput(d)
      PROVE  (TypeOK /\ LoopInv)'
  BY <1>0, <1>2 DEF SpendOutput
<1>3. ASSUME NEW n \in Candidate, scan_rune_deposits(n)
      PROVE  (TypeOK /\ LoopInv)'
  BY <1>0, <1>3 DEF scan_rune_deposits, ScannedStatus
<1>4. ASSUME NEW n \in Candidate, NEW d \in Deposit, confirm_sent_rune_deposits(n, d)
      PROVE  (TypeOK /\ LoopInv)'
  <2>1. ReceiptStatus(n, d) \in Status
    BY DEF ReceiptStatus
  <2>2. QED
    BY <1>4, <2>1 DEF confirm_sent_rune_deposits
<1>5. ASSUME NEW n \in Candidate, BeginHandling(n)
      PROVE  (TypeOK /\ LoopInv)'
  <2>1. \/ /\ pc' = [pc EXCEPT ![n] = "handle"]
           /\ todo' = [todo EXCEPT ![n] = {d \in Deposit : status[n][d] = "ACCEPTED"}]
        \/ /\ pc' = [pc EXCEPT ![n] = "idle"]
           /\ UNCHANGED todo
    BY <1>5, Zenon DEF BeginHandling
  <2>2. /\ pc' \in [Candidate -> Loop]
        /\ \A m \in Candidate : pc'[m] \in Handling => pc'[m] = pc[m]
    <3>1. \/ pc' = [pc EXCEPT ![n] = "handle"]
          \/ pc' = [pc EXCEPT ![n] = "idle"]
      BY <2>1, Zenon
    <3>2. QED
      BY <3>1
  <2>3. todo' \in [Candidate -> SUBSET Deposit]
    <3> DEFINE accepted == {d \in Deposit : status[n][d] = "ACCEPTED"}
    <3>1. todo' = [todo EXCEPT ![n] = accepted] \/ todo' = todo
      BY <2>1, Zenon
    <3>2. accepted \in SUBSET Deposit
      OBVIOUS
    <3> HIDE DEF accepted
    <3>3. QED
      BY <3>1, <3>2
  <2>4. QED
    BY <1>5, <2>2, <2>3 DEF BeginHandling
<1>6. ASSUME NEW n \in Candidate, EndIteration(n)
      PROVE  (TypeOK /\ LoopInv)'
  BY <1>0, <1>6 DEF EndIteration
<1>7. ASSUME NEW n \in Candidate, IterationRaises(n)
      PROVE  (TypeOK /\ LoopInv)'
  BY <1>0, <1>7 DEF IterationRaises
<1>8. ASSUME NEW n \in Candidate, NEW d \in Deposit, StartDeposit(n, d)
      PROVE  (TypeOK /\ LoopInv)'
  BY <1>0, <1>8 DEF StartDeposit
<1>9. ASSUME NEW n \in Candidate, NEW d \in Deposit, SkipDeposit(n, d)
      PROVE  (TypeOK /\ LoopInv)'
  BY <1>0, <1>9 DEF SkipDeposit
<1>10. ASSUME NEW n \in Candidate, SelfAnswer(n)
       PROVE  (TypeOK /\ LoopInv)'
  <2>1. cur[n] \in Deposit /\ n \in Node
    BY <1>10 DEF SelfAnswer
  <2>2. [signer |-> n, msg |-> Msg(n, cur[n])] \in Signature
    BY <2>1 DEF Msg, Signature, Message
  <2>3. QED
    BY <1>10, <2>2 DEF SelfAnswer
<1>11. ASSUME NEW n \in Candidate, SelfAnswerRaises(n)
       PROVE  (TypeOK /\ LoopInv)'
  BY <1>0, <1>11, SMTT(60) DEF SelfAnswerRaises, NextDeposit
<1>12. ASSUME NEW n \in Candidate, NEW p \in Node, PeerAnswers(n, p)
       PROVE  (TypeOK /\ LoopInv)'
  <2>1. cur[n] \in Deposit
    BY <1>12 DEF PeerAnswers, AskPeer
  <2>2. [signer |-> p, msg |-> Msg(n, cur[n])] \in Signature
    BY <2>1 DEF Msg, Signature, Message
  <2>3. /\ answers' \in [Candidate -> Seq(Signature)]
        /\ signed' \subseteq Signature
        /\ asked' \in [Candidate -> SUBSET Node]
    BY <1>12, <2>2 DEF PeerAnswers, AskPeer, Peers
  <2>4. QED
    BY <1>12, <2>3 DEF PeerAnswers, AskPeer
<1>13. ASSUME NEW n \in Candidate, NEW p \in Node, NoAnswerFromPeer(n, p)
       PROVE  (TypeOK /\ LoopInv)'
  <2>1. cur[n] \in Deposit
    BY <1>13 DEF NoAnswerFromPeer, AskPeer
  <2>2. [signer |-> p, msg |-> Msg(n, cur[n])] \in Signature
    BY <2>1 DEF Msg, Signature, Message
  <2>3. QED
    BY <1>13, <2>2 DEF NoAnswerFromPeer, AskPeer
<1>14. ASSUME NEW n \in Candidate, update_rune_deposit_signatures(n)
       PROVE  (TypeOK /\ LoopInv)'
  <2>1. cur[n] \in Deposit
    BY <1>14 DEF update_rune_deposit_signatures
  <2>2. PICK s \in ExtendedSignatures(n, cur[n]) :
          /\ signatures' = [signatures EXCEPT ![n][cur[n]] = s]
          /\ \/ /\ pc' = [pc EXCEPT ![n] = "send"]
                /\ UNCHANGED <<cur, todo, asked, answers, numRequired, txHash>>
             \/ NextDeposit(n)
    BY <1>14 DEF update_rune_deposit_signatures
  <2>3. s \in Seq(Signature)
    BY <2>1, <2>2, ExtendedSignaturesAre
  <2>4. signatures' \in [Candidate -> [Deposit -> Seq(Signature)]]
    BY <2>1, <2>2, <2>3
  <2>5. \A m \in Candidate : m # n => signatures'[m] = signatures[m]
    BY <2>2
  <2>6. /\ pc' \in [Candidate -> Loop]
        /\ cur' \in [Candidate -> Deposit \cup {NoDeposit}]
        /\ todo' \in [Candidate -> SUBSET Deposit]
        /\ asked' \in [Candidate -> SUBSET Node]
        /\ answers' \in [Candidate -> Seq(Signature)]
        /\ numRequired' \in [Candidate -> Nat]
        /\ txHash' \in [Candidate -> Nat]
    <3>1. CASE pc' = [pc EXCEPT ![n] = "send"] /\ UNCHANGED <<cur, todo, asked, answers, numRequired, txHash>>
      BY <3>1
    <3>2. CASE NextDeposit(n)
      BY <3>2, NextDepositLoop
    <3>3. QED
      BY <2>2, <3>1, <3>2
  <2>7. LoopInv'
    <3>1. CASE pc' = [pc EXCEPT ![n] = "send"] /\ UNCHANGED <<cur, todo, asked, answers, numRequired, txHash>>
      BY <2>1, <2>5, <3>1
    <3>2. CASE NextDeposit(n)
      BY <2>5, <3>2, NextDepositLoop
    <3>3. QED
      BY <2>2, <3>1, <3>2
  <2>8. QED
    BY <1>14, <2>4, <2>6, <2>7 DEF update_rune_deposit_signatures
<1>15. ASSUME NEW n \in Candidate, CommitSending(n)
       PROVE  (TypeOK /\ LoopInv)'
  BY <1>0, <1>15 DEF CommitSending, Sendable
<1>16. ASSUME NEW n \in Candidate, NotSent(n)
       PROVE  (TypeOK /\ LoopInv)'
  BY <1>0, <1>16, SMTT(60) DEF NotSent, NextDeposit
<1>17. ASSUME NEW n \in Candidate, Transact(n)
       PROVE  (TypeOK /\ LoopInv)'
  <2>1. pc[n] = "sending" /\ cur[n] \in Deposit
    BY <1>17 DEF Transact
  <2>2. Append(txs, Submitted(n)) \in Seq(Transaction)
    BY <2>1, SubmittedIsTransaction
  <2>3. QED
    BY <1>17, <2>1, <2>2 DEF Transact
<1>18. ASSUME NEW n \in Candidate, TransactRaises(n)
       PROVE  (TypeOK /\ LoopInv)'
  <2>1. pc[n] = "sending" /\ cur[n] \in Deposit
    BY <1>18 DEF TransactRaises
  <2>2. Append(txs, Submitted(n)) \in Seq(Transaction)
    BY <2>1, SubmittedIsTransaction
  <2>3. txs' \in Seq(Transaction)
    BY <1>18, <2>2 DEF TransactRaises
  <2>4. status' \in [Candidate -> [Deposit -> Status]]
    BY <1>18, <2>1 DEF TransactRaises
  <2>5. NextDeposit(n) /\ UNCHANGED <<btcVars, net, signatures, evmTxHash, dropped, cfgVars,
                                     mintVars, adminVars, signed>>
    BY <1>18, Zenon DEF TransactRaises
  <2>6. QED
    BY <2>3, <2>4, <2>5 DEF NextDeposit
<1>19. ASSUME NEW n \in Candidate, TooManyPending(n)
       PROVE  (TypeOK /\ LoopInv)'
  BY <1>0, <1>19, SMTT(60) DEF TooManyPending, NextDeposit
<1>20. ASSUME NEW n \in Candidate, CommitSent(n)
       PROVE  (TypeOK /\ LoopInv)'
  BY <1>0, <1>20 DEF CommitSent
<1>21. ASSUME NEW n \in Candidate, ConfirmOwn(n)
       PROVE  (TypeOK /\ LoopInv)'
  <2>1. cur[n] \in Deposit
    BY <1>21 DEF ConfirmOwn
  <2>2. ReceiptStatus(n, cur[n]) \in Status
    BY <2>1 DEF ReceiptStatus
  <2>3. QED
    BY <1>21, <2>1, <2>2 DEF ConfirmOwn, NextDeposit
<1>22. ASSUME NEW n \in Candidate, HandlingRaises(n)
       PROVE  (TypeOK /\ LoopInv)'
  BY <1>0, <1>22, SMTT(60) DEF HandlingRaises, NextDeposit
<1>23. ASSUME NEW i \in DOMAIN txs, acceptTransferFromBtc(i)
       PROVE  (TypeOK /\ LoopInv)'
  <2>1. txs[i].msg \in Message
    BY SettledTransaction
  <2>2. txs' \in Seq(Transaction)
    BY <1>23, SettledTransaction DEF acceptTransferFromBtc
  <2>3. mints' \in [Deposit -> Seq(Fee)] /\ processed' \subseteq Deposit
    BY <1>23, <2>1 DEF acceptTransferFromBtc, Message
  <2>4. QED
    BY <1>23, <2>2, <2>3 DEF acceptTransferFromBtc
<1>24. ASSUME NEW i \in DOMAIN txs, Revert(i)
       PROVE  (TypeOK /\ LoopInv)'
  <2>1. txs' \in Seq(Transaction)
    BY <1>24, SettledTransaction DEF Revert
  <2>2. QED
    BY <1>24, <2>1 DEF Revert
<1>25. ASSUME Governance
       PROVE  (TypeOK /\ LoopInv)'
  BY <1>0, <1>25, SMTT(60) DEF Governance, Governs, addFederator, removeFederator, setFrozen, registerRune,
                  setRunePaused
<1>26. ASSUME NEW n \in Node, NEW f \in Fee, NEW leader \in BOOLEAN, Restart(n, f, leader)
       PROVE  (TypeOK /\ LoopInv)'
  BY <1>0, <1>26, SMTT(60) DEF Restart
<1>27. CASE UNCHANGED vars
  BY <1>27 DEF vars
<1>28. QED
  <2>1. CASE Bitcoin
    BY <1>1, <1>2, <2>1 DEF Bitcoin
  <2>2. ASSUME NEW n \in Candidate, RunIteration(n)
        PROVE  (TypeOK /\ LoopInv)'
    BY <1>3, <1>4, <1>5, <1>6, <1>7, <2>2 DEF RunIteration
  <2>3. ASSUME NEW n \in Candidate, CollectSignatures(n)
        PROVE  (TypeOK /\ LoopInv)'
    BY <1>8, <1>9, <1>10, <1>11, <1>12, <1>13, <1>14, <2>3 DEF CollectSignatures
  <2>4. ASSUME NEW n \in Candidate, Send(n)
        PROVE  (TypeOK /\ LoopInv)'
    BY <1>15, <1>16, <1>17, <1>18, <1>19, <1>20, <1>21, <1>22, <2>4 DEF Send
  <2>5. CASE MineEvm
    BY <1>23, <1>24, <2>5 DEF MineEvm
  <2>6. CASE Operators
    <3>1. PICK n \in Node, f \in Fee, leader \in BOOLEAN : Restart(n, f, leader)
      BY <2>6, Zenon DEF Operators
    <3> HIDE DEF TypeOK, LoopInv
    <3>2. QED
      BY <3>1, <1>26
  <2>7. QED
    BY <1>25, <1>27, <2>1, <2>2, <2>3, <2>4, <2>5, <2>6 DEF Next

(* Every behaviour of the direction keeps its variables in their types, and *)
(* the loop never cuts a signature list it does not have.                   *)
THEOREM TypeCorrect == Spec => []TypeOK
<1>1. Spec => [](TypeOK /\ LoopInv)
  BY TypeInitially, TypeInductive, PTL DEF Spec
<1>2. QED
  BY <1>1, PTL

-----------------------------------------------------------------------------
(***************************************************************************)
(* RuneToEvm implements FederatedMint: whatever restarts, lost answers,    *)
(* leaders and governance transactions come in between, a deposit is       *)
(* minted once, and with the votes of a strict majority of the federators  *)
(* of that moment.                                                         *)
(***************************************************************************)

(* No signature comes from nowhere: what the loop holds, what the database  *)
(* stores and what a transaction carries has been signed.  A deposit with a *)
(* mint is marked as processed.                                             *)
VoteInv ==
    /\ \A n \in Candidate : \A j \in DOMAIN answers[n] : answers[n][j] \in signed
    /\ \A n \in Candidate, d \in Deposit :
          \A j \in DOMAIN signatures[n][d] : signatures[n][d][j] \in signed
    /\ \A i \in DOMAIN txs : \A j \in DOMAIN txs[i].sigs : txs[i].sigs[j] \in signed
    /\ \A d \in Deposit : mints[d] # <<>> => d \in processed

-----------------------------------------------------------------------------
(* Signatures that pass checkFederatorSignatures have distinct signers, so  *)
(* a set with all of the signers has a strict majority.                     *)
LEMMA SignersAreMajority ==
  ASSUME NEW F, IsFiniteSet(F), NEW msg, NEW S, NEW sigs \in Seq(S),
         checkFederatorSignatures(F, msg, sigs),
         NEW V \in SUBSET F,
         \A i \in DOMAIN sigs : sigs[i].signer \in V
  PROVE  2 * Cardinality(V) > Cardinality(F)
<1> DEFINE g == [i \in 1 .. Len(sigs) |-> sigs[i].signer]
<1>1. /\ Cardinality(F) \in Nat
      /\ IsFiniteSet(V)
      /\ Cardinality(V) \in Nat
  BY FS_Subset, FS_CardinalityType
<1>2. Len(sigs) \in Nat /\ DOMAIN sigs = 1 .. Len(sigs)
  OBVIOUS
<1>3. Len(sigs) >= Cardinality(F) \div 2 + 1
  BY DEF checkFederatorSignatures, numRequiredFederators
<1>4. IsFiniteSet(1 .. Len(sigs)) /\ Cardinality(1 .. Len(sigs)) = Len(sigs)
  <2>1. 1 \in Int /\ Len(sigs) \in Int
    BY <1>2
  <2>2. /\ IsFiniteSet(1 .. Len(sigs))
        /\ Cardinality(1 .. Len(sigs)) = IF 1 > Len(sigs) THEN 0 ELSE Len(sigs) - 1 + 1
    BY <2>1, FS_Interval
  <2>3. QED
    BY <1>2, <2>2
<1>5. g \in [1 .. Len(sigs) -> V]
  BY <1>2
<1>6. \A i, j \in 1 .. Len(sigs) : i # j => g[i] # g[j]
  BY <1>2 DEF checkFederatorSignatures
<1>7. ~(Cardinality(V) < Cardinality(1 .. Len(sigs)))
  <2> HIDE DEF g
  <2>1. QED
    BY <1>1, <1>4, <1>5, <1>6, FS_PigeonHole
<1>8. QED
  BY <1>1, <1>2, <1>3, <1>4, <1>7

LEMMA AppendedElements ==
  ASSUME NEW S, NEW s \in Seq(S), NEW e \in S
  PROVE  \A j \in DOMAIN Append(s, e) :
            \/ Append(s, e)[j] = e
            \/ j \in DOMAIN s /\ Append(s, e)[j] = s[j]
OBVIOUS

(* A step that stores, sends and mints nothing keeps the invariant. *)
LEMMA QuietStep ==
  ASSUME TypeOK, VoteInv, signed \subseteq signed',
         UNCHANGED <<signatures, txs, processed, mints>>,
         \A n \in Candidate : answers'[n] = answers[n] \/ answers'[n] = <<>>
  PROVE  VoteInv'
<1>1. \A n \in Candidate : \A j \in DOMAIN answers'[n] : answers'[n][j] \in signed'
  BY DEF VoteInv
<1>2. \A n \in Candidate, d \in Deposit :
         \A j \in DOMAIN signatures'[n][d] : signatures'[n][d][j] \in signed'
  BY DEF VoteInv
<1>3. \A i \in DOMAIN txs' : \A j \in DOMAIN txs'[i].sigs : txs'[i].sigs[j] \in signed'
  BY DEF VoteInv
<1>4. \A d \in Deposit : mints'[d] # <<>> => d \in processed'
  BY DEF VoteInv
<1>5. QED
  BY <1>1, <1>2, <1>3, <1>4 DEF VoteInv

LEMMA VoteInitially == Init => VoteInv
BY DEF Init, VoteInv

LEMMA VoteInductive == TypeOK /\ LoopInv /\ VoteInv /\ [Next]_vars => VoteInv'
<1> SUFFICES ASSUME TypeOK, LoopInv, VoteInv, [Next]_vars
             PROVE  VoteInv'
  OBVIOUS
<1> USE DEF btcVars, dbVars, loopVars, cfgVars, mintVars, adminVars
<1>1. CASE Bitcoin
  BY <1>1, QuietStep DEF Bitcoin, MineBtc, SpendOutput
<1>2. ASSUME NEW n \in Candidate, RunIteration(n)
      PROVE  VoteInv'
  BY <1>2, QuietStep DEF RunIteration, scan_rune_deposits, confirm_sent_rune_deposits,
                         BeginHandling, EndIteration, IterationRaises
<1>3. ASSUME NEW n \in Candidate, NEW d \in Deposit, StartDeposit(n, d) \/ SkipDeposit(n, d)
      PROVE  VoteInv'
  BY <1>3, QuietStep DEF StartDeposit, SkipDeposit
<1>4. ASSUME NEW n \in Candidate, SelfAnswer(n)
      PROVE  VoteInv'
  <2>1. PICK s : answers' = [answers EXCEPT ![n] = <<s>>] /\ signed' = signed \cup {s}
    BY <1>4 DEF SelfAnswer
  <2>2. UNCHANGED <<signatures, txs, processed, mints>>
    BY <1>4 DEF SelfAnswer
  <2>3. \A m \in Candidate : \A j \in DOMAIN answers'[m] : answers'[m][j] \in signed'
    BY <2>1 DEF TypeOK, VoteInv
  <2>4. QED
    BY <2>1, <2>2, <2>3 DEF VoteInv
<1>5. ASSUME NEW n \in Candidate, NextDeposit(n),
             UNCHANGED <<signatures, txs, processed, mints, signed>>
      PROVE  VoteInv'
  BY <1>5, NextDepositLoop, QuietStep
<1>6. ASSUME NEW n \in Candidate, NEW p \in Node, PeerAnswers(n, p)
      PROVE  VoteInv'
  <2> DEFINE s == [signer |-> p, msg |-> Msg(n, cur[n])]
  <2>1. /\ answers' = [answers EXCEPT ![n] = Append(@, s)]
        /\ signed' = signed \cup {s}
        /\ UNCHANGED <<signatures, txs, processed, mints>>
    BY <1>6 DEF PeerAnswers, AskPeer
  <2> HIDE DEF s
  <2>2. \A m \in Candidate : \A j \in DOMAIN answers'[m] : answers'[m][j] \in signed'
    <3> SUFFICES ASSUME NEW m \in Candidate, NEW j \in DOMAIN answers'[m]
                 PROVE  answers'[m][j] \in signed'
      OBVIOUS
    <3>1. CASE m = n
      <4>1. answers[n] \in Seq(Signature) /\ answers'[n] = Append(answers[n], s)
        BY <2>1 DEF TypeOK
      <4> s \in Signature
        <5>1. cur[n] \in Deposit
          BY <1>6 DEF PeerAnswers, AskPeer, LoopInv, Handling
        <5>2. QED
          BY <5>1 DEF s, Msg, Signature, Message, TypeOK
      <4>2. \/ answers'[n][j] = s
            \/ j \in DOMAIN answers[n] /\ answers'[n][j] = answers[n][j]
        BY <3>1, <4>1, AppendedElements
      <4>3. QED
        BY <2>1, <3>1, <4>2 DEF VoteInv
    <3>2. CASE m # n
      BY <2>1, <3>2 DEF TypeOK, VoteInv
    <3>3. QED
      BY <3>1, <3>2
  <2>3. QED
    BY <2>1, <2>2 DEF VoteInv
<1>7. ASSUME NEW n \in Candidate, NEW p \in Node, NoAnswerFromPeer(n, p)
      PROVE  VoteInv'
  BY <1>7, QuietStep DEF NoAnswerFromPeer, AskPeer
<1>8. ASSUME NEW n \in Candidate, update_rune_deposit_signatures(n)
      PROVE  VoteInv'
  <2>1. cur[n] \in Deposit
    BY <1>8 DEF update_rune_deposit_signatures, LoopInv, Handling
  <2>2. PICK s \in ExtendedSignatures(n, cur[n]) :
          /\ signatures' = [signatures EXCEPT ![n][cur[n]] = s]
          /\ answers' = answers \/ NextDeposit(n)
    BY <1>8 DEF update_rune_deposit_signatures
  <2>3. \A j \in DOMAIN s : s[j] \in signed
    BY <2>1, <2>2, ExtendedSignaturesAre DEF VoteInv
  <2>4. UNCHANGED <<txs, processed, mints, signed>>
    BY <1>8 DEF update_rune_deposit_signatures
  <2>5. \A m \in Candidate, d \in Deposit :
           signatures'[m][d] = IF m = n /\ d = cur[n] THEN s ELSE signatures[m][d]
    BY <2>1, <2>2 DEF TypeOK
  <2>6. \A m \in Candidate : answers'[m] = answers[m] \/ answers'[m] = <<>>
    BY <2>2, NextDepositLoop
  <2>7. \A m \in Candidate : \A j \in DOMAIN answers'[m] : answers'[m][j] \in signed
    BY <2>6 DEF VoteInv
  <2>8. \A m \in Candidate, d \in Deposit :
           \A j \in DOMAIN signatures'[m][d] : signatures'[m][d][j] \in signed
    BY <2>3, <2>5 DEF VoteInv
  <2>9. QED
    BY <2>4, <2>7, <2>8 DEF VoteInv
<1>9. ASSUME NEW n \in Candidate, pc[n] = "sending",
             txs' = Append(txs, Submitted(n)),
             UNCHANGED <<signatures, processed, mints, signed>>,
             \A m \in Candidate : answers'[m] = answers[m] \/ answers'[m] = <<>>
      PROVE  VoteInv'
  <2>1. txs \in Seq(Transaction) /\ cur[n] \in Deposit
    BY <1>9 DEF TypeOK, LoopInv, Handling
  <2>2. \A j \in DOMAIN Submitted(n).sigs : Submitted(n).sigs[j] \in signed
    BY <1>9, <2>1, SubmittedIsTransaction DEF VoteInv
  <2>3. \A i \in DOMAIN txs' :
           \/ txs'[i] = Submitted(n)
           \/ i \in DOMAIN txs /\ txs'[i] = txs[i]
    BY <1>9, <2>1, SubmittedIsTransaction, AppendedElements
  <2>4. \A i \in DOMAIN txs' : \A j \in DOMAIN txs'[i].sigs : txs'[i].sigs[j] \in signed
    BY <2>2, <2>3 DEF VoteInv
  <2>5. QED
    BY <1>9, <2>4 DEF VoteInv
<1>10. ASSUME NEW n \in Candidate, Send(n)
       PROVE  VoteInv'
  <2>1. CASE CommitSending(n) \/ CommitSent(n)
    BY <2>1, QuietStep DEF CommitSending, CommitSent
  <2>2. CASE NotSent(n) \/ TooManyPending(n) \/ HandlingRaises(n) \/ ConfirmOwn(n)
    BY <1>5, <2>2 DEF NotSent, TooManyPending, HandlingRaises, ConfirmOwn
  <2>3. CASE Transact(n)
    BY <1>9, <2>3 DEF Transact
  <2>4. CASE TransactRaises(n)
    <3>1. \A m \in Candidate : answers'[m] = answers[m] \/ answers'[m] = <<>>
      BY <2>4, NextDepositLoop DEF TransactRaises
    <3>2. CASE txs' = txs
      BY <1>5, <2>4, <3>2 DEF TransactRaises
    <3>3. CASE txs' = Append(txs, Submitted(n))
      BY <1>9, <2>4, <3>1, <3>3 DEF TransactRaises
    <3>4. QED
      BY <2>4, <3>2, <3>3 DEF TransactRaises
  <2>5. QED
    BY <1>10, <2>1, <2>2, <2>3, <2>4 DEF Send
<1>11. ASSUME NEW i \in DOMAIN txs, acceptTransferFromBtc(i)
       PROVE  VoteInv'
  <2>1. /\ txs' = [txs EXCEPT ![i].state = "ok"]
        /\ processed' = processed \cup {txs[i].msg.dep}
        /\ mints' = [mints EXCEPT ![txs[i].msg.dep] = Append(@, txs[i].msg.net)]
        /\ UNCHANGED <<answers, signatures, signed>>
    BY <1>11 DEF acceptTransferFromBtc
  <2>2. \A k \in DOMAIN txs' : k \in DOMAIN txs /\ txs'[k].sigs = txs[k].sigs
    BY <2>1, SettledTransaction DEF TypeOK
  <2>3. \A d \in Deposit : mints'[d] # <<>> => d \in processed'
    BY <2>1 DEF TypeOK, VoteInv
  <2>4. QED
    BY <2>1, <2>2, <2>3 DEF VoteInv
<1>12. ASSUME NEW i \in DOMAIN txs, Revert(i)
       PROVE  VoteInv'
  <2>1. txs' = [txs EXCEPT ![i].state = "reverted"] /\ UNCHANGED <<answers, signatures, signed, processed, mints>>
    BY <1>12 DEF Revert
  <2>2. \A k \in DOMAIN txs' : k \in DOMAIN txs /\ txs'[k].sigs = txs[k].sigs
    BY <2>1, SettledTransaction DEF TypeOK
  <2>3. QED
    BY <2>1, <2>2 DEF VoteInv
<1>13. CASE Governance
  BY <1>13, QuietStep DEF Governance, Governs, addFederator, removeFederator, setFrozen,
                          registerRune, setRunePaused
<1>14. CASE Operators
  BY <1>14, QuietStep DEF Operators, Restart
<1>15. CASE UNCHANGED vars
  BY <1>15, QuietStep DEF vars
<1>16. ASSUME NEW n \in Candidate, CollectSignatures(n)
       PROVE  VoteInv'
  <2>1. CASE SelfAnswerRaises(n)
    BY <1>5, <2>1 DEF SelfAnswerRaises
  <2>2. QED
    BY <1>3, <1>4, <1>6, <1>7, <1>8, <1>16, <2>1 DEF CollectSignatures
<1>17. QED
  BY <1>1, <1>2, <1>10, <1>11, <1>12, <1>13, <1>14, <1>15, <1>16 DEF Next, MineEvm

-----------------------------------------------------------------------------
(* What acceptTransferFromBtc lets through is an agreed mint. *)
LEMMA MintIsAgreed ==
  ASSUME TypeOK, VoteInv, NEW i \in DOMAIN txs, acceptTransferFromBtc(i)
  PROVE  txs[i].msg \in Mint!Message /\ Mint!MintAgreed(txs[i].msg)
<1> DEFINE tx == txs[i]
           d == tx.msg.dep
           V == Mint!Voters(tx.msg)
<1>1. /\ tx.msg \in [dep : Deposit, net : Fee]
      /\ tx.sigs \in Seq(Signature)
      /\ d \in Deposit /\ tx.msg.net \in Fee
  <2>1. tx \in Transaction
    BY DEF TypeOK
  <2>2. QED
    BY <2>1 DEF Transaction, Message
<1>2. /\ checkFederatorSignatures(federators, tx.msg, tx.sigs)
      /\ d \notin processed
      /\ mints' = [mints EXCEPT ![d] = Append(@, tx.msg.net)]
      /\ UNCHANGED <<federators, signed>>
  BY DEF acceptTransferFromBtc, AcceptsTransfer, adminVars
<1>3. mints[d] = <<>>
  BY <1>1, <1>2 DEF VoteInv
<1>4. mints' = [mints EXCEPT ![d] = <<tx.msg.net>>]
  BY <1>1, <1>2, <1>3 DEF TypeOK
<1>5. \A k \in DOMAIN tx.sigs : tx.sigs[k].signer \in V
  <2> SUFFICES ASSUME NEW k \in DOMAIN tx.sigs
               PROVE  tx.sigs[k].signer \in V
    OBVIOUS
  <2>1. tx.sigs[k] \in Signature /\ tx.sigs[k] \in signed
    BY <1>1 DEF VoteInv
  <2>2. tx.sigs[k].msg = tx.msg /\ tx.sigs[k].signer \in federators
    BY <1>2 DEF checkFederatorSignatures
  <2>3. tx.sigs[k] = [signer |-> tx.sigs[k].signer, msg |-> tx.msg]
    BY <2>1, <2>2 DEF Signature
  <2>4. QED
    BY <2>1, <2>2, <2>3 DEF Mint!Voters
<1>6. V \in SUBSET federators /\ IsFiniteSet(federators)
  BY NodeAssumption, FS_Subset DEF Mint!Voters, TypeOK
<1>7. 2 * Cardinality(V) > Cardinality(federators)
  <2> HIDE DEF V, tx
  <2>1. QED
    BY <1>1, <1>2, <1>5, <1>6, SignersAreMajority
<1>8. Mint!MintAgreed(tx.msg)
  BY <1>2, <1>3, <1>4, <1>7, Zenon DEF Mint!MintAgreed, Mint!Cardinality, Cardinality
<1>9. QED
  BY <1>1, <1>8 DEF Mint!Message

LEMMA StepsAreAgreed ==
  TypeOK /\ LoopInv /\ VoteInv /\ [Next]_vars => [Mint!Next]_(Mint!vars)
<1> SUFFICES ASSUME TypeOK, LoopInv, VoteInv, [Next]_vars
             PROVE  Mint!Next \/ UNCHANGED <<federators, signed, mints>>
  BY DEF Mint!vars
<1> USE DEF btcVars, dbVars, loopVars, cfgVars, mintVars, adminVars
<1>1. ASSUME NEW n \in Candidate, pc[n] \in Handling
      PROVE  Msg(n, cur[n]) \in Mint!Message
  BY <1>1 DEF TypeOK, LoopInv, Msg, Mint!Message
<1>2. ASSUME NEW n \in Candidate, pc[n] \in Handling, NEW p \in Node,
             signed' = signed \cup {[signer |-> p, msg |-> Msg(n, cur[n])]},
             UNCHANGED <<federators, mints>>
      PROVE  Mint!Next
  BY <1>1, <1>2 DEF Mint!Next, Mint!Vote
<1>3. ASSUME NEW n \in Candidate, CollectSignatures(n)
      PROVE  Mint!Next \/ UNCHANGED <<federators, signed, mints>>
  <2>1. CASE SelfAnswer(n)
    <3>1. n \in Node /\ pc[n] \in Handling
      BY <2>1, NodeAssumption DEF SelfAnswer, Handling
    <3>2. QED
      BY <1>2, <2>1, <3>1 DEF SelfAnswer
  <2>2. ASSUME NEW p \in Node, PeerAnswers(n, p)
        PROVE  Mint!Next
    <3>1. pc[n] \in Handling
      BY <2>2 DEF PeerAnswers, AskPeer, Handling
    <3>2. QED
      BY <1>2, <2>2, <3>1 DEF PeerAnswers, AskPeer
  <2>3. ASSUME NEW p \in Node, NoAnswerFromPeer(n, p)
        PROVE  Mint!Next \/ UNCHANGED <<federators, signed, mints>>
    <3>1. pc[n] \in Handling
      BY <2>3 DEF NoAnswerFromPeer, AskPeer, Handling
    <3>2. QED
      BY <1>2, <2>3, <3>1 DEF NoAnswerFromPeer, AskPeer
  <2>4. CASE SelfAnswerRaises(n) \/ update_rune_deposit_signatures(n)
    BY <2>4 DEF SelfAnswerRaises, update_rune_deposit_signatures
  <2>5. ASSUME NEW d \in Deposit, StartDeposit(n, d) \/ SkipDeposit(n, d)
        PROVE  UNCHANGED <<federators, signed, mints>>
    BY <2>5 DEF StartDeposit, SkipDeposit
  <2>6. QED
    BY <1>3, <2>1, <2>2, <2>3, <2>4, <2>5 DEF CollectSignatures
<1>4. ASSUME NEW n \in Candidate, RunIteration(n)
      PROVE  UNCHANGED <<federators, signed, mints>>
  BY <1>4 DEF RunIteration, scan_rune_deposits, confirm_sent_rune_deposits, BeginHandling,
              EndIteration, IterationRaises
<1>5. ASSUME NEW n \in Candidate, Send(n)
      PROVE  UNCHANGED <<federators, signed, mints>>
  BY <1>5 DEF Send, CommitSending, NotSent, Transact, TransactRaises, TooManyPending,
              CommitSent, ConfirmOwn, HandlingRaises
<1>6. CASE MineEvm
  <2>1. ASSUME NEW i \in DOMAIN txs, acceptTransferFromBtc(i)
        PROVE  Mint!Next
    BY <2>1, MintIsAgreed DEF Mint!Next
  <2>2. ASSUME NEW i \in DOMAIN txs, Revert(i)
        PROVE  UNCHANGED <<federators, signed, mints>>
    BY <2>2 DEF Revert
  <2>3. QED
    BY <1>6, <2>1, <2>2 DEF MineEvm
<1>7. CASE Governance
  <2>1. ASSUME NEW p \in Node, addFederator(p) \/ removeFederator(p)
        PROVE  Mint!Next
    BY <2>1 DEF addFederator, removeFederator, Governs, Mint!Next, Mint!ChangeMembers, TypeOK
  <2>2. CASE \E b \in BOOLEAN : setFrozen(b)
    BY <2>2 DEF setFrozen, Governs
  <2>3. CASE \E r \in Rune : registerRune(r) \/ \E b \in BOOLEAN : setRunePaused(r, b)
    BY <2>3 DEF registerRune, setRunePaused, Governs
  <2>4. QED
    BY <1>7, <2>1, <2>2, <2>3 DEF Governance
<1>8. CASE Bitcoin \/ Operators \/ UNCHANGED vars
  BY <1>8 DEF Bitcoin, MineBtc, SpendOutput, Operators, Restart, vars
<1>9. QED
  BY <1>3, <1>4, <1>5, <1>6, <1>7, <1>8 DEF Next

(* A deposit is minted at most once, and only when a strict majority of the *)
(* federators of that moment have signed exactly this deposit and amount:   *)
(* the Rune -> EVM direction implements FederatedMint.                      *)
THEOREM MintsAreAgreed == Spec => ImplementsFederatedMint
<1>1. Init => Mint!Init
  BY DEF Init, Mint!Init
<1>2. Spec => [](TypeOK /\ LoopInv /\ VoteInv)
  BY TypeInitially, TypeInductive, VoteInitially, VoteInductive, PTL DEF Spec
<1>3. QED
  BY <1>1, <1>2, StepsAreAgreed, PTL DEF Spec, ImplementsFederatedMint, Mint!Spec

(* The abstract specification never mints a second time. *)
LEMMA AgreedMintsOnce == TypeOK /\ MintedOnce /\ [Mint!Next]_(Mint!vars) => MintedOnce'
<1> SUFFICES ASSUME TypeOK, MintedOnce, [Mint!Next]_(Mint!vars)
             PROVE  MintedOnce'
  OBVIOUS
<1>1. ASSUME NEW msg \in Mint!Message, Mint!MintAgreed(msg)
      PROVE  MintedOnce'
  <2>1. \A d \in Deposit : mints'[d] = mints[d] \/ mints'[d] = <<msg.net>>
    BY <1>1 DEF Mint!MintAgreed, TypeOK
  <2>2. Len(<<msg.net>>) = 1
    OBVIOUS
  <2>3. ASSUME NEW d \in Deposit
        PROVE  Len(mints'[d]) <= 1
    <3>1. CASE mints'[d] = mints[d]
      BY <3>1 DEF MintedOnce
    <3>2. CASE mints'[d] = <<msg.net>>
      BY <2>2, <3>2
    <3>3. QED
      BY <2>1, <3>1, <3>2
  <2>4. QED
    BY <2>3 DEF MintedOnce
<1>2. CASE UNCHANGED mints
  BY <1>2 DEF MintedOnce
<1>3. QED
  BY <1>1, <1>2 DEF Mint!Next, Mint!ChangeMembers, Mint!Vote, Mint!vars

(* However many nodes are configured as leader, and whatever they send, a   *)
(* deposit is minted at most once.                                          *)
THEOREM DepositsAreMintedOnce == Spec => []MintedOnce
<1>1. Init => MintedOnce
  BY DEF Init, MintedOnce
<1>2. Spec => [](TypeOK /\ LoopInv /\ VoteInv)
  BY TypeInitially, TypeInductive, VoteInitially, VoteInductive, PTL DEF Spec
<1>3. QED
  BY <1>1, <1>2, StepsAreAgreed, AgreedMintsOnce, PTL DEF Spec

-----------------------------------------------------------------------------
(***************************************************************************)
(* What a node's database says about a deposit agrees with what happened   *)
(* on the EVM: a deposit is sent at most once, what is called confirmed is *)
(* minted and what is called failed is not, and the status only moves      *)
(* along the life cycle.                                                   *)
(***************************************************************************)

(* What the loop knows while it sends *)
SendingInv ==
    \A n \in Candidate :
        /\ pc[n] \in {"sending", "sent"} => status[n][cur[n]] = "SENDING_TO_EVM"
        /\ pc[n] = "sending" =>
              \A i \in DOMAIN txs : txs[i].from = n => txs[i].msg.dep # cur[n]
        /\ pc[n] = "sent" =>
              /\ txHash[n] \in DOMAIN txs
              /\ txs[txHash[n]].from = n
              /\ txs[txHash[n]].msg.dep = cur[n]

(* A deposit with a transaction is not to be sent again, and a transaction  *)
(* that succeeded has minted.                                               *)
TransactionInv ==
    \A i \in DOMAIN txs :
        /\ status[txs[i].from][txs[i].msg.dep] \notin {"NONE", "DETECTED", "ACCEPTED"}
        /\ txs[i].state = "ok" => mints[txs[i].msg.dep] # <<>>

(* The stored transaction hash is that of the deposit's transaction. *)
HashInv ==
    \A n \in Candidate, d \in Deposit :
        status[n][d] \in {"SENT_TO_EVM", "CONFIRMED_IN_EVM", "EVM_TRANSACTION_FAILED"} =>
            /\ evmTxHash[n][d] \in DOMAIN txs
            /\ txs[evmTxHash[n][d]].from = n
            /\ txs[evmTxHash[n][d]].msg.dep = d
            /\ status[n][d] = "CONFIRMED_IN_EVM" => txs[evmTxHash[n][d]].state = "ok"
            /\ status[n][d] = "EVM_TRANSACTION_FAILED" => txs[evmTxHash[n][d]].state = "reverted"

(* Nothing is minted without a transaction. *)
MintInv ==
    \A d \in Deposit :
        mints[d] # <<>> => \E i \in DOMAIN txs : txs[i].msg.dep = d /\ txs[i].state = "ok"

SendInv == SendingInv /\ TransactionInv /\ HashInv /\ MintInv /\ SentOnce

-----------------------------------------------------------------------------
LEMMA SendInitially == Init => SendInv
<1> SUFFICES ASSUME Init
             PROVE  SendInv
  OBVIOUS
<1>1. DOMAIN txs = {}
  BY DEF Init
<1>2. QED
  BY <1>1 DEF Init, SendInv, SendingInv, TransactionInv, HashInv, MintInv, SentOnce

LEMMA FieldsOfTransactions ==
  ASSUME TypeOK
  PROVE  \A i \in DOMAIN txs : txs[i].from \in Candidate /\ txs[i].msg.dep \in Deposit
<1>1. \A i \in DOMAIN txs : txs[i] \in Transaction
  BY DEF TypeOK
<1>2. QED
  BY <1>1 DEF Transaction, Message

(* A step that changes no status, sends nothing and mines nothing *)
LEMMA QuietSend ==
  ASSUME SendInv, UNCHANGED <<status, evmTxHash, txs, mints>>,
         \A n \in Candidate :
            pc'[n] \in {"sending", "sent"} =>
                pc'[n] = pc[n] /\ cur'[n] = cur[n] /\ txHash'[n] = txHash[n]
  PROVE  SendInv'
<1>1. SendingInv'
  BY DEF SendInv, SendingInv
<1>2. TransactionInv' /\ HashInv' /\ MintInv' /\ SentOnce'
  BY DEF SendInv, TransactionInv, HashInv, MintInv, SentOnce
<1>3. QED
  BY <1>1, <1>2 DEF SendInv

(* A step that only moves statuses, of deposits that are not being sent *)
LEMMA StatusMoves ==
  ASSUME TypeOK, LoopInv, SendInv, UNCHANGED <<evmTxHash, txs, mints>>,
         \A n \in Candidate :
            pc'[n] \in {"sending", "sent"} =>
                /\ pc'[n] = pc[n] /\ cur'[n] = cur[n] /\ txHash'[n] = txHash[n]
                /\ status'[n] = status[n],
         \A n \in Candidate, d \in Deposit :
            \/ status'[n][d] = status[n][d]
            \/ /\ status[n][d] \in {"NONE", "DETECTED"}
               /\ status'[n][d] \in {"DETECTED", "ACCEPTED"}
            \/ /\ status[n][d] = "SENT_TO_EVM"
               /\ status'[n][d] = "CONFIRMED_IN_EVM"
               /\ txs[evmTxHash[n][d]].state = "ok"
            \/ /\ status[n][d] = "SENT_TO_EVM"
               /\ status'[n][d] = "EVM_TRANSACTION_FAILED"
               /\ txs[evmTxHash[n][d]].state = "reverted"
  PROVE  SendInv'
<1>1. SendingInv'
  BY DEF SendInv, SendingInv
<1>2. TransactionInv'
  BY FieldsOfTransactions DEF SendInv, TransactionInv
<1>3. HashInv'
  <2> SUFFICES ASSUME NEW n \in Candidate, NEW d \in Deposit,
                      status'[n][d] \in {"SENT_TO_EVM", "CONFIRMED_IN_EVM",
                                         "EVM_TRANSACTION_FAILED"}
               PROVE  /\ evmTxHash[n][d] \in DOMAIN txs
                      /\ txs[evmTxHash[n][d]].from = n
                      /\ txs[evmTxHash[n][d]].msg.dep = d
                      /\ status'[n][d] = "CONFIRMED_IN_EVM" =>
                            txs[evmTxHash[n][d]].state = "ok"
                      /\ status'[n][d] = "EVM_TRANSACTION_FAILED" =>
                            txs[evmTxHash[n][d]].state = "reverted"
    BY DEF HashInv
  <2>1. status[n][d] \in {"SENT_TO_EVM", "CONFIRMED_IN_EVM", "EVM_TRANSACTION_FAILED"}
    OBVIOUS
  <2>2. QED
    BY <2>1 DEF SendInv, HashInv
<1>4. MintInv' /\ SentOnce'
  BY DEF SendInv, MintInv, SentOnce
<1>5. QED
  BY <1>1, <1>2, <1>3, <1>4 DEF SendInv

(* Looking for the receipt moves a sent deposit to what the receipt says. *)
LEMMA ReceiptMoves ==
  ASSUME TypeOK, NEW n \in Candidate, NEW d \in Deposit
  PROVE  \/ ReceiptStatus(n, d) = status[n][d]
         \/ /\ status[n][d] = "SENT_TO_EVM"
            /\ ReceiptStatus(n, d) = "CONFIRMED_IN_EVM"
            /\ txs[evmTxHash[n][d]].state = "ok"
         \/ /\ status[n][d] = "SENT_TO_EVM"
            /\ ReceiptStatus(n, d) = "EVM_TRANSACTION_FAILED"
            /\ txs[evmTxHash[n][d]].state = "reverted"
BY DEF ReceiptStatus

(* Mining a transaction keeps every fact about the others. *)
LEMMA MiningKeeps ==
  ASSUME TypeOK, SendInv, NEW i \in DOMAIN txs, NEW st \in {"ok", "reverted"},
         txs[i].state = "pending",
         txs' = [txs EXCEPT ![i].state = st],
         UNCHANGED <<status, evmTxHash, pc, cur, txHash>>,
         \A d \in Deposit : mints'[d] = mints[d] \/ (mints'[d] # <<>> /\ d = txs[i].msg.dep /\ st = "ok"),
         st = "ok" => mints'[txs[i].msg.dep] # <<>>
  PROVE  SendInv'
<1>1. /\ DOMAIN txs' = DOMAIN txs
      /\ \A j \in DOMAIN txs :
            /\ txs'[j].from = txs[j].from /\ txs'[j].msg = txs[j].msg
            /\ txs'[j].state = IF j = i THEN st ELSE txs[j].state
  BY SettledTransaction DEF TypeOK
<1>2. \A j \in DOMAIN txs : txs[j].from \in Candidate /\ txs[j].msg.dep \in Deposit
  BY FieldsOfTransactions
<1>3. SendingInv'
  BY <1>1 DEF SendInv, SendingInv
<1>4. TransactionInv'
  BY <1>1, <1>2 DEF SendInv, TransactionInv
<1>5. HashInv'
  <2> SUFFICES ASSUME NEW n \in Candidate, NEW d \in Deposit,
                      status[n][d] \in {"SENT_TO_EVM", "CONFIRMED_IN_EVM",
                                        "EVM_TRANSACTION_FAILED"}
               PROVE  /\ evmTxHash[n][d] \in DOMAIN txs'
                      /\ txs'[evmTxHash[n][d]].from = n
                      /\ txs'[evmTxHash[n][d]].msg.dep = d
                      /\ status[n][d] = "CONFIRMED_IN_EVM" =>
                            txs'[evmTxHash[n][d]].state = "ok"
                      /\ status[n][d] = "EVM_TRANSACTION_FAILED" =>
                            txs'[evmTxHash[n][d]].state = "reverted"
    BY DEF HashInv
  <2>1. QED
    BY <1>1 DEF SendInv, HashInv
<1>6. MintInv'
  BY <1>1, <1>2 DEF SendInv, MintInv
<1>7. SentOnce'
  BY <1>1 DEF SendInv, SentOnce
<1>8. QED
  BY <1>3, <1>4, <1>5, <1>6, <1>7 DEF SendInv

-----------------------------------------------------------------------------
(* SENDING_TO_EVM is committed: nothing has been sent for the deposit yet. *)
LEMMA CommitSendingKeeps ==
  ASSUME TypeOK, LoopInv, SendInv, NEW n \in Candidate, CommitSending(n)
  PROVE  SendInv'
<1>1. /\ cur[n] \in Deposit /\ status[n][cur[n]] = "ACCEPTED"
      /\ status' = [status EXCEPT ![n][cur[n]] = "SENDING_TO_EVM"]
      /\ pc' = [pc EXCEPT ![n] = "sending"]
      /\ UNCHANGED <<evmTxHash, txs, mints, cur, txHash>>
  BY DEF CommitSending, Sendable, LoopInv, Handling, mintVars
<1>2. /\ status'[n][cur[n]] = "SENDING_TO_EVM"
      /\ \A m \in Candidate, d \in Deposit :
            m # n \/ d # cur[n] => status'[m][d] = status[m][d]
      /\ pc'[n] = "sending"
      /\ \A m \in Candidate \ {n} : pc'[m] = pc[m]
  BY <1>1 DEF TypeOK
<1>3. \A i \in DOMAIN txs : txs[i].from = n => txs[i].msg.dep # cur[n]
  BY <1>1 DEF SendInv, TransactionInv
<1>4. SendingInv'
  <2> SUFFICES ASSUME NEW m \in Candidate
               PROVE  /\ pc'[m] \in {"sending", "sent"} => status'[m][cur[m]] = "SENDING_TO_EVM"
                      /\ pc'[m] = "sending" =>
                            \A i \in DOMAIN txs : txs[i].from = m => txs[i].msg.dep # cur[m]
                      /\ pc'[m] = "sent" =>
                            /\ txHash[m] \in DOMAIN txs
                            /\ txs[txHash[m]].from = m
                            /\ txs[txHash[m]].msg.dep = cur[m]
    BY <1>1 DEF SendingInv
  <2>1. CASE m = n
    BY <1>2, <1>3, <2>1
  <2>2. CASE m # n
    BY <1>2, <2>2 DEF SendInv, SendingInv, LoopInv, Handling
  <2>3. QED
    BY <2>1, <2>2
<1>5. TransactionInv'
  BY <1>1, <1>2, FieldsOfTransactions DEF SendInv, TransactionInv
<1>6. HashInv'
  BY <1>1, <1>2 DEF SendInv, HashInv
<1>7. MintInv' /\ SentOnce'
  BY <1>1 DEF SendInv, MintInv, SentOnce
<1>8. QED
  BY <1>4, <1>5, <1>6, <1>7 DEF SendInv

(* The list of transactions with the submitted one at its end *)
LEMMA AppendedTransaction ==
  ASSUME TypeOK, LoopInv, NEW n \in Candidate, pc[n] = "sending",
         txs' = Append(txs, Submitted(n))
  PROVE  /\ Len(txs) \in Nat /\ DOMAIN txs = 1 .. Len(txs)
         /\ DOMAIN txs' = DOMAIN txs \cup {Len(txs) + 1}
         /\ Len(txs) + 1 \notin DOMAIN txs
         /\ \A i \in DOMAIN txs : txs'[i] = txs[i]
         /\ txs'[Len(txs) + 1].from = n
         /\ txs'[Len(txs) + 1].msg.dep = cur[n]
         /\ txs'[Len(txs) + 1].state = "pending"
<1> DEFINE tx == Submitted(n)
<1>1. tx.from = n /\ tx.msg.dep = cur[n] /\ tx.state = "pending"
  BY DEF Submitted, Msg
<1>2. tx \in Transaction /\ txs \in Seq(Transaction)
  BY SubmittedIsTransaction DEF TypeOK
<1> HIDE DEF tx
<1>3. txs' = Append(txs, tx)
  BY DEF tx
<1>4. /\ Len(txs) \in Nat /\ DOMAIN txs = 1 .. Len(txs)
      /\ DOMAIN txs' = 1 .. Len(txs) + 1
      /\ \A i \in 1 .. Len(txs) : txs'[i] = txs[i]
      /\ txs'[Len(txs) + 1] = tx
  BY <1>2, <1>3
<1>5. QED
  BY <1>1, <1>4

(* A transaction is sent for a deposit that is SENDING_TO_EVM and has none. *)
LEMMA SendingKeeps ==
  ASSUME TypeOK, LoopInv, SendInv, NEW n \in Candidate, pc[n] = "sending",
         txs' = Append(txs, Submitted(n)),
         UNCHANGED <<evmTxHash, mints>>,
         status'[n][cur[n]] \in {"SENDING_TO_EVM", "SENDING_TO_EVM_FAILED"},
         \A m \in Candidate, d \in Deposit :
            m # n \/ d # cur[n] => status'[m][d] = status[m][d]
  PROVE  TransactionInv' /\ HashInv' /\ MintInv' /\ SentOnce'
<1> DEFINE new == Len(txs) + 1
<1>1. /\ DOMAIN txs' = DOMAIN txs \cup {new} /\ new \notin DOMAIN txs
      /\ \A i \in DOMAIN txs : txs'[i] = txs[i]
      /\ txs'[new].from = n /\ txs'[new].msg.dep = cur[n] /\ txs'[new].state = "pending"
  BY AppendedTransaction
<1> HIDE DEF new
<1>2. \A i \in DOMAIN txs : txs[i].from \in Candidate /\ txs[i].msg.dep \in Deposit
  BY FieldsOfTransactions
<1>3. /\ cur[n] \in Deposit /\ status[n][cur[n]] = "SENDING_TO_EVM"
      /\ \A i \in DOMAIN txs : txs[i].from = n => txs[i].msg.dep # cur[n]
  BY DEF LoopInv, Handling, SendInv, SendingInv
<1>4. TransactionInv'
  <2>1. ASSUME NEW i \in DOMAIN txs
        PROVE  /\ status'[txs'[i].from][txs'[i].msg.dep] \notin {"NONE", "DETECTED", "ACCEPTED"}
               /\ txs'[i].state = "ok" => mints'[txs'[i].msg.dep] # <<>>
    <3>1. status'[txs[i].from][txs[i].msg.dep] = status[txs[i].from][txs[i].msg.dep]
      BY <1>2, <1>3
    <3>2. QED
      BY <1>1, <3>1 DEF SendInv, TransactionInv
  <2>2. /\ status'[txs'[new].from][txs'[new].msg.dep] \notin {"NONE", "DETECTED", "ACCEPTED"}
        /\ txs'[new].state = "ok" => mints'[txs'[new].msg.dep] # <<>>
    BY <1>1
  <2>3. QED
    BY <1>1, <2>1, <2>2 DEF TransactionInv
<1>5. HashInv'
  <2> SUFFICES ASSUME NEW m \in Candidate, NEW d \in Deposit,
                      status'[m][d] \in {"SENT_TO_EVM", "CONFIRMED_IN_EVM",
                                         "EVM_TRANSACTION_FAILED"}
               PROVE  /\ evmTxHash[m][d] \in DOMAIN txs'
                      /\ txs'[evmTxHash[m][d]].from = m
                      /\ txs'[evmTxHash[m][d]].msg.dep = d
                      /\ status'[m][d] = "CONFIRMED_IN_EVM" =>
                            txs'[evmTxHash[m][d]].state = "ok"
                      /\ status'[m][d] = "EVM_TRANSACTION_FAILED" =>
                            txs'[evmTxHash[m][d]].state = "reverted"
    BY DEF HashInv
  <2>1. status'[m][d] = status[m][d]
    OBVIOUS
  <2>2. QED
    BY <1>1, <2>1 DEF SendInv, HashInv
<1>6. MintInv'
  <2> SUFFICES ASSUME NEW d \in Deposit, mints[d] # <<>>
               PROVE  \E i \in DOMAIN txs' : txs'[i].msg.dep = d /\ txs'[i].state = "ok"
    BY DEF MintInv
  <2>1. PICK i \in DOMAIN txs : txs[i].msg.dep = d /\ txs[i].state = "ok"
    BY DEF SendInv, MintInv
  <2>2. QED
    BY <1>1, <2>1
<1>7. SentOnce'
  BY <1>1, <1>3 DEF SendInv, SentOnce
<1>8. QED
  BY <1>4, <1>5, <1>6, <1>7

LEMMA TransactKeeps ==
  ASSUME TypeOK, LoopInv, SendInv, NEW n \in Candidate, Transact(n)
  PROVE  SendInv'
<1>1. /\ pc[n] = "sending" /\ txs' = Append(txs, Submitted(n))
      /\ txHash' = [txHash EXCEPT ![n] = Len(txs) + 1]
      /\ pc' = [pc EXCEPT ![n] = "sent"]
      /\ UNCHANGED <<status, evmTxHash, mints, cur>>
  BY DEF Transact, dbVars, mintVars
<1>2. cur[n] \in Deposit /\ status[n][cur[n]] = "SENDING_TO_EVM"
  BY <1>1 DEF LoopInv, Handling, SendInv, SendingInv
<1>3. TransactionInv' /\ HashInv' /\ MintInv' /\ SentOnce'
  BY <1>1, <1>2, SendingKeeps
<1>4. SendingInv'
  <2> DEFINE new == Len(txs) + 1
  <2>1. /\ DOMAIN txs' = DOMAIN txs \cup {new}
        /\ \A i \in DOMAIN txs : txs'[i] = txs[i]
        /\ txs'[new].from = n /\ txs'[new].msg.dep = cur[n]
    BY <1>1, AppendedTransaction
  <2>2. /\ pc'[n] = "sent" /\ txHash'[n] = new
        /\ \A m \in Candidate \ {n} : pc'[m] = pc[m] /\ txHash'[m] = txHash[m]
    BY <1>1 DEF TypeOK
  <2> HIDE DEF new
  <2> SUFFICES ASSUME NEW m \in Candidate
               PROVE  /\ pc'[m] \in {"sending", "sent"} => status[m][cur[m]] = "SENDING_TO_EVM"
                      /\ pc'[m] = "sending" =>
                            \A i \in DOMAIN txs' : txs'[i].from = m => txs'[i].msg.dep # cur[m]
                      /\ pc'[m] = "sent" =>
                            /\ txHash'[m] \in DOMAIN txs'
                            /\ txs'[txHash'[m]].from = m
                            /\ txs'[txHash'[m]].msg.dep = cur[m]
    BY <1>1 DEF SendingInv
  <2>3. CASE m = n
    BY <1>2, <2>1, <2>2, <2>3
  <2>4. CASE m # n
    BY <2>1, <2>2, <2>4 DEF SendInv, SendingInv
  <2>5. QED
    BY <2>3, <2>4
<1>5. QED
  BY <1>3, <1>4 DEF SendInv

(* The call raised: the deposit is never sent again, with a transaction or  *)
(* without.                                                                 *)
LEMMA TransactRaisesKeeps ==
  ASSUME TypeOK, LoopInv, SendInv, NEW n \in Candidate, TransactRaises(n)
  PROVE  SendInv'
<1>1. /\ pc[n] = "sending"
      /\ txs' = txs \/ txs' = Append(txs, Submitted(n))
      /\ status' = [status EXCEPT ![n][cur[n]] = "SENDING_TO_EVM_FAILED"]
      /\ NextDeposit(n)
      /\ UNCHANGED <<evmTxHash, mints>>
  BY DEF TransactRaises, mintVars
<1>2. cur[n] \in Deposit /\ status[n][cur[n]] = "SENDING_TO_EVM"
  BY <1>1 DEF LoopInv, Handling, SendInv, SendingInv
<1>3. /\ status'[n][cur[n]] = "SENDING_TO_EVM_FAILED"
      /\ \A m \in Candidate, d \in Deposit :
            m # n \/ d # cur[n] => status'[m][d] = status[m][d]
  BY <1>1, <1>2 DEF TypeOK
<1>4. TransactionInv' /\ HashInv' /\ MintInv' /\ SentOnce'
  <2>1. CASE txs' = Append(txs, Submitted(n))
    BY <1>1, <1>3, <2>1, SendingKeeps
  <2>2. CASE txs' = txs
    <3>1. TransactionInv'
      BY <1>1, <1>3, <2>2, FieldsOfTransactions DEF SendInv, TransactionInv
    <3>2. HashInv'
      BY <1>1, <1>3, <2>2 DEF SendInv, HashInv
    <3>3. MintInv' /\ SentOnce'
      BY <1>1, <2>2 DEF SendInv, MintInv, SentOnce
    <3>4. QED
      BY <3>1, <3>2, <3>3
  <2>3. QED
    BY <1>1, <2>1, <2>2
<1>5. SendingInv'
  <2>1. /\ pc'[n] = "handle"
        /\ \A m \in Candidate \ {n} :
              pc'[m] = pc[m] /\ cur'[m] = cur[m] /\ txHash'[m] = txHash[m]
    BY <1>1, NextDepositLoop
  <2>2. /\ \A i \in DOMAIN txs : i \in DOMAIN txs' /\ txs'[i] = txs[i]
        /\ \A i \in DOMAIN txs' : i \in DOMAIN txs \/ txs'[i].from = n
    <3>1. CASE txs' = txs
      BY <3>1
    <3>2. CASE txs' = Append(txs, Submitted(n))
      BY <1>1, <3>2, AppendedTransaction
    <3>3. QED
      BY <1>1, <3>1, <3>2
  <2> SUFFICES ASSUME NEW m \in Candidate, m # n
               PROVE  /\ pc[m] \in {"sending", "sent"} => status'[m][cur[m]] = "SENDING_TO_EVM"
                      /\ pc[m] = "sending" =>
                            \A i \in DOMAIN txs' : txs'[i].from = m => txs'[i].msg.dep # cur[m]
                      /\ pc[m] = "sent" =>
                            /\ txHash[m] \in DOMAIN txs'
                            /\ txs'[txHash[m]].from = m
                            /\ txs'[txHash[m]].msg.dep = cur[m]
    BY <2>1 DEF SendingInv
  <2>3. QED
    BY <1>3, <2>2 DEF SendInv, SendingInv, LoopInv, Handling
<1>6. QED
  BY <1>4, <1>5 DEF SendInv

(* The hash that is stored is that of the transaction just sent. *)
LEMMA CommitSentKeeps ==
  ASSUME TypeOK, LoopInv, SendInv, NEW n \in Candidate, CommitSent(n)
  PROVE  SendInv'
<1>1. /\ pc[n] = "sent"
      /\ status' = [status EXCEPT ![n][cur[n]] = "SENT_TO_EVM"]
      /\ evmTxHash' = [evmTxHash EXCEPT ![n][cur[n]] = txHash[n]]
      /\ pc' = [pc EXCEPT ![n] = "own"]
      /\ UNCHANGED <<txs, mints, cur, txHash>>
  BY DEF CommitSent, mintVars
<1>2. /\ cur[n] \in Deposit /\ status[n][cur[n]] = "SENDING_TO_EVM"
      /\ txHash[n] \in DOMAIN txs
      /\ txs[txHash[n]].from = n /\ txs[txHash[n]].msg.dep = cur[n]
  BY <1>1 DEF LoopInv, Handling, SendInv, SendingInv
<1>3. /\ status'[n][cur[n]] = "SENT_TO_EVM" /\ evmTxHash'[n][cur[n]] = txHash[n]
      /\ \A m \in Candidate, d \in Deposit :
            m # n \/ d # cur[n] =>
                status'[m][d] = status[m][d] /\ evmTxHash'[m][d] = evmTxHash[m][d]
      /\ pc'[n] = "own"
      /\ \A m \in Candidate \ {n} : pc'[m] = pc[m]
  BY <1>1, <1>2 DEF TypeOK
<1>4. SendingInv'
  BY <1>1, <1>3 DEF SendInv, SendingInv, LoopInv, Handling
<1>5. TransactionInv'
  BY <1>1, <1>3, FieldsOfTransactions DEF SendInv, TransactionInv
<1>6. HashInv'
  <2> SUFFICES ASSUME NEW m \in Candidate, NEW d \in Deposit,
                      status'[m][d] \in {"SENT_TO_EVM", "CONFIRMED_IN_EVM",
                                         "EVM_TRANSACTION_FAILED"}
               PROVE  /\ evmTxHash'[m][d] \in DOMAIN txs
                      /\ txs[evmTxHash'[m][d]].from = m
                      /\ txs[evmTxHash'[m][d]].msg.dep = d
                      /\ status'[m][d] = "CONFIRMED_IN_EVM" =>
                            txs[evmTxHash'[m][d]].state = "ok"
                      /\ status'[m][d] = "EVM_TRANSACTION_FAILED" =>
                            txs[evmTxHash'[m][d]].state = "reverted"
    BY <1>1 DEF HashInv
  <2>1. CASE m = n /\ d = cur[n]
    BY <1>2, <1>3, <2>1
  <2>2. CASE m # n \/ d # cur[n]
    BY <1>3, <2>2 DEF SendInv, HashInv
  <2>3. QED
    BY <2>1, <2>2
<1>7. MintInv' /\ SentOnce'
  BY <1>1 DEF SendInv, MintInv, SentOnce
<1>8. QED
  BY <1>4, <1>5, <1>6, <1>7 DEF SendInv

(* How the scan and the receipts move the statuses of one node *)
LEMMA ScanKeeps ==
  ASSUME TypeOK, LoopInv, SendInv, NEW n \in Candidate, scan_rune_deposits(n)
  PROVE  SendInv'
<1>1. /\ status' = [status EXCEPT ![n] =
            [d \in Deposit |-> IF d \in Listed(n) THEN ScannedStatus(n, d) ELSE status[n][d]]]
      /\ pc' = [pc EXCEPT ![n] = "confirm"]
      /\ UNCHANGED <<evmTxHash, txs, mints, cur, txHash>>
  BY DEF scan_rune_deposits, mintVars
<1>2. pc'[n] = "confirm" /\ \A m \in Candidate \ {n} : pc'[m] = pc[m] /\ status'[m] = status[m]
  BY <1>1 DEF TypeOK
<1>3. \A d \in Deposit :
         \/ status'[n][d] = status[n][d]
         \/ /\ status[n][d] \in {"NONE", "DETECTED"}
            /\ status'[n][d] \in {"DETECTED", "ACCEPTED"}
  BY <1>1 DEF TypeOK, ScannedStatus
<1>4. QED
  BY <1>1, <1>2, <1>3, StatusMoves

LEMMA ReceiptKeeps ==
  ASSUME TypeOK, LoopInv, SendInv, NEW n \in Candidate, NEW d \in Deposit,
         status' = [status EXCEPT ![n][d] = ReceiptStatus(n, d)],
         UNCHANGED <<evmTxHash, txs, mints>>,
         pc'[n] \notin {"sending", "sent"},
         \A m \in Candidate \ {n} :
            pc'[m] = pc[m] /\ cur'[m] = cur[m] /\ txHash'[m] = txHash[m]
  PROVE  SendInv'
<1>1. /\ status'[n][d] = ReceiptStatus(n, d)
      /\ \A e \in Deposit \ {d} : status'[n][e] = status[n][e]
      /\ \A m \in Candidate \ {n} : status'[m] = status[m]
  BY DEF TypeOK
<1>2. \/ ReceiptStatus(n, d) = status[n][d]
      \/ /\ status[n][d] = "SENT_TO_EVM"
         /\ ReceiptStatus(n, d) = "CONFIRMED_IN_EVM"
         /\ txs[evmTxHash[n][d]].state = "ok"
      \/ /\ status[n][d] = "SENT_TO_EVM"
         /\ ReceiptStatus(n, d) = "EVM_TRANSACTION_FAILED"
         /\ txs[evmTxHash[n][d]].state = "reverted"
  BY ReceiptMoves
<1>3. QED
  BY <1>1, <1>2, StatusMoves

-----------------------------------------------------------------------------
LEMMA SendInductive == TypeOK /\ LoopInv /\ SendInv /\ [Next]_vars => SendInv'
<1> SUFFICES ASSUME TypeOK, LoopInv, SendInv, [Next]_vars
             PROVE  SendInv'
  OBVIOUS
<1> USE DEF btcVars, dbVars, loopVars, cfgVars, mintVars, adminVars
<1>1. CASE Bitcoin
  BY <1>1, QuietSend DEF Bitcoin, MineBtc, SpendOutput
<1>2. ASSUME NEW n \in Candidate, RunIteration(n)
      PROVE  SendInv'
  <2>1. CASE scan_rune_deposits(n)
    BY <2>1, ScanKeeps
  <2>2. ASSUME NEW d \in Deposit, confirm_sent_rune_deposits(n, d)
        PROVE  SendInv'
    BY <2>2, ReceiptKeeps DEF confirm_sent_rune_deposits
  <2>3. CASE BeginHandling(n)
    <3>1. \/ pc' = [pc EXCEPT ![n] = "handle"]
          \/ pc' = [pc EXCEPT ![n] = "idle"]
      BY <2>3, Zenon DEF BeginHandling
    <3>2. UNCHANGED <<status, evmTxHash, txs, mints, cur, txHash>>
      BY <2>3 DEF BeginHandling
    <3>3. \A m \in Candidate : pc'[m] \in {"sending", "sent"} => pc'[m] = pc[m]
      BY <3>1 DEF TypeOK
    <3>4. QED
      BY <3>2, <3>3, QuietSend
  <2>4. CASE EndIteration(n)
    BY <2>4, QuietSend DEF EndIteration, TypeOK
  <2>5. CASE IterationRaises(n)
    BY <2>5, QuietSend DEF IterationRaises, TypeOK
  <2>6. QED
    BY <1>2, <2>1, <2>2, <2>3, <2>4, <2>5 DEF RunIteration
<1>3. ASSUME NEW n \in Candidate, NextDeposit(n), UNCHANGED <<status, evmTxHash, txs, mints>>
      PROVE  SendInv'
  BY <1>3, NextDepositLoop, QuietSend
<1>4. ASSUME NEW n \in Candidate, CollectSignatures(n)
      PROVE  SendInv'
  <2>1. ASSUME NEW d \in Deposit, StartDeposit(n, d) \/ SkipDeposit(n, d)
        PROVE  SendInv'
    BY <2>1, QuietSend DEF StartDeposit, SkipDeposit, TypeOK
  <2>2. CASE SelfAnswer(n)
    BY <2>2, QuietSend DEF SelfAnswer, TypeOK
  <2>3. CASE SelfAnswerRaises(n)
    BY <1>3, <2>3 DEF SelfAnswerRaises
  <2>4. ASSUME NEW p \in Node, PeerAnswers(n, p) \/ NoAnswerFromPeer(n, p)
        PROVE  SendInv'
    BY <2>4, QuietSend DEF PeerAnswers, NoAnswerFromPeer, AskPeer
  <2>5. CASE update_rune_deposit_signatures(n)
    <3>1. /\ UNCHANGED <<status, evmTxHash, txs, mints>>
          /\ \/ pc' = [pc EXCEPT ![n] = "send"] /\ UNCHANGED <<cur, txHash>>
             \/ NextDeposit(n)
      BY <2>5 DEF update_rune_deposit_signatures
    <3>2. CASE pc' = [pc EXCEPT ![n] = "send"] /\ UNCHANGED <<cur, txHash>>
      BY <3>1, <3>2, QuietSend DEF TypeOK
    <3>3. QED
      BY <1>3, <3>1, <3>2
  <2>6. QED
    BY <1>4, <2>1, <2>2, <2>3, <2>4, <2>5 DEF CollectSignatures
<1>5. ASSUME NEW n \in Candidate, Send(n)
      PROVE  SendInv'
  <2>1. CASE NotSent(n) \/ TooManyPending(n) \/ HandlingRaises(n)
    BY <1>3, <2>1 DEF NotSent, TooManyPending, HandlingRaises
  <2>2. CASE ConfirmOwn(n)
    <3>1. /\ cur[n] \in Deposit
          /\ status' = [status EXCEPT ![n][cur[n]] = ReceiptStatus(n, cur[n])]
          /\ NextDeposit(n)
          /\ UNCHANGED <<evmTxHash, txs, mints>>
      BY <2>2 DEF ConfirmOwn, LoopInv, Handling
    <3>2. /\ pc'[n] = "handle"
          /\ \A m \in Candidate \ {n} :
                pc'[m] = pc[m] /\ cur'[m] = cur[m] /\ txHash'[m] = txHash[m]
      BY <3>1, NextDepositLoop
    <3>3. QED
      BY <3>1, <3>2, ReceiptKeeps
  <2>3. QED
    BY <1>5, <2>1, <2>2, CommitSendingKeeps, TransactKeeps, TransactRaisesKeeps,
       CommitSentKeeps DEF Send
<1>6. CASE MineEvm
  <2>1. ASSUME NEW i \in DOMAIN txs, acceptTransferFromBtc(i)
        PROVE  SendInv'
    <3> DEFINE dep == txs[i].msg.dep
    <3>1. dep \in Deposit
      BY FieldsOfTransactions
    <3>2. mints' = [mints EXCEPT ![dep] = Append(mints[dep], txs[i].msg.net)]
      BY <2>1 DEF acceptTransferFromBtc
    <3>3. mints[dep] \in Seq(Fee) /\ txs[i].msg.net \in Fee
      BY <3>1, SettledTransaction DEF TypeOK, Message
    <3>4. Append(mints[dep], txs[i].msg.net) # <<>>
      <4> HIDE DEF dep
      <4>1. Len(Append(mints[dep], txs[i].msg.net)) = Len(mints[dep]) + 1
        BY <3>3
      <4>2. QED
        BY <3>3, <4>1
    <3>5. mints'[dep] # <<>> /\ \A d \in Deposit \ {dep} : mints'[d] = mints[d]
      BY <3>1, <3>2, <3>4 DEF TypeOK
    <3>6. QED
      BY <2>1, <3>1, <3>5, MiningKeeps DEF acceptTransferFromBtc, Minable
  <2>2. ASSUME NEW i \in DOMAIN txs, Revert(i)
        PROVE  SendInv'
    BY <2>2, MiningKeeps DEF Revert, Minable
  <2>3. QED
    BY <1>6, <2>1, <2>2 DEF MineEvm
<1>7. CASE Governance
  <2>1. UNCHANGED <<status, evmTxHash, txs, mints, pc, cur, txHash>>
    BY <1>7 DEF Governance, Governs, addFederator, removeFederator, setFrozen,
                registerRune, setRunePaused
  <2>2. QED
    BY <2>1, QuietSend
<1>8. CASE Operators
  BY <1>8, QuietSend DEF Operators, Restart
<1>9. CASE UNCHANGED vars
  BY <1>9, QuietSend DEF vars
<1>10. QED
  BY <1>1, <1>2, <1>4, <1>5, <1>6, <1>7, <1>8, <1>9 DEF Next

LEMMA SendInvariant == Spec => [](TypeOK /\ LoopInv /\ SendInv)
BY TypeInitially, TypeInductive, SendInitially, SendInductive, PTL DEF Spec

(* A node sends at most one transaction for a deposit, whatever restarts    *)
(* and raising calls come in between.                                       *)
THEOREM DepositsAreSentOnce == Spec => []SentOnce
<1>1. SendInv => SentOnce
  BY DEF SendInv
<1>2. QED
  BY <1>1, SendInvariant, PTL

(* confirm_sent_rune_deposits calls a deposit confirmed only when it is     *)
(* minted.                                                                  *)
THEOREM ConfirmedDepositsAreMinted == Spec => []ConfirmedIsMinted
<1>1. TypeOK /\ SendInv => ConfirmedIsMinted
  <2> SUFFICES ASSUME TypeOK, SendInv, NEW n \in Candidate, NEW d \in Deposit,
                      status[n][d] = "CONFIRMED_IN_EVM"
               PROVE  mints[d] # <<>>
    BY DEF ConfirmedIsMinted
  <2>1. /\ evmTxHash[n][d] \in DOMAIN txs
        /\ txs[evmTxHash[n][d]].msg.dep = d
        /\ txs[evmTxHash[n][d]].state = "ok"
    BY DEF SendInv, HashInv
  <2>2. QED
    BY <2>1 DEF SendInv, TransactionInv
<1>2. QED
  BY <1>1, SendInvariant, PTL

(* A deposit whose transaction failed is minted only by another leader's    *)
(* transaction.                                                             *)
THEOREM FailedDepositsAreNotMinted == Spec => []FailedIsNotMinted
<1>1. TypeOK /\ SendInv => FailedIsNotMinted
  <2> SUFFICES ASSUME TypeOK, SendInv, NEW n \in Candidate, NEW d \in Deposit,
                      status[n][d] = "EVM_TRANSACTION_FAILED", mints[d] # <<>>
               PROVE  \E i \in DOMAIN txs : /\ txs[i].from # n
                                            /\ txs[i].msg.dep = d
                                            /\ txs[i].state = "ok"
    BY DEF FailedIsNotMinted
  <2>1. PICK i \in DOMAIN txs : txs[i].msg.dep = d /\ txs[i].state = "ok"
    BY DEF SendInv, MintInv
  <2>2. /\ evmTxHash[n][d] \in DOMAIN txs
        /\ txs[evmTxHash[n][d]].from = n
        /\ txs[evmTxHash[n][d]].msg.dep = d
        /\ txs[evmTxHash[n][d]].state = "reverted"
    BY DEF SendInv, HashInv
  <2>3. txs[i].from # n
    BY <2>1, <2>2 DEF SendInv, SentOnce
  <2>4. QED
    BY <2>1, <2>3
<1>2. QED
  BY <1>1, SendInvariant, PTL

-----------------------------------------------------------------------------
(* The steps that change no status *)
LEMMA StatusKept ==
  ASSUME [Next]_vars,
         ~ \E n \in Candidate :
              \/ scan_rune_deposits(n)
              \/ \E d \in Deposit : confirm_sent_rune_deposits(n, d)
              \/ CommitSending(n) \/ TransactRaises(n) \/ CommitSent(n) \/ ConfirmOwn(n)
  PROVE  UNCHANGED status
<1> USE DEF dbVars
<1>1. CASE Bitcoin
  BY <1>1 DEF Bitcoin, MineBtc, SpendOutput
<1>2. ASSUME NEW n \in Candidate, RunIteration(n)
      PROVE  UNCHANGED status
  BY <1>2 DEF RunIteration, BeginHandling, EndIteration, IterationRaises
<1>3. ASSUME NEW n \in Candidate, CollectSignatures(n)
      PROVE  UNCHANGED status
  <2>1. CASE update_rune_deposit_signatures(n)
    BY <2>1 DEF update_rune_deposit_signatures
  <2>2. CASE SelfAnswer(n) \/ SelfAnswerRaises(n)
    BY <2>2 DEF SelfAnswer, SelfAnswerRaises
  <2>3. CASE \E d \in Deposit : StartDeposit(n, d) \/ SkipDeposit(n, d)
    BY <2>3 DEF StartDeposit, SkipDeposit
  <2>4. CASE \E p \in Node : PeerAnswers(n, p) \/ NoAnswerFromPeer(n, p)
    BY <2>4 DEF PeerAnswers, NoAnswerFromPeer, AskPeer
  <2>5. QED
    BY <1>3, <2>1, <2>2, <2>3, <2>4 DEF CollectSignatures
<1>4. ASSUME NEW n \in Candidate, Send(n)
      PROVE  UNCHANGED status
  BY <1>4 DEF Send, NotSent, Transact, TooManyPending, HandlingRaises
<1>5. CASE MineEvm
  BY <1>5 DEF MineEvm, acceptTransferFromBtc, Revert
<1>6. CASE Governance
  BY <1>6 DEF Governance, Governs, addFederator, removeFederator, setFrozen,
              registerRune, setRunePaused
<1>7. CASE Operators
  BY <1>7 DEF Operators, Restart
<1>8. CASE UNCHANGED vars
  BY <1>8 DEF vars
<1>9. QED
  BY <1>1, <1>2, <1>3, <1>4, <1>5, <1>6, <1>7, <1>8 DEF Next

(* A step that writes one status along the life cycle *)
LEMMA OneStatus ==
  ASSUME TypeOK, NEW n \in Candidate, NEW d \in Deposit, NEW st,
         status' = [status EXCEPT ![n][d] = st],
         st = status[n][d] \/ <<status[n][d], st>> \in LifeCycle
  PROVE  \A m \in Candidate, e \in Deposit :
            status'[m][e] # status[m][e] => <<status[m][e], status'[m][e]>> \in LifeCycle
<1>1. \A m \in Candidate, e \in Deposit :
         status'[m][e] = IF m = n /\ e = d THEN st ELSE status[m][e]
  BY DEF TypeOK
<1>2. QED
  BY <1>1

(* Statuses move only along the life cycle: a rescan, a late receipt or a   *)
(* restart never reopens a deposit.                                         *)
THEOREM StatusesFollowLifeCycle == Spec => StatusFollowsLifeCycle
<1> DEFINE Moves == \A m \in Candidate, e \in Deposit :
                       status'[m][e] # status[m][e] =>
                           <<status[m][e], status'[m][e]>> \in LifeCycle
<1>1. ASSUME TypeOK, LoopInv, SendInv, [Next]_vars
      PROVE  Moves
  <2> USE <1>1
  <2>1. ASSUME NEW n \in Candidate, scan_rune_deposits(n)
        PROVE  Moves
    <3>1. \A m \in Candidate, e \in Deposit :
             \/ status'[m][e] = status[m][e]
             \/ m = n /\ status'[m][e] = ScannedStatus(n, e)
      BY <2>1 DEF scan_rune_deposits, TypeOK
    <3>2. \A e \in Deposit :
             \/ ScannedStatus(n, e) = status[n][e]
             \/ <<status[n][e], ScannedStatus(n, e)>> \in LifeCycle
      BY DEF ScannedStatus, LifeCycle
    <3>3. QED
      BY <3>1, <3>2
  <2>2. ASSUME NEW n \in Candidate, NEW d \in Deposit,
               status' = [status EXCEPT ![n][d] = ReceiptStatus(n, d)]
        PROVE  Moves
    <3>1. \/ ReceiptStatus(n, d) = status[n][d]
          \/ <<status[n][d], ReceiptStatus(n, d)>> \in LifeCycle
      BY ReceiptMoves DEF LifeCycle
    <3>2. QED
      BY <2>2, <3>1, OneStatus
  <2>3. ASSUME NEW n \in Candidate, CommitSending(n)
        PROVE  Moves
    <3>1. /\ cur[n] \in Deposit /\ status[n][cur[n]] = "ACCEPTED"
          /\ status' = [status EXCEPT ![n][cur[n]] = "SENDING_TO_EVM"]
      BY <2>3 DEF CommitSending, Sendable, LoopInv, Handling
    <3>2. QED
      BY <3>1, OneStatus DEF LifeCycle
  <2>4. ASSUME NEW n \in Candidate, TransactRaises(n)
        PROVE  Moves
    <3>1. /\ cur[n] \in Deposit /\ status[n][cur[n]] = "SENDING_TO_EVM"
          /\ status' = [status EXCEPT ![n][cur[n]] = "SENDING_TO_EVM_FAILED"]
      BY <2>4 DEF TransactRaises, LoopInv, Handling, SendInv, SendingInv
    <3>2. QED
      BY <3>1, OneStatus DEF LifeCycle
  <2>5. ASSUME NEW n \in Candidate, CommitSent(n)
        PROVE  Moves
    <3>1. /\ cur[n] \in Deposit /\ status[n][cur[n]] = "SENDING_TO_EVM"
          /\ status' = [status EXCEPT ![n][cur[n]] = "SENT_TO_EVM"]
      BY <2>5 DEF CommitSent, LoopInv, Handling, SendInv, SendingInv
    <3>2. QED
      BY <3>1, OneStatus DEF LifeCycle
  <2>6. ASSUME NEW n \in Candidate,
               ConfirmOwn(n) \/ \E d \in Deposit : confirm_sent_rune_deposits(n, d)
        PROVE  Moves
    BY <2>2, <2>6 DEF ConfirmOwn, confirm_sent_rune_deposits, LoopInv, Handling
  <2>7. CASE UNCHANGED status
    BY <2>7
  <2>8. QED
    BY <2>1, <2>3, <2>4, <2>5, <2>6, <2>7, StatusKept
<1>2. TypeOK /\ LoopInv /\ SendInv /\ [Next]_vars =>
         [\A n \in Candidate, d \in Deposit :
             status'[n][d] # status[n][d] => <<status[n][d], status'[n][d]>> \in LifeCycle]_vars
  BY <1>1
<1>3. QED
  BY <1>2, SendInvariant, PTL DEF Spec, StatusFollowsLifeCycle

-----------------------------------------------------------------------------
(***************************************************************************)
(* The contract refuses a transaction for a reason: as long as governance  *)
(* has not acted, whatever update_rune_deposit_signatures has collected    *)
(* passes checkFederatorSignatures, unless the fee setting was changed in  *)
(* between, and only another leader's transaction can be first.            *)
(***************************************************************************)

Distinct(sigs) == \A i, j \in DOMAIN sigs : i # j => sigs[i].signer # sigs[j].signer

(* Nobody has two signatures among those stored for a deposit. *)
StoredInv == \A n \in Candidate, d \in Deposit : Distinct(signatures[n][d])

(* A processed deposit has been processed by a transaction of some leader. *)
ProcessedInv ==
    \A d \in processed : \E j \in DOMAIN txs : txs[j].msg.dep = d /\ txs[j].state = "ok"

(* Until governance acts, the contract is as it was deployed, and accepts   *)
(* the rune, the number and the signers of all that is on the way to it.    *)
UngovernedInv ==
    governance = 0 =>
        /\ federators = Node /\ ~frozen /\ registered = FirstRegistered /\ runePaused = {}
        /\ \A n \in Candidate : pc[n] \in Handling => RuneOf[cur[n]] \in FirstRegistered
        /\ \A n \in Candidate : pc[n] = "sending" => numRequired[n] = numRequiredFederators(Node)
        /\ \A i \in DOMAIN txs :
              /\ RuneOf[txs[i].msg.dep] \in FirstRegistered
              /\ Distinct(txs[i].sigs)
              /\ Len(txs[i].sigs) = numRequiredFederators(Node)

CauseInv == StoredInv /\ ProcessedInv /\ UngovernedInv /\ RevertsHaveACause

-----------------------------------------------------------------------------
LEMMA CauseInitially == Init => CauseInv
<1> SUFFICES ASSUME Init
             PROVE  CauseInv
  OBVIOUS
<1>1. StoredInv
  BY DEF Init, StoredInv, Distinct
<1>2. ProcessedInv /\ RevertsHaveACause
  BY DEF Init, ProcessedInv, RevertsHaveACause
<1>3. UngovernedInv
  BY DEF Init, UngovernedInv, Handling
<1>4. QED
  BY <1>1, <1>2, <1>3 DEF CauseInv

(* The signers of a list that update_rune_deposit_signatures has extended   *)
(* are as different as they were.                                           *)
LEMMA ExtendedSignersDiffer ==
  ASSUME TypeOK, NEW n \in Candidate, NEW d \in Deposit, Distinct(signatures[n][d]),
         NEW s \in ExtendedSignatures(n, d)
  PROVE  Distinct(s)
<1> DEFINE new == NewAnswers(n, d)
           c == Cardinality(new)
           old == signatures[n][d]
<1>1. new \subseteq 1 .. Len(answers[n]) /\ answers[n] \in Seq(Signature) /\ old \in Seq(Signature)
  BY DEF NewAnswers, TypeOK
<1>2. c \in Nat
  <2>1. Len(answers[n]) \in Int /\ 1 \in Int
    BY <1>1
  <2>2. IsFiniteSet(new)
    BY <1>1, <2>1, FS_Interval, FS_Subset
  <2>3. QED
    BY <2>2, FS_CardinalityType
<1>3. PICK f \in [1 .. c -> new] :
         /\ s = old \o [k \in 1 .. c |-> answers[n][f[k]]]
         /\ \A j, k \in 1 .. c : j < k => f[j] < f[k]
  BY DEF ExtendedSignatures
<1> DEFINE g == [k \in 1 .. c |-> answers[n][f[k]]]
<1>4. \A k \in 1 .. c : f[k] \in new /\ f[k] \in 1 .. Len(answers[n]) /\ g[k] = answers[n][f[k]]
  BY <1>1, <1>3
<1>5. g \in [1 .. c -> Signature]
  BY <1>1, <1>4
<1>6. \A k \in 1 .. c, i \in DOMAIN old : old[i].signer # g[k].signer
  BY <1>4 DEF NewAnswers
<1>7. \A j, k \in 1 .. c : j < k => g[j].signer # g[k].signer
  <2> SUFFICES ASSUME NEW j \in 1 .. c, NEW k \in 1 .. c, j < k
               PROVE  g[j].signer # g[k].signer
    OBVIOUS
  <2>1. f[j] < f[k] /\ f[j] \in DOMAIN answers[n] /\ f[k] \in new
    BY <1>1, <1>3, <1>4
  <2>2. answers[n][f[j]].signer # answers[n][f[k]].signer
    BY <2>1 DEF NewAnswers
  <2>3. QED
    BY <1>4, <2>2
<1>8. s = old \o g
  BY <1>3
<1> HIDE DEF new, c, old, g
<1>9. \A i \in DOMAIN (old \o g) :
         \/ i \in DOMAIN old /\ (old \o g)[i] = old[i]
         \/ i - Len(old) \in 1 .. c /\ (old \o g)[i] = g[i - Len(old)]
  BY <1>1, <1>2, <1>5, ExtendedList
<1>10. old \o g \in Seq(Signature)
  BY <1>1, <1>2, <1>5, ExtendedList
<1>11. DOMAIN s \subseteq Int
  BY <1>8, <1>10
<1>12. ASSUME NEW i \in DOMAIN s, NEW j \in DOMAIN s, i < j
       PROVE  s[i].signer # s[j].signer
  <2>1. CASE i \in DOMAIN old /\ s[i] = old[i] /\ j \in DOMAIN old /\ s[j] = old[j]
    BY <1>11, <1>12, <2>1 DEF Distinct, old
  <2>2. CASE i \in DOMAIN old /\ s[i] = old[i] /\ j - Len(old) \in 1 .. c /\ s[j] = g[j - Len(old)]
    BY <1>6, <2>2
  <2>3. CASE j \in DOMAIN old /\ s[j] = old[j] /\ i - Len(old) \in 1 .. c /\ s[i] = g[i - Len(old)]
    BY <1>6, <2>3
  <2>4. CASE /\ i - Len(old) \in 1 .. c /\ s[i] = g[i - Len(old)]
             /\ j - Len(old) \in 1 .. c /\ s[j] = g[j - Len(old)]
    <3>1. i - Len(old) < j - Len(old)
      BY <1>1, <1>8, <1>10, <1>12
    <3>2. QED
      BY <1>7, <2>4, <3>1
  <2>5. QED
    BY <1>8, <1>9, <2>1, <2>2, <2>3, <2>4
<1>13. QED
  BY <1>11, <1>12 DEF Distinct

(* What the loop knows of the deposit it handles survives a step that only  *)
(* goes on with it, or takes up a deposit whose rune is registered.         *)
LoopGoesOn ==
    \A n \in Candidate :
        /\ pc'[n] \in Handling => \/ pc[n] \in Handling /\ cur'[n] = cur[n]
                                  \/ RuneOf[cur'[n]] \in registered
        /\ pc'[n] = "sending" => \/ pc[n] = "sending" /\ numRequired'[n] = numRequired[n]
                                 \/ numRequired'[n] = numRequiredFederators(federators)

LEMMA QuietCause ==
  ASSUME CauseInv, StoredInv', LoopGoesOn,
         UNCHANGED <<txs, processed, federators, frozen, registered, runePaused, governance>>
  PROVE  CauseInv'
<1>1. ProcessedInv' /\ RevertsHaveACause'
  BY DEF CauseInv, ProcessedInv, RevertsHaveACause
<1>2. UngovernedInv'
  <2> SUFFICES ASSUME governance = 0
               PROVE  UngovernedInv'
    BY DEF UngovernedInv
  <2>1. /\ federators = Node /\ ~frozen /\ registered = FirstRegistered /\ runePaused = {}
        /\ \A i \in DOMAIN txs :
              /\ RuneOf[txs[i].msg.dep] \in FirstRegistered
              /\ Distinct(txs[i].sigs)
              /\ Len(txs[i].sigs) = numRequiredFederators(Node)
    BY DEF CauseInv, UngovernedInv
  <2>2. \A n \in Candidate : pc'[n] \in Handling => RuneOf[cur'[n]] \in FirstRegistered
    BY <2>1 DEF CauseInv, UngovernedInv, LoopGoesOn
  <2>3. \A n \in Candidate :
           pc'[n] = "sending" => numRequired'[n] = numRequiredFederators(Node)
    BY <2>1 DEF CauseInv, UngovernedInv, LoopGoesOn
  <2>4. QED
    BY <2>1, <2>2, <2>3 DEF UngovernedInv, Distinct
<1>3. QED
  BY <1>1, <1>2 DEF CauseInv

LEMMA NextDepositGoesOn ==
  ASSUME TypeOK, NEW n \in Candidate, NextDeposit(n)
  PROVE  LoopGoesOn
<1>1. pc'[n] = "handle"
  BY NextDepositLoop
<1>2. \A m \in Candidate \ {n} :
         pc'[m] = pc[m] /\ cur'[m] = cur[m] /\ numRequired'[m] = numRequired[m]
  BY NextDepositLoop
<1>3. QED
  BY <1>1, <1>2 DEF LoopGoesOn, Handling

(* What governance has not touched is accepted. *)
LEMMA SubmittedKeepsCause ==
  ASSUME TypeOK, LoopInv, CauseInv, NEW n \in Candidate, pc[n] = "sending",
         txs' = Append(txs, Submitted(n)), LoopGoesOn,
         UNCHANGED <<signatures, processed, federators, frozen, registered, runePaused, governance>>
  PROVE  CauseInv'
<1> DEFINE tx == Submitted(n)
<1>1. /\ tx \in Transaction
      /\ \A j \in DOMAIN tx.sigs : /\ j \in DOMAIN signatures[n][cur[n]]
                                   /\ tx.sigs[j] = signatures[n][cur[n]][j]
  BY SubmittedIsTransaction
<1>2. tx.state = "pending" /\ tx.msg.dep = cur[n] /\ tx.from = n
  BY DEF Submitted, Msg
<1>3. cur[n] \in Deposit /\ numRequired[n] \in Nat /\ txs \in Seq(Transaction)
  BY DEF LoopInv, Handling, TypeOK
<1>4. Len(tx.sigs) = numRequired[n]
  <2> DEFINE cut == [i \in 1 .. numRequired[n] |-> signatures[n][cur[n]][i]]
  <2>1. tx.sigs = cut
    BY DEF Submitted
  <2>2. Len(cut) = numRequired[n]
    BY <1>3
  <2>3. QED
    BY <2>1, <2>2
<1>5. Distinct(tx.sigs)
  <2>1. Distinct(signatures[n][cur[n]])
    BY <1>3 DEF CauseInv, StoredInv
  <2>2. QED
    BY <1>1, <2>1 DEF Distinct
<1> HIDE DEF tx
<1>6. /\ DOMAIN txs' = 1 .. Len(txs) + 1
      /\ \A i \in DOMAIN txs : i \in DOMAIN txs' /\ txs'[i] = txs[i]
      /\ \A i \in DOMAIN txs' : i \in DOMAIN txs \/ txs'[i] = tx
  <2>1. txs' = Append(txs, tx)
    BY DEF tx
  <2>2. QED
    BY <1>1, <1>3, <2>1
<1>7. StoredInv'
  BY DEF CauseInv, StoredInv
<1>8. ProcessedInv'
  <2> SUFFICES ASSUME NEW d \in processed
               PROVE  \E j \in DOMAIN txs' : txs'[j].msg.dep = d /\ txs'[j].state = "ok"
    BY DEF ProcessedInv
  <2>1. PICK j \in DOMAIN txs : txs[j].msg.dep = d /\ txs[j].state = "ok"
    BY DEF CauseInv, ProcessedInv
  <2>2. QED
    BY <1>6, <2>1
<1>9. UngovernedInv'
  <2> SUFFICES ASSUME governance = 0
               PROVE  UngovernedInv'
    BY DEF UngovernedInv
  <2>1. /\ federators = Node /\ ~frozen /\ registered = FirstRegistered /\ runePaused = {}
        /\ RuneOf[cur[n]] \in FirstRegistered
        /\ numRequired[n] = numRequiredFederators(Node)
        /\ \A i \in DOMAIN txs :
              /\ RuneOf[txs[i].msg.dep] \in FirstRegistered
              /\ Distinct(txs[i].sigs)
              /\ Len(txs[i].sigs) = numRequiredFederators(Node)
    BY DEF CauseInv, UngovernedInv, Handling
  <2>2. \A i \in DOMAIN txs' : /\ RuneOf[txs'[i].msg.dep] \in FirstRegistered
                               /\ Distinct(txs'[i].sigs)
                               /\ Len(txs'[i].sigs) = numRequiredFederators(Node)
    BY <1>2, <1>4, <1>5, <1>6, <2>1
  <2>3. \A m \in Candidate : pc'[m] \in Handling => RuneOf[cur'[m]] \in FirstRegistered
    BY <2>1 DEF CauseInv, UngovernedInv, LoopGoesOn
  <2>4. \A m \in Candidate :
           pc'[m] = "sending" => numRequired'[m] = numRequiredFederators(Node)
    BY <2>1 DEF CauseInv, UngovernedInv, LoopGoesOn
  <2>5. QED
    BY <2>1, <2>2, <2>3, <2>4 DEF UngovernedInv, Distinct
<1>10. RevertsHaveACause'
  <2> SUFFICES ASSUME NEW i \in DOMAIN txs', txs'[i].state = "reverted", governance = 0,
                      \A k \in DOMAIN txs'[i].sigs : txs'[i].sigs[k].msg = txs'[i].msg
               PROVE  \E j \in DOMAIN txs' : /\ txs'[j].from # txs'[i].from
                                             /\ txs'[j].msg.dep = txs'[i].msg.dep
                                             /\ txs'[j].state = "ok"
    <3>1. governance \in Nat /\ governance' = governance
      BY DEF TypeOK
    <3>2. QED
      BY <3>1 DEF RevertsHaveACause
  <2>1. i \in DOMAIN txs /\ txs'[i] = txs[i]
    BY <1>2, <1>6
  <2>2. PICK j \in DOMAIN txs : /\ txs[j].from # txs[i].from
                                /\ txs[j].msg.dep = txs[i].msg.dep
                                /\ txs[j].state = "ok"
    BY <2>1 DEF CauseInv, RevertsHaveACause
  <2>3. QED
    BY <1>6, <2>1, <2>2
<1>11. QED
  BY <1>7, <1>8, <1>9, <1>10 DEF CauseInv

(* A transaction is refused for one of the reasons, and a processed deposit *)
(* has an accepted one.                                                     *)
LEMMA MiningKeepsCause ==
  ASSUME TypeOK, CauseInv, SentOnce, NEW i \in DOMAIN txs,
         acceptTransferFromBtc(i) \/ Revert(i)
  PROVE  CauseInv'
<1>1. PICK st \in {"ok", "reverted"} :
         /\ txs' = [txs EXCEPT ![i].state = st]
         /\ st = "ok" => processed' = processed \cup {txs[i].msg.dep}
         /\ st = "reverted" => processed' = processed /\ ~AcceptsTransfer(txs[i])
  <2>1. CASE acceptTransferFromBtc(i)
    BY <2>1 DEF acceptTransferFromBtc
  <2>2. CASE Revert(i)
    BY <2>2 DEF Revert, mintVars
  <2>3. QED
    BY <2>1, <2>2
<1>2. /\ txs[i].state = "pending"
      /\ UNCHANGED <<signatures, pc, cur, numRequired,
                     federators, frozen, registered, runePaused, governance>>
  BY DEF acceptTransferFromBtc, Revert, Minable, dbVars, loopVars, adminVars
<1>3. /\ DOMAIN txs' = DOMAIN txs
      /\ \A j \in DOMAIN txs :
            /\ txs'[j].from = txs[j].from /\ txs'[j].msg = txs[j].msg
            /\ txs'[j].sigs = txs[j].sigs
            /\ txs'[j].state = IF j = i THEN st ELSE txs[j].state
  BY <1>1, SettledTransaction DEF TypeOK
<1>4. StoredInv'
  BY <1>2 DEF CauseInv, StoredInv
<1>5. ProcessedInv'
  <2> SUFFICES ASSUME NEW d \in processed'
               PROVE  \E j \in DOMAIN txs' : txs'[j].msg.dep = d /\ txs'[j].state = "ok"
    BY DEF ProcessedInv
  <2>1. CASE d \in processed
    <3>1. PICK j \in DOMAIN txs : txs[j].msg.dep = d /\ txs[j].state = "ok"
      BY <2>1 DEF CauseInv, ProcessedInv
    <3>2. QED
      BY <1>2, <1>3, <3>1
  <2>2. CASE st = "ok" /\ d = txs[i].msg.dep
    BY <1>3, <2>2
  <2>3. QED
    BY <1>1, <2>1, <2>2
<1>6. UngovernedInv'
  BY <1>2, <1>3 DEF CauseInv, UngovernedInv, Distinct
<1>7. RevertsHaveACause'
  <2> SUFFICES ASSUME NEW k \in DOMAIN txs', txs'[k].state = "reverted", governance = 0,
                      \A s \in DOMAIN txs'[k].sigs : txs'[k].sigs[s].msg = txs'[k].msg
               PROVE  \E j \in DOMAIN txs' : /\ txs'[j].from # txs'[k].from
                                             /\ txs'[j].msg.dep = txs'[k].msg.dep
                                             /\ txs'[j].state = "ok"
    <3>1. governance \in Nat /\ governance' = governance
      BY <1>2 DEF TypeOK
    <3>2. QED
      BY <3>1 DEF RevertsHaveACause
  <2>1. CASE k # i
    <3>1. PICK j \in DOMAIN txs : /\ txs[j].from # txs[k].from
                                  /\ txs[j].msg.dep = txs[k].msg.dep
                                  /\ txs[j].state = "ok"
      BY <1>3, <2>1 DEF CauseInv, RevertsHaveACause
    <3>2. QED
      BY <1>2, <1>3, <3>1
  <2>2. CASE k = i
    <3>1. txs[i] \in Transaction
      BY DEF TypeOK
    <3>2. /\ txs[i].from \in federators /\ ~frozen
          /\ Transferable(txs[i].msg.dep)
      BY <3>1, NodeAssumption DEF CauseInv, UngovernedInv, Transferable, Transaction
    <3>3. checkFederatorSignatures(federators, txs[i].msg, txs[i].sigs)
      <4>1. federators = Node /\ Distinct(txs[i].sigs)
            /\ Len(txs[i].sigs) = numRequiredFederators(Node)
        BY DEF CauseInv, UngovernedInv
      <4>2. \A s \in DOMAIN txs[i].sigs : txs[i].sigs[s].signer \in Node
        <5>1. txs[i].sigs \in Seq(Signature)
          BY <3>1 DEF Transaction
        <5>2. \A s \in DOMAIN txs[i].sigs : txs[i].sigs[s] \in Signature
          BY <5>1
        <5>3. QED
          BY <5>2 DEF Signature
      <4>3. numRequiredFederators(Node) \in Nat
        BY NumRequiredIsNat, NodeAssumption
      <4>4. \A s \in DOMAIN txs[i].sigs : txs[i].sigs[s].msg = txs[i].msg
        BY <1>3, <2>2
      <4>5. Len(txs[i].sigs) >= numRequiredFederators(Node)
        BY <4>1, <4>3
      <4>6. QED
        BY <4>1, <4>2, <4>4, <4>5, Zenon DEF checkFederatorSignatures, Distinct
    <3>4. txs[i].msg.dep \in processed
      BY <1>1, <1>3, <2>2, <3>2, <3>3 DEF AcceptsTransfer
    <3>5. PICK j \in DOMAIN txs : txs[j].msg.dep = txs[i].msg.dep /\ txs[j].state = "ok"
      BY <3>4 DEF CauseInv, ProcessedInv
    <3>6. j # i /\ txs[j].from # txs[i].from
      BY <1>2, <3>5 DEF SentOnce
    <3>7. QED
      BY <1>3, <2>2, <3>5, <3>6
  <2>3. QED
    BY <2>1, <2>2
<1>8. QED
  BY <1>4, <1>5, <1>6, <1>7 DEF CauseInv

LEMMA GovernanceKeepsCause ==
  ASSUME TypeOK, CauseInv, Governance
  PROVE  CauseInv'
<1>1. /\ governance' = governance + 1
      /\ UNCHANGED <<signatures, txs, processed>>
  BY DEF Governance, Governs, addFederator, removeFederator, setFrozen, registerRune,
         setRunePaused, dbVars, mintVars
<1>2. governance' > 0
  BY <1>1 DEF TypeOK
<1>3. QED
  BY <1>1, <1>2 DEF CauseInv, StoredInv, ProcessedInv, UngovernedInv, RevertsHaveACause, Distinct

LEMMA CauseInductive == TypeOK /\ LoopInv /\ SentOnce /\ CauseInv /\ [Next]_vars => CauseInv'
<1> SUFFICES ASSUME TypeOK, LoopInv, SentOnce, CauseInv, [Next]_vars
             PROVE  CauseInv'
  OBVIOUS
<1> USE DEF btcVars, dbVars, loopVars, cfgVars, mintVars, adminVars
<1>1. UNCHANGED signatures => StoredInv'
  BY DEF CauseInv, StoredInv
<1>2. CASE Bitcoin
  BY <1>1, <1>2, QuietCause DEF Bitcoin, MineBtc, SpendOutput, LoopGoesOn
<1>3. ASSUME NEW n \in Candidate, RunIteration(n)
      PROVE  CauseInv'
  <2>1. UNCHANGED <<signatures, txs, processed, federators, frozen, registered, runePaused,
                    governance, cur, numRequired>>
    BY <1>3 DEF RunIteration, scan_rune_deposits, confirm_sent_rune_deposits,
                BeginHandling, EndIteration, IterationRaises
  <2>2. \/ pc' = pc
        \/ \E step \in {"confirm", "handle", "idle"} : pc' = [pc EXCEPT ![n] = step]
    BY <1>3, Zenon DEF RunIteration, scan_rune_deposits, confirm_sent_rune_deposits,
                BeginHandling, EndIteration, IterationRaises
  <2>3. LoopGoesOn
    BY <2>1, <2>2 DEF LoopGoesOn, Handling, TypeOK
  <2>4. QED
    BY <1>1, <2>1, <2>3, QuietCause
<1>4. ASSUME NEW n \in Candidate, NextDeposit(n),
             UNCHANGED <<signatures, txs, processed, federators, frozen, registered,
                         runePaused, governance>>
      PROVE  CauseInv'
  BY <1>1, <1>4, NextDepositGoesOn, QuietCause
<1>5. ASSUME NEW n \in Candidate, CollectSignatures(n)
      PROVE  CauseInv'
  <2>1. ASSUME NEW d \in Deposit, StartDeposit(n, d)
        PROVE  CauseInv'
    <3>1. RuneOf[d] \in registered
      BY <2>1 DEF StartDeposit, validate_rune_deposit_for_sending, Transferable
    <3>2. LoopGoesOn
      BY <2>1, <3>1 DEF StartDeposit, LoopGoesOn, Handling, TypeOK
    <3>3. QED
      BY <1>1, <2>1, <3>2, QuietCause DEF StartDeposit
  <2>2. ASSUME NEW d \in Deposit, SkipDeposit(n, d)
        PROVE  CauseInv'
    BY <1>1, <2>2, QuietCause DEF SkipDeposit, LoopGoesOn
  <2>3. CASE SelfAnswer(n)
    BY <1>1, <2>3, QuietCause DEF SelfAnswer, LoopGoesOn, Handling, TypeOK
  <2>4. CASE SelfAnswerRaises(n)
    BY <1>4, <2>4 DEF SelfAnswerRaises
  <2>5. ASSUME NEW p \in Node, PeerAnswers(n, p) \/ NoAnswerFromPeer(n, p)
        PROVE  CauseInv'
    BY <1>1, <2>5, QuietCause DEF PeerAnswers, NoAnswerFromPeer, AskPeer, LoopGoesOn
  <2>6. CASE update_rune_deposit_signatures(n)
    <3>1. cur[n] \in Deposit /\ pc[n] \in Handling
      BY <2>6 DEF update_rune_deposit_signatures, LoopInv, Handling
    <3>2. PICK s \in ExtendedSignatures(n, cur[n]) :
             /\ signatures' = [signatures EXCEPT ![n][cur[n]] = s]
             /\ \/ pc' = [pc EXCEPT ![n] = "send"] /\ UNCHANGED <<cur, numRequired>>
                \/ NextDeposit(n)
      BY <2>6 DEF update_rune_deposit_signatures
    <3>3. Distinct(s)
      BY <3>1, ExtendedSignersDiffer DEF CauseInv, StoredInv
    <3>4. \A m \in Candidate, d \in Deposit :
             signatures'[m][d] = IF m = n /\ d = cur[n] THEN s ELSE signatures[m][d]
      BY <3>1, <3>2 DEF TypeOK
    <3>5. StoredInv'
      BY <3>3, <3>4 DEF CauseInv, StoredInv
    <3>6. LoopGoesOn
      <4>1. CASE pc' = [pc EXCEPT ![n] = "send"] /\ UNCHANGED <<cur, numRequired>>
        BY <3>1, <4>1 DEF LoopGoesOn, TypeOK
      <4>2. QED
        BY <3>2, <4>1, NextDepositGoesOn
    <3>7. QED
      BY <2>6, <3>5, <3>6, QuietCause DEF update_rune_deposit_signatures
  <2>7. QED
    BY <1>5, <2>1, <2>2, <2>3, <2>4, <2>5, <2>6 DEF CollectSignatures
<1>6. ASSUME NEW n \in Candidate, Send(n)
      PROVE  CauseInv'
  <2>1. CASE NotSent(n) \/ TooManyPending(n) \/ HandlingRaises(n) \/ ConfirmOwn(n)
    BY <1>4, <2>1 DEF NotSent, TooManyPending, HandlingRaises, ConfirmOwn
  <2>2. CASE CommitSending(n)
    <3>1. LoopGoesOn
      BY <2>2 DEF CommitSending, LoopGoesOn, Handling, TypeOK
    <3>2. QED
      BY <1>1, <2>2, <3>1, QuietCause DEF CommitSending
  <2>3. CASE Transact(n)
    <3>1. LoopGoesOn
      BY <2>3 DEF Transact, LoopGoesOn, Handling, TypeOK
    <3>2. QED
      BY <2>3, <3>1, SubmittedKeepsCause DEF Transact
  <2>4. CASE TransactRaises(n)
    <3>1. /\ NextDeposit(n) /\ pc[n] = "sending"
          /\ txs' \in {txs, Append(txs, Submitted(n))}
          /\ UNCHANGED <<signatures, processed, federators, frozen, registered,
                         runePaused, governance>>
      BY <2>4 DEF TransactRaises
    <3>2. QED
      BY <1>4, <3>1, NextDepositGoesOn, SubmittedKeepsCause
  <2>5. CASE CommitSent(n)
    BY <1>1, <2>5, QuietCause DEF CommitSent, LoopGoesOn, Handling, TypeOK
  <2>6. QED
    BY <1>6, <2>1, <2>2, <2>3, <2>4, <2>5 DEF Send
<1>7. CASE MineEvm
  BY <1>7, MiningKeepsCause DEF MineEvm
<1>8. CASE Governance
  BY <1>8, GovernanceKeepsCause
<1>9. CASE Operators
  <2>1. PICK n \in Node, f \in Fee, leader \in BOOLEAN : Restart(n, f, leader)
    BY <1>9 DEF Operators
  <2>2. LoopGoesOn
    BY <2>1 DEF Restart, LoopGoesOn, Handling
  <2>3. QED
    BY <1>1, <2>1, <2>2, QuietCause DEF Restart
<1>10. CASE UNCHANGED vars
  BY <1>1, <1>10, QuietCause DEF vars, LoopGoesOn
<1>11. QED
  BY <1>2, <1>3, <1>5, <1>6, <1>7, <1>8, <1>9, <1>10 DEF Next

(* As long as governance leaves the contract alone, it refuses no more than *)
(* what was signed under another fee setting or was sent by a second leader.*)
THEOREM RefusalsHaveACause == Spec => []RevertsHaveACause
<1>1. SendInv => SentOnce
  BY DEF SendInv
<1>2. Spec => []CauseInv
  BY <1>1, CauseInitially, CauseInductive, SendInvariant, PTL DEF Spec
<1>3. CauseInv => RevertsHaveACause
  BY DEF CauseInv
<1>4. QED
  BY <1>2, <1>3, PTL
=============================================================================

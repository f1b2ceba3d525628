------------------------ MODULE RuneDepositScanProofs ------------------------
(***************************************************************************)
(* Proofs that RuneDepositScan misses no deposit and accepts none that a   *)
(* reorganisation can still remove, for any number of deposits, of         *)
(* scanners, and for any confirmation settings.                            *)
(***************************************************************************)
EXTENDS RuneDepositScan, TLAPS

(* The heights in use are heights of the chain. *)
HeightsInv ==
    /\ lastBlock <= tip
    /\ \A s \in Scanner : from[s] <= tip /\ newLast[s] <= tip

(* ord forgets only outputs that the wallet has spent. *)
SpendInv == \A d \in Deposit : spendBlock[d] > 0 => d \in selected

(* A deposit that is accepted, or that a scan in flight is about to accept, *)
(* lies below everything a reorganisation can remove.                       *)
Buried(d) == 0 < height[d] /\ height[d] + Required <= tip + 1

FinalInv ==
    /\ \A d \in Deposit : status[d] = "ACCEPTED" => Buried(d)
    /\ \A s \in Scanner, d \in Deposit : confs[s][d] >= Required => Buried(d)

(* What a scan in flight will have accounted for once it commits. *)
Expected == Deposit \ (Foreign \cup selected)

InFlight(s) ==
    \A d \in Expected :
        0 < height[d] /\ height[d] <= newLast[s] =>
            \/ status[d] = "ACCEPTED"
            \/ /\ confs[s][d] >= Required
               /\ pc[s] = "sync"    => d \in listed[s]
               /\ pc[s] = "outputs" => d \in todo[s] \cup runes[s]

ScanInv ==
    \A s \in Scanner :
        /\ pc[s] # "idle" => Buffer >= Required
        /\ pc[s] = "list" => \A d \in Expected :
              0 < height[d] /\ height[d] <= from[s] => status[d] = "ACCEPTED"
        /\ pc[s] \in {"sync", "outputs"} => InFlight(s)

IInv == HeightsInv /\ SpendInv /\ FinalInv /\ NothingMissed /\ ScanInv

(* Every value the scan writes is of its kind. *)
THEOREM TypeCorrect == Spec => []TypeOK
<1> USE ScanAssumption DEF TypeOK
<1>1. Init => TypeOK
  BY DEF Init, Status, Step
<1>2. TypeOK /\ [Next]_vars => TypeOK'
  <2> SUFFICES ASSUME TypeOK, [Next]_vars
               PROVE  TypeOK'
    OBVIOUS
  <2>1. ASSUME NEW D \in SUBSET Deposit, NEW S \in SUBSET Deposit, MineBlock(D, S)
        PROVE  TypeOK'
    BY <2>1 DEF MineBlock, dbVars, scanVars
  <2>2. ASSUME NEW k \in 1 .. ReorgDepth, NEW h \in [Deposit -> 0 .. tip + 1],
               Reorganise(k, h)
        PROVE  TypeOK'
    BY <2>2 DEF Reorganise, Lower
  <2>3. ASSUME OrdIndexes
        PROVE  TypeOK'
    BY <2>3 DEF OrdIndexes, dbVars, scanVars
  <2>4. ASSUME NEW s \in Scanner, ReadLastBlock(s)
        PROVE  TypeOK'
    BY <2>4 DEF ReadLastBlock, chainVars, dbVars, Step
  <2>5. ASSUME NEW s \in Scanner, listsinceblock(s)
        PROVE  TypeOK'
    <3>1. /\ [d \in Deposit |-> Confirmations(d)] \in [Deposit -> Nat]
          /\ LastBlockOfResponse \in Nat
      BY DEF Confirmations, LastBlockOfResponse
    <3>2. QED
      BY <2>5, <3>1 DEF listsinceblock, chainVars, dbVars, Step
  <2>6. ASSUME NEW s \in Scanner, SyncOrd(s)
        PROVE  TypeOK'
    BY <2>6 DEF SyncOrd, chainVars, dbVars, Step
  <2>7. ASSUME NEW s \in Scanner, NEW d \in Deposit, GetOutput(s, d)
        PROVE  TypeOK'
    BY <2>7 DEF GetOutput, chainVars, dbVars
  <2>8. ASSUME NEW s \in Scanner, ScanRaises(s)
        PROVE  TypeOK'
    BY <2>8 DEF ScanRaises, ScanReset, chainVars, dbVars, Step
  <2>9. ASSUME NEW s \in Scanner, CommitScan(s)
        PROVE  TypeOK'
    BY <2>9 DEF CommitScan, ScanReset, Advance, chainVars, Step, Status
  <2>10. ASSUME NEW s \in Scanner, EndIteration(s)
         PROVE  TypeOK'
    BY <2>10 DEF EndIteration, chainVars, dbVars, Step
  <2>11. ASSUME NEW s \in Scanner, Restart(s)
         PROVE  TypeOK'
    BY <2>11 DEF Restart, ScanReset, chainVars, dbVars, Step
  <2>12. ASSUME NEW s \in Scanner, NEW d \in Deposit, SelectOutput(s, d)
         PROVE  TypeOK'
    BY <2>12 DEF SelectOutput, dbVars, scanVars
  <2>13. CASE UNCHANGED vars
    BY <2>13 DEF vars, chainVars, dbVars, scanVars
  <2>14. QED
    BY <2>1, <2>2, <2>3, <2>4, <2>5, <2>6, <2>7, <2>8, <2>9, <2>10, <2>11, <2>12, <2>13
       DEF Next, Chain, Scan
<1>3. QED
  BY <1>1, <1>2, PTL DEF Spec

(* No deposit is missed and none is accepted too early, from the invariant  *)
(* that follows a scan from its listing to its commit.                      *)
LEMMA InvInductive == TypeOK /\ TypeOK' /\ IInv /\ [Next]_vars => IInv'
<1> SUFFICES ASSUME TypeOK, TypeOK', IInv, [Next]_vars
             PROVE  IInv'
  OBVIOUS
<1> USE ScanAssumption DEF TypeOK, IInv, HeightsInv, SpendInv, FinalInv, NothingMissed,
                           ScanInv, InFlight, Buried, Expected
<1>1. ASSUME NEW D \in SUBSET Deposit, NEW S \in SUBSET Deposit, MineBlock(D, S)
      PROVE  IInv'
  BY <1>1 DEF MineBlock, dbVars, scanVars
<1>2. ASSUME NEW k \in 1 .. ReorgDepth, NEW h \in [Deposit -> 0 .. tip + 1],
             Reorganise(k, h)
      PROVE  IInv'
  <2> DEFINE fork == tip - k
  <2>1. /\ fork \in Nat
        /\ fork + Required >= tip + 1
    BY <1>2 DEF Reorganise
  <2>2. \A d \in Deposit : height'[d] # 0 /\ height'[d] <= fork => height'[d] = height[d]
    BY <1>2 DEF Reorganise
  <2>3. \A d \in Deposit : height[d] <= fork => height'[d] = height[d]
    BY <1>2 DEF Reorganise
  <2>4. /\ lastBlock' <= fork /\ lastBlock' <= lastBlock
        /\ \A s \in Scanner : /\ from'[s] <= fork /\ from'[s] <= from[s]
                              /\ newLast'[s] <= fork /\ newLast'[s] <= newLast[s]
    BY <1>2, <2>1 DEF Reorganise, Lower
  <2>5. tip' = tip + 1 /\ UNCHANGED <<selected, status, pc, listed, confs, todo, runes>>
    BY <1>2 DEF Reorganise
  <2>6. HeightsInv'
    BY <2>1, <2>4, <2>5
  <2>7. SpendInv'
    BY <1>2, <2>5 DEF Reorganise
  <2> HIDE DEF fork
  <2>8. ASSUME NEW d \in Deposit, Buried(d)
        PROVE  Buried(d)'
    <3>1. height[d] \in Nat /\ height[d] <= fork
      BY <2>1, <2>8
    <3>2. height'[d] = height[d]
      BY <2>3, <3>1
    <3>3. QED
      BY <2>5, <2>8, <3>1, <3>2
  <2>9. FinalInv'
    BY <2>5, <2>8
  <2>10. ASSUME NEW d \in Deposit, NEW b \in Nat, NEW c \in Nat,
                0 < height'[d], height'[d] <= c, c <= fork, c <= b
         PROVE  0 < height[d] /\ height[d] <= b
    <3>1. height'[d] \in Nat /\ height'[d] # 0 /\ height'[d] <= fork
      BY <2>1, <2>10
    <3>2. QED
      BY <2>2, <2>10, <3>1
  <2>11. NothingMissed'
    <3>1. \A d \in Deposit : 0 < height'[d] /\ height'[d] <= lastBlock'
                               => 0 < height[d] /\ height[d] <= lastBlock
      BY <2>4, <2>10
    <3>2. QED
      BY <2>5, <3>1
  <2>12. ScanInv'
    <3>1. \A s \in Scanner, d \in Deposit :
             /\ 0 < height'[d] /\ height'[d] <= from'[s]
                  => 0 < height[d] /\ height[d] <= from[s]
             /\ 0 < height'[d] /\ height'[d] <= newLast'[s]
                  => 0 < height[d] /\ height[d] <= newLast[s]
      BY <2>4, <2>10
    <3>2. QED
      BY <2>5, <3>1
  <2>13. QED
    BY <2>6, <2>7, <2>9, <2>11, <2>12
<1>3. ASSUME OrdIndexes
      PROVE  IInv'
  BY <1>3 DEF OrdIndexes, dbVars, scanVars
<1>4. ASSUME NEW s \in Scanner, ReadLastBlock(s)
      PROVE  IInv'
  BY <1>4 DEF ReadLastBlock, chainVars, dbVars
<1>5. ASSUME NEW s \in Scanner, listsinceblock(s)
      PROVE  IInv'
  BY <1>5 DEF listsinceblock, chainVars, dbVars, LastBlockOfResponse, Confirmations
<1>6. ASSUME NEW s \in Scanner, SyncOrd(s)
      PROVE  IInv'
  BY <1>6 DEF SyncOrd, chainVars, dbVars
<1>7. ASSUME NEW s \in Scanner, NEW d \in Deposit, GetOutput(s, d)
      PROVE  IInv'
  BY <1>7 DEF GetOutput, SpentForOrd, chainVars, dbVars
<1>8. ASSUME NEW s \in Scanner, ScanRaises(s)
      PROVE  IInv'
  BY <1>8 DEF ScanRaises, ScanReset, chainVars, dbVars
<1>9. ASSUME NEW s \in Scanner, CommitScan(s)
      PROVE  IInv'
  BY <1>9 DEF CommitScan, ScanReset, Advance, Deep, chainVars
<1>10. ASSUME NEW s \in Scanner, EndIteration(s)
       PROVE  IInv'
  BY <1>10 DEF EndIteration, chainVars, dbVars
<1>11. ASSUME NEW s \in Scanner, Restart(s)
       PROVE  IInv'
  BY <1>11 DEF Restart, ScanReset, chainVars, dbVars
<1>12. ASSUME NEW s \in Scanner, NEW d \in Deposit, SelectOutput(s, d)
       PROVE  IInv'
  BY <1>12 DEF SelectOutput, dbVars, scanVars
<1>13. CASE UNCHANGED vars
  BY <1>13 DEF vars, chainVars, dbVars, scanVars
<1>14. QED
  BY <1>1, <1>2, <1>3, <1>4, <1>5, <1>6, <1>7, <1>8, <1>9, <1>10, <1>11, <1>12, <1>13
     DEF Next, Chain, Scan

LEMMA InvInitially == Init => IInv
BY ScanAssumption DEF Init, IInv, HeightsInv, SpendInv, FinalInv, NothingMissed, ScanInv

LEMMA InvHolds == Spec => []IInv
<1>1. TypeOK /\ TypeOK' /\ IInv /\ [Next]_vars => IInv'
  BY InvInductive
<1>2. QED
  BY <1>1, TypeCorrect, InvInitially, PTL DEF Spec

(* Whatever is mined, reorganised, restarted or scanned twice, a deposit    *)
(* that the scan window has passed is accepted or was spent by the wallet.  *)
THEOREM NoDepositIsMissed == Spec => []NothingMissed
<1>1. IInv => NothingMissed
  BY DEF IInv
<1>2. QED
  BY <1>1, InvHolds, PTL

(* An accepted deposit stays in the block chain, as long as no              *)
(* reorganisation removes btc_min_confirmations blocks.                     *)
THEOREM AcceptedDepositsAreFinal == Spec => []AcceptedIsFinal
<1>1. IInv => AcceptedIsFinal
  BY DEF IInv, FinalInv, AcceptedIsFinal, Buried
<1>2. QED
  BY <1>1, InvHolds, PTL

(* The chain only grows, so the block a listing returns is never below the  *)
(* one an earlier listing returned.                                         *)
WindowInv ==
    /\ lastBlock <= LastBlockOfResponse
    /\ \A s \in Scanner :
          /\ from[s] <= LastBlockOfResponse
          /\ newLast[s] <= LastBlockOfResponse
          /\ pc[s] \in {"sync", "outputs"} => from[s] <= newLast[s]

LEMMA WindowInductive == TypeOK /\ TypeOK' /\ WindowInv /\ [Next]_vars => WindowInv'
<1> SUFFICES ASSUME TypeOK, TypeOK', WindowInv, [Next]_vars
             PROVE  WindowInv'
  OBVIOUS
<1> USE ScanAssumption DEF TypeOK, WindowInv
<1>1. LastBlockOfResponse \in Nat
  BY DEF LastBlockOfResponse
<1>2. CASE tip' = tip + 1
  <2>1. LastBlockOfResponse' \in Nat /\ LastBlockOfResponse <= LastBlockOfResponse'
    BY <1>2 DEF LastBlockOfResponse
  <2>2. ASSUME NEW D \in SUBSET Deposit, NEW S \in SUBSET Deposit, MineBlock(D, S)
        PROVE  WindowInv'
    BY <1>1, <2>1, <2>2 DEF MineBlock, dbVars, scanVars
  <2>3. ASSUME NEW k \in 1 .. ReorgDepth, NEW h \in [Deposit -> 0 .. tip + 1],
               Reorganise(k, h)
        PROVE  WindowInv'
    <3>1. tip - k \in Int
      OBVIOUS
    <3>2. \A a, b \in Nat : /\ Lower(a, tip - k) <= a
                            /\ a <= b => Lower(a, tip - k) <= Lower(b, tip - k)
      BY <3>1 DEF Lower
    <3>3. /\ lastBlock' = Lower(lastBlock, tip - k)
          /\ \A s \in Scanner : /\ from'[s] = Lower(from[s], tip - k)
                                /\ newLast'[s] = Lower(newLast[s], tip - k)
                                /\ pc'[s] = pc[s]
      BY <2>3 DEF Reorganise
    <3>4. QED
      BY <1>1, <2>1, <3>2, <3>3
  <2>4. tip \in Nat /\ tip' # tip
    BY <1>2
  <2>5. QED
    BY <2>2, <2>3, <2>4 DEF Next, Chain, Scan, OrdIndexes, ReadLastBlock, listsinceblock,
         SyncOrd, GetOutput, ScanRaises, CommitScan, EndIteration, Restart, SelectOutput,
         vars, chainVars
<1>3. CASE tip' = tip
  <2>1. LastBlockOfResponse' = LastBlockOfResponse
    BY <1>3 DEF LastBlockOfResponse
  <2>2. ASSUME NEW s \in Scanner, ReadLastBlock(s)
        PROVE  WindowInv'
    BY <1>1, <2>1, <2>2 DEF ReadLastBlock, dbVars
  <2>3. ASSUME NEW s \in Scanner, listsinceblock(s)
        PROVE  WindowInv'
    BY <1>1, <2>1, <2>3 DEF listsinceblock, dbVars
  <2>4. ASSUME NEW s \in Scanner, SyncOrd(s)
        PROVE  WindowInv'
    BY <1>1, <2>1, <2>4 DEF SyncOrd, dbVars
  <2>5. ASSUME NEW s \in Scanner, ScanRaises(s) \/ Restart(s)
        PROVE  WindowInv'
    <3>1. ScanReset(s, "idle") /\ lastBlock' = lastBlock
      BY <2>5 DEF ScanRaises, Restart, dbVars
    <3>2. QED
      BY <1>1, <2>1, <3>1 DEF ScanReset
  <2>6. ASSUME NEW s \in Scanner, CommitScan(s)
        PROVE  WindowInv'
    BY <1>1, <2>1, <2>6 DEF CommitScan, ScanReset
  <2>7. ASSUME NEW s \in Scanner, EndIteration(s)
        PROVE  WindowInv'
    BY <1>1, <2>1, <2>7 DEF EndIteration, dbVars
  <2>8. CASE UNCHANGED <<lastBlock, from, newLast, pc>>
    BY <2>1, <2>8
  <2>9. QED
    BY <1>3, <2>2, <2>3, <2>4, <2>5, <2>6, <2>7, <2>8 DEF Next, Chain, Scan, MineBlock,
         Reorganise, OrdIndexes, GetOutput, SelectOutput, vars, dbVars, scanVars
<1>4. QED
  <2>1. tip' = tip \/ tip' = tip + 1
    BY DEF Next, Chain, Scan, MineBlock, Reorganise, OrdIndexes, ReadLastBlock,
         listsinceblock, SyncOrd, GetOutput, ScanRaises, CommitScan, EndIteration, Restart,
         SelectOutput, vars, chainVars
  <2>2. QED
    BY <1>2, <1>3, <2>1

(* Without a reorganisation the last scanned block never moves back: the    *)
(* comparison at the end of a scan rolls back one that others overtook.     *)
THEOREM ScanWindowAdvances == Spec => LastBlockAdvances
<1>1. Init => WindowInv
  BY ScanAssumption DEF Init, WindowInv, LastBlockOfResponse
<1>2. TypeOK /\ WindowInv /\ [Next]_vars => [reorgs' = reorgs => lastBlock' >= lastBlock]_vars
  <2> SUFFICES ASSUME TypeOK, WindowInv, Next, reorgs' = reorgs
               PROVE  lastBlock' >= lastBlock
    BY DEF vars
  <2>1. ASSUME NEW s \in Scanner, CommitScan(s)
        PROVE  lastBlock' >= lastBlock
    BY <2>1 DEF CommitScan, TypeOK, WindowInv
  <2>2. CASE lastBlock' = lastBlock
    BY <2>2 DEF TypeOK
  <2>3. QED
    BY <2>1, <2>2 DEF TypeOK, Next, Chain, Scan, MineBlock, Reorganise, OrdIndexes,
         ReadLastBlock, listsinceblock, SyncOrd, GetOutput, ScanRaises, EndIteration,
         Restart, SelectOutput, dbVars
<1>3. QED
  BY <1>1, <1>2, TypeCorrect, WindowInductive, PTL DEF Spec, LastBlockAdvances
=============================================================================

---------------------- MODULE AmountsAndAddressesProofs ----------------------
(***************************************************************************)
(* Proofs that the tokens of the rune bridge stay backed by runes and that *)
(* roundings cost less than a unit, for every divisor, percentage and      *)
(* transfer policy and any number of transfers of any amount; and that the *)
(* API gives every user a deposit address of its own, to which the scanner *)
(* credits what is sent there, for any number of users and of concurrent   *)
(* requests.                                                               *)
(***************************************************************************)
EXTENDS TransferAmounts, DepositAddresses, TLAPS

-----------------------------------------------------------------------------
(* Amounts *)

(* A quotient and what is lost by truncating it. *)
LEMMA Quotient ==
    ASSUME NEW n \in Nat, NEW d \in Nat \ {0}
    PROVE  /\ n \div d \in Nat
           /\ (n \div d) * d <= n
           /\ n < (n \div d) * d + d
<1>1. n \div d \in Int /\ n \div d >= 0
  OBVIOUS
<1>2. d * (n \div d) <= n
  OBVIOUS
<1>3. n < d * (n \div d) + d
  OBVIOUS
<1>4. QED
  BY <1>1, <1>2, <1>3

(* Products are ordered like their first factors. *)
LEMMA ProductOrder ==
    ASSUME NEW a \in Nat, NEW b \in Nat, NEW c \in Nat, a <= b
    PROVE  a * c <= b * c
OBVIOUS

(* A smaller product has a smaller first factor. *)
LEMMA FactorOrder ==
    ASSUME NEW a \in Nat, NEW b \in Nat, NEW c \in Nat \ {0}, a * c <= b * c
    PROVE  a <= b
<1> SUFFICES ASSUME b + 1 <= a PROVE FALSE
  OBVIOUS
<1>1. (b + 1) * c <= a * c
  BY ProductOrder
<1>2. (b + 1) * c = b * c + c
  OBVIOUS
<1>3. QED
  BY <1>1, <1>2

(* What remains of a deposit after the percentage, and the fee. *)
LEMMA NetAmountBounds ==
    ASSUME NEW a \in Nat
    PROVE  /\ NetAmount(a) \in 0 .. a
           /\ (a - NetAmount(a)) * FeeDen >= a * FeeNum
           /\ (a - NetAmount(a)) * FeeDen < a * FeeNum + FeeDen
<1> DEFINE n == NetAmount(a)
           p == a * (FeeDen - FeeNum)
<1>1. FeeNum \in Nat /\ FeeDen \in Nat \ {0} /\ FeeDen - FeeNum \in Nat
  BY AmountsAssumption
<1>2. p \in Nat /\ p = a * FeeDen - a * FeeNum
  BY <1>1
<1>3. n = p \div FeeDen
  BY DEF NetAmount
<1>4. n \in Nat /\ n * FeeDen <= p /\ p < n * FeeDen + FeeDen
  BY <1>1, <1>2, <1>3, Quotient
<1>5. a * FeeNum \in Nat
  BY <1>1
<1>6. n * FeeDen <= a * FeeDen
  BY <1>1, <1>2, <1>4, <1>5
<1>7. n <= a
  BY <1>1, <1>4, <1>6, FactorOrder
<1>8. (a - n) * FeeDen = a * FeeDen - n * FeeDen
  BY <1>1, <1>4
<1> HIDE DEF n, p
<1>9. (a - n) * FeeDen >= a * FeeNum /\ (a - n) * FeeDen < a * FeeNum + FeeDen
  BY <1>1, <1>2, <1>4, <1>5, <1>8
<1>10. QED
  BY <1>4, <1>7, <1>9 DEF n

(* Tokens correspond to a whole number of runes, times the divisor. *)
LEMMA TokenAmounts ==
    ASSUME NEW a \in Nat, NEW b \in Nat
    PROVE  /\ getTokenAmount(a) \in Nat
           /\ getTokenAmount(a + b) = getTokenAmount(a) + getTokenAmount(b)
           /\ getTokenAmount(a) <= getTokenAmount(b) => a <= b
<1>1. Divisor \in Nat \ {0}
  BY AmountsAssumption
<1>2. a * Divisor <= b * Divisor => a <= b
  BY <1>1, FactorOrder
<1>3. QED
  BY <1>1, <1>2 DEF getTokenAmount

-----------------------------------------------------------------------------
(* Backed is what makes TypeOK inductive: the wallet can pay what it owes. *)
Inv == AmountsTypeOK /\ Backed

(* At first there are neither runes nor tokens. *)
LEMMA InitInv == AmountsInit => Inv
BY AmountsAssumption DEF AmountsInit, Inv, AmountsTypeOK, Backed, getTokenAmount, NoTransfer

(* A deposit adds tokens for its net amount and keeps the rest as a fee. *)
LEMMA TransferFromBtcInv ==
    ASSUME Inv, NEW a \in 1 .. MaxAmount, TransferFromBtc(a)
    PROVE  Inv'
<1> DEFINE n == NetAmount(a)
<1>0. a \in Nat
  BY AmountsAssumption
<1>1. n \in Nat /\ n <= a /\ a - n \in Nat
  BY <1>0, NetAmountBounds
<1> HIDE DEF n
<1>2. /\ wallet' = wallet + a /\ fees' = fees + (a - n)
      /\ held' = held + getTokenAmount(n)
      /\ last' = [kind |-> "deposit", amount |-> a, net |-> n, fee |-> a - n]
      /\ deposits' = deposits + 1
      /\ UNCHANGED <<kept, owed, policy, burns>>
  BY <1>0, <1>1 DEF TransferFromBtc, n, Inv, AmountsTypeOK
<1>3. /\ wallet \in Nat /\ owed \in Nat /\ fees \in Nat /\ held \in Nat /\ kept \in Nat
      /\ owed + fees \in Nat
  BY DEF Inv, AmountsTypeOK
<1>4. AmountsTypeOK'
  <2>1. getTokenAmount(n) \in Nat
    BY <1>1, TokenAmounts
  <2>2. QED
    BY <1>0, <1>1, <1>2, <2>1 DEF Inv, AmountsTypeOK
<1>5. Backed'
  <2>1. getTokenAmount(wallet + a) = getTokenAmount(wallet) + getTokenAmount(a)
    BY <1>0, <1>3, TokenAmounts
  <2>2. getTokenAmount(a) = getTokenAmount(n) + getTokenAmount(a - n)
    <3>1. getTokenAmount(n + (a - n)) = getTokenAmount(n) + getTokenAmount(a - n)
      BY <1>1, TokenAmounts
    <3>2. n + (a - n) = a
      BY <1>0, <1>1
    <3>3. QED
      BY <3>1, <3>2
  <2>3. getTokenAmount(owed + fees + (a - n)) = getTokenAmount(owed + fees) + getTokenAmount(a - n)
    BY <1>1, <1>3, TokenAmounts
  <2>4. owed + (fees + (a - n)) = owed + fees + (a - n)
    BY <1>0, <1>1, <1>3
  <2>5. getTokenAmount(wallet) = held + kept + getTokenAmount(owed + fees)
    BY DEF Inv, Backed
  <2>6. /\ getTokenAmount(n) \in Nat /\ getTokenAmount(a - n) \in Nat
        /\ getTokenAmount(owed + fees) \in Nat
    BY <1>1, <1>3, TokenAmounts
  <2>7. getTokenAmount(wallet + a)
          = held + getTokenAmount(n) + kept + getTokenAmount(owed + (fees + (a - n)))
    BY <1>3, <2>1, <2>2, <2>3, <2>4, <2>5, <2>6
  <2>8. Backed' <=> getTokenAmount(wallet') = held' + kept' + getTokenAmount(owed' + fees')
    BY DEF Backed, getTokenAmount
  <2>9. QED
    BY <1>2, <2>7, <2>8
<1>6. QED
  BY <1>4, <1>5 DEF Inv

(* The fee of a burn, and the runes that the rest is worth. *)
LEMMA BurnBounds ==
    ASSUME AmountsTypeOK, NEW t \in Nat, t >= TokenFee(t)
    PROVE  LET f == TokenFee(t)
               n == getRuneAmount(t - f)
           IN  /\ f \in Nat /\ n \in Nat
               /\ getTokenAmount(n) <= t - f
               /\ t - f < getTokenAmount(n) + Divisor
<1> DEFINE f == TokenFee(t)
           n == getRuneAmount(t - f)
<1>1. policy.flat \in Nat /\ policy.dynamic \in Nat
  BY AmountsAssumption DEF AmountsTypeOK
<1>2. DynamicDivisor \in Nat \ {0} /\ Divisor \in Nat \ {0}
  BY AmountsAssumption
<1>3. t * policy.dynamic \in Nat
  BY <1>1
<1>4. (t * policy.dynamic) \div DynamicDivisor \in Nat
  BY <1>2, <1>3, Quotient
<1>5. f \in Nat
  BY <1>1, <1>4 DEF TokenFee
<1>6. t - f \in Nat
  BY <1>5
<1>7. n = (t - f) \div Divisor
  BY DEF getRuneAmount
<1> HIDE DEF f, n
<1>8. n \in Nat /\ n * Divisor <= t - f /\ t - f < n * Divisor + Divisor
  BY <1>2, <1>6, <1>7, Quotient
<1>9. QED
  BY <1>5, <1>8 DEF f, n, getTokenAmount

(* A burn turns tokens into a debt and keeps what is not burned. *)
LEMMA transferToBtcInv ==
    ASSUME Inv, NEW t \in Nat, transferToBtc(t)
    PROVE  Inv'
<1> DEFINE f == TokenFee(t)
           n == getRuneAmount(t - f)
<1>1. t >= f /\ t <= held
  BY DEF transferToBtc
<1>2. f \in Nat /\ n \in Nat /\ getTokenAmount(n) <= t - f
  BY <1>1, BurnBounds DEF Inv
<1>3. /\ held' = held - t /\ kept' = kept + (t - getTokenAmount(n))
      /\ owed' = owed + n /\ burns' = burns + 1
      /\ last' = [kind |-> "burn", amount |-> t, net |-> getTokenAmount(n), fee |-> f]
      /\ UNCHANGED <<wallet, fees, policy, deposits>>
  BY DEF transferToBtc
<1> HIDE DEF f, n
<1>4. /\ wallet \in Nat /\ owed \in Nat /\ fees \in Nat /\ held \in Nat /\ kept \in Nat
      /\ owed + fees \in Nat
  BY DEF Inv, AmountsTypeOK
<1>5. getTokenAmount(n) \in Nat
  BY <1>2, TokenAmounts
<1>6. AmountsTypeOK'
  BY <1>1, <1>2, <1>3, <1>5 DEF Inv, AmountsTypeOK
<1>7. Backed'
  <2>1. getTokenAmount(owed + fees + n) = getTokenAmount(owed + fees) + getTokenAmount(n)
    BY <1>2, <1>4, TokenAmounts
  <2>2. owed + n + fees = owed + fees + n
    BY <1>2, <1>4
  <2>3. getTokenAmount(wallet) = held + kept + getTokenAmount(owed + fees)
    BY DEF Inv, Backed
  <2>4. getTokenAmount(owed + fees) \in Nat
    BY <1>4, TokenAmounts
  <2>5. getTokenAmount(wallet)
          = (held - t) + (kept + (t - getTokenAmount(n))) + getTokenAmount(owed + n + fees)
    BY <1>4, <1>5, <2>1, <2>2, <2>3, <2>4
  <2>6. Backed' <=> getTokenAmount(wallet') = held' + kept' + getTokenAmount(owed' + fees')
    BY DEF Backed, getTokenAmount
  <2>7. QED
    BY <1>3, <2>5, <2>6
<1>8. QED
  BY <1>6, <1>7 DEF Inv

(* Backed says that the wallet holds what it pays. *)
LEMMA PayOutInv ==
    ASSUME Inv, NEW a \in 1 .. owed, PayOut(a)
    PROVE  Inv'
<1>1. wallet \in Nat /\ owed \in Nat /\ fees \in Nat /\ held \in Nat /\ kept \in Nat
  BY DEF Inv, AmountsTypeOK
<1>2. a \in Nat /\ owed - a \in Nat
  BY <1>1
<1>3. getTokenAmount(wallet) = held + kept + getTokenAmount(owed + fees)
  BY DEF Inv, Backed
<1>4. /\ getTokenAmount(owed + fees) = getTokenAmount(a) + getTokenAmount(owed - a + fees)
      /\ getTokenAmount(a) \in Nat /\ getTokenAmount(owed - a + fees) \in Nat
  <2>1. owed + fees = a + (owed - a + fees) /\ owed - a + fees \in Nat
    BY <1>1, <1>2
  <2>2. QED
    BY <1>2, <2>1, TokenAmounts
<1>5. a <= wallet
  <2>1. getTokenAmount(wallet) \in Nat /\ getTokenAmount(a) <= getTokenAmount(wallet)
    BY <1>1, <1>3, <1>4, TokenAmounts
  <2>2. QED
    BY <1>1, <1>2, <2>1, TokenAmounts
<1>6. wallet = a + (wallet - a) /\ wallet - a \in Nat
  BY <1>1, <1>2, <1>5
<1>7. /\ getTokenAmount(wallet) = getTokenAmount(a) + getTokenAmount(wallet - a)
      /\ getTokenAmount(wallet - a) \in Nat
  BY <1>2, <1>6, TokenAmounts
<1>8. getTokenAmount(wallet - a) = held + kept + getTokenAmount(owed - a + fees)
  BY <1>1, <1>3, <1>4, <1>7
<1>9. AmountsTypeOK'
  BY <1>1, <1>2, <1>5 DEF PayOut, Inv, AmountsTypeOK
<1>10. Backed'
  BY <1>8 DEF PayOut, Backed, getTokenAmount
<1>11. QED
  BY <1>9, <1>10 DEF Inv

(* One step per action. *)
LEMMA NextInv == Inv /\ [AmountsNext]_amountsVars => Inv'
<1> SUFFICES ASSUME Inv, [AmountsNext]_amountsVars PROVE Inv'
  OBVIOUS
<1>1. ASSUME NEW a \in 1 .. MaxAmount, TransferFromBtc(a) PROVE Inv'
  BY <1>1, TransferFromBtcInv
<1>2. ASSUME NEW t \in 1 .. MaxTransfers * MaxAmount * Divisor, transferToBtc(t) PROVE Inv'
  <2>1. t \in Nat
    BY AmountsAssumption
  <2>2. QED
    BY <1>2, <2>1, transferToBtcInv
<1>3. ASSUME NEW a \in 1 .. owed, PayOut(a) PROVE Inv'
  BY <1>3, PayOutInv
<1>4. ASSUME NEW p \in Policy, setEvmToBtcTransferPolicy(p) PROVE Inv'
  BY <1>4 DEF setEvmToBtcTransferPolicy, Inv, AmountsTypeOK, Backed, getTokenAmount
<1>5. CASE withdrawTokens
  <2>1. AmountsTypeOK'
    BY <1>5 DEF withdrawTokens, Inv, AmountsTypeOK
  <2>2. held' + kept' = held + kept
    BY <1>5 DEF withdrawTokens, Inv, AmountsTypeOK
  <2>3. UNCHANGED <<wallet, owed, fees>>
    BY <1>5 DEF withdrawTokens
  <2>4. QED
    BY <2>1, <2>2, <2>3 DEF Inv, Backed, getTokenAmount
<1>6. CASE UNCHANGED amountsVars
  BY <1>6 DEF amountsVars, Inv, AmountsTypeOK, Backed, getTokenAmount
<1>7. QED
  BY <1>1, <1>2, <1>3, <1>4, <1>5, <1>6 DEF AmountsNext

(* No balance of the wallet, of the users or of the contract is ever        *)
(* negative, and every amount is a whole number.                            *)
THEOREM AmountsAreNaturals == AmountsSpec => []AmountsTypeOK
<1>1. Inv => AmountsTypeOK
  BY DEF Inv
<1>2. QED
  BY <1>1, InitInv, NextInv, PTL DEF AmountsSpec

(* Tokens, unpaid burns and fees are at all times backed by exactly as many *)
(* runes, whatever the divisor, the percentage and the policies.            *)
THEOREM TokensStayBacked == AmountsSpec => []Backed
<1>1. Inv => Backed
  BY DEF Inv
<1>2. QED
  BY <1>1, InitInv, NextInv, PTL DEF AmountsSpec

(* A transfer loses less than a unit of the rune to rounding, and never to  *)
(* the disadvantage of the bridge.                                          *)
THEOREM RoundingStaysFair == AmountsSpec => []RoundingIsFair
<1>1. AmountsInit => RoundingIsFair
  BY DEF AmountsInit, NoTransfer, RoundingIsFair
<1>2. Inv /\ RoundingIsFair /\ [AmountsNext]_amountsVars => RoundingIsFair'
  <2> SUFFICES ASSUME Inv, RoundingIsFair, [AmountsNext]_amountsVars PROVE RoundingIsFair'
    OBVIOUS
  <2>1. ASSUME NEW a \in 1 .. MaxAmount, TransferFromBtc(a) PROVE RoundingIsFair'
    <3> DEFINE n == NetAmount(a)
    <3>1. a \in Nat
      BY AmountsAssumption
    <3>2. /\ n \in 0 .. a
          /\ (a - n) * FeeDen >= a * FeeNum
          /\ (a - n) * FeeDen < a * FeeNum + FeeDen
      BY <3>1, NetAmountBounds
    <3>3. last' = [kind |-> "deposit", amount |-> a, net |-> n, fee |-> a - n]
      BY <2>1 DEF TransferFromBtc
    <3> HIDE DEF n
    <3>4. a = n + (a - n)
      BY <3>1, <3>2
    <3>5. QED
      BY <3>2, <3>3, <3>4 DEF RoundingIsFair
  <2>2. ASSUME NEW t \in 1 .. MaxTransfers * MaxAmount * Divisor, transferToBtc(t)
        PROVE  RoundingIsFair'
    <3> DEFINE f == TokenFee(t)
               n == getTokenAmount(getRuneAmount(t - f))
    <3>1. t \in Nat /\ t >= f
      BY <2>2, AmountsAssumption DEF transferToBtc
    <3>2. f \in Nat /\ n \in Nat /\ n <= t - f /\ t - f < n + Divisor
      BY <3>1, BurnBounds, TokenAmounts DEF Inv
    <3>3. last' = [kind |-> "burn", amount |-> t, net |-> n, fee |-> f]
      BY <2>2 DEF transferToBtc
    <3> HIDE DEF f, n
    <3>4. Divisor \in Nat
      BY AmountsAssumption
    <3>5. t - n >= f /\ t - n < f + Divisor
      BY <3>1, <3>2, <3>4
    <3>6. QED
      BY <3>3, <3>5 DEF RoundingIsFair
  <2>3. CASE UNCHANGED last
    BY <2>3 DEF RoundingIsFair
  <2>4. QED
    BY <2>1, <2>2, <2>3 DEF AmountsNext, amountsVars, PayOut, setEvmToBtcTransferPolicy, withdrawTokens
<1>3. QED
  BY <1>1, <1>2, InitInv, NextInv, PTL DEF AmountsSpec

-----------------------------------------------------------------------------
(* Deposit addresses *)

Address == Bridge \X (1 .. MaxId)

Transactions ==
    [user : User \cup {<<>>}, id : 0 .. MaxId, newUser : BOOLEAN,
     address : Address \cup {<<>>}, newAddress : BOOLEAN]

Typed ==
    /\ users \subseteq (1 .. MaxId) \X User
    /\ addresses \subseteq (1 .. MaxId) \X Address
    /\ nextId \in 1 .. MaxId + 1
    /\ pc \in [Request -> Steps]
    /\ tx \in [Request -> Transactions]
    /\ \A r \in Request : pc[r] # "idle" => tx[r].user \in User
    /\ shown \subseteq User \X Address
    /\ faults \in 0 .. MaxFaults

(* Steps at which the id is that of a row, committed or about to be. *)
Found == {"find_address", "insert_address", "commit"}

(* A committed row has an id and a user of its own, and an address is that  *)
(* of a committed user.                                                     *)
RowsInv ==
    /\ \A a, b \in users : a[1] = b[1] <=> a[2] = b[2]
    /\ \A row \in users : row[1] < nextId
    /\ \A row \in addresses : \E u \in User :
          <<row[1], u>> \in users /\ row[2] = derive_address(u[1], row[1])

(* Requests that have taken an id but not committed a row with it. *)
Claims(r) == pc[r] = "insert_user" \/ tx[r].newUser

(* An id no row and no other request has. *)
Fresh(r) ==
    /\ tx[r].id \in 1 .. nextId - 1
    /\ \A row \in users : row[1] # tx[r].id
    /\ \A q \in Request \ {r} : Claims(q) => tx[q].id # tx[r].id

(* The user that is being inserted, by one request only. *)
Inserting(r) ==
    /\ pc[r] \in Found
    /\ Fresh(r)
    /\ \A row \in users : row[2] # tx[r].user
    /\ \A q \in Request \ {r} : tx[q].newUser => tx[q].user # tx[r].user

Sound(r) ==
    /\ pc[r] = "insert_user" => Fresh(r)
    /\ tx[r].newUser => Inserting(r)
    /\ tx[r].newAddress => pc[r] = "commit"
    /\ pc[r] \in Found /\ ~tx[r].newUser => <<tx[r].id, tx[r].user>> \in users
    /\ pc[r] = "commit" =>
          /\ tx[r].address = derive_address(tx[r].user[1], tx[r].id)
          /\ ~tx[r].newAddress => <<tx[r].id, tx[r].address>> \in addresses
    /\ pc[r] = "respond" =>
          /\ <<tx[r].id, tx[r].user>> \in users
          /\ <<tx[r].id, tx[r].address>> \in addresses

RequestInv == \A r \in Request : Sound(r)

(* What users were shown is committed. *)
ShownInv ==
    \A s \in shown : \E i \in 1 .. MaxId :
        <<i, s[1]>> \in users /\ <<i, s[2]>> \in addresses

DepositInv ==
    /\ scanned \subseteq paid
    /\ paid \subseteq {s[2] : s \in shown}
    /\ \A c \in credited : c[1] \in scanned
    /\ CreditedToDepositor

IInv == Typed /\ RowsInv /\ RequestInv /\ ShownInv /\ DepositInv

LEMMA Pair ==
  ASSUME NEW A, NEW B, NEW p \in A \X B
  PROVE  p[1] \in A /\ p[2] \in B /\ p = <<p[1], p[2]>>
OBVIOUS

LEMMA TypedRequest ==
  ASSUME Typed, NEW r \in Request
  PROVE  /\ pc \in [Request -> Steps] /\ tx \in [Request -> Transactions]
         /\ tx[r] \in Transactions /\ tx[r].id \in Int
         /\ nextId \in Int /\ 1 <= nextId /\ nextId <= MaxId + 1
         /\ pc[r] # "idle" => tx[r].user \in User
<1>1. /\ pc \in [Request -> Steps] /\ tx \in [Request -> Transactions]
      /\ nextId \in 1 .. MaxId + 1
      /\ pc[r] # "idle" => tx[r].user \in User
  BY DEF Typed
<1>2. tx[r] \in Transactions
  BY <1>1
<1>3. tx[r].id \in 0 .. MaxId
  BY <1>2 DEF Transactions
<1>4. QED
  BY <1>1, <1>2, <1>3, AddressesAssumption

(* A committed address belongs to the user with its id. *)
LEMMA AddressOfRow ==
  ASSUME Typed, RowsInv, NEW i, NEW a, <<i, a>> \in addresses
  PROVE  \E u \in User : <<i, u>> \in users /\ a = <<u[1], i>>
<1>1. PICK u \in User : <<i, u>> \in users /\ a = derive_address(u[1], i)
  BY DEF RowsInv
<1>2. QED
  BY <1>1 DEF derive_address

LEMMA ShownIsOwn ==
  ASSUME Typed, RowsInv, ShownInv, NEW s \in shown
  PROVE  \E i \in 1 .. MaxId : <<i, s[1]>> \in users /\ s[2] = <<s[1][1], i>>
<1>1. PICK i \in 1 .. MaxId : <<i, s[1]>> \in users /\ <<i, s[2]>> \in addresses
  BY DEF ShownInv
<1>2. PICK u \in User : <<i, u>> \in users /\ s[2] = <<u[1], i>>
  BY <1>1, AddressOfRow
<1>3. u = s[1]
  BY <1>1, <1>2 DEF RowsInv
<1>4. QED
  BY <1>1, <1>2, <1>3

LEMMA AddressesAreOwn ==
  Typed /\ RowsInv /\ ShownInv => OneAddressEach
<1> SUFFICES ASSUME Typed, RowsInv, ShownInv, NEW s \in shown, NEW t \in shown
             PROVE  s[1] = t[1] <=> s[2] = t[2]
  BY DEF OneAddressEach
<1>1. PICK i \in 1 .. MaxId : <<i, s[1]>> \in users /\ s[2] = <<s[1][1], i>>
  BY ShownIsOwn
<1>2. PICK j \in 1 .. MaxId : <<j, t[1]>> \in users /\ t[2] = <<t[1][1], j>>
  BY ShownIsOwn
<1>3. i = j <=> s[1] = t[1]
  BY <1>1, <1>2 DEF RowsInv
<1>4. QED
  BY <1>1, <1>2, <1>3

(* What a request finds or inserts. *)
LEMMA NewTxTyped ==
  ASSUME NEW u \in User \cup {<<>>}
  PROVE  /\ NewTx(u) \in Transactions /\ NewTx(u).user = u
         /\ ~NewTx(u).newUser /\ ~NewTx(u).newAddress
<1>1. 0 \in 0 .. MaxId
  BY AddressesAssumption
<1>2. QED
  BY <1>1 DEF NewTx, Transactions

LEMMA IdSet ==
  ASSUME NEW t \in Transactions, NEW i \in 0 .. MaxId, NEW e, e = [t EXCEPT !.id = i]
  PROVE  /\ e \in Transactions /\ e.id = i /\ e.user = t.user
         /\ e.newUser = t.newUser /\ e.newAddress = t.newAddress
BY DEF Transactions

(* A step of one request leaves the others sound if it does not take the id *)
(* or the user they have.                                                   *)
LEMMA OthersStaySound ==
  ASSUME Typed, RequestInv, NEW r \in Request,
         UNCHANGED <<users, addresses>>, nextId' \in {nextId, nextId + 1},
         \A q \in Request \ {r} : tx'[q] = tx[q] /\ pc'[q] = pc[q],
         Claims(r)' => \A q \in Request \ {r} : Claims(q) => tx'[r].id # tx[q].id,
         tx'[r].newUser => \A q \in Request \ {r} : tx[q].newUser => tx'[r].user # tx[q].user
  PROVE  \A q \in Request \ {r} : Sound(q)'
<1> TAKE q \in Request \ {r}
<1>1. Sound(q) /\ tx'[q] = tx[q] /\ pc'[q] = pc[q]
  BY DEF RequestInv
<1>2. nextId \in Int /\ tx[q].id \in Int
  BY TypedRequest
<1>3. \A p \in Request \ {r} : Claims(p)' <=> Claims(p)
  BY DEF Claims
<1>4. Fresh(q) /\ Claims(q) => Fresh(q)'
  <2> SUFFICES ASSUME Fresh(q), Claims(q)
               PROVE  Fresh(q)'
    OBVIOUS
  <2>1. tx[q].id \in 1 .. nextId' - 1
    BY <1>2 DEF Fresh
  <2>2. \A row \in users : row[1] # tx[q].id
    BY DEF Fresh
  <2>3. ASSUME NEW p \in Request \ {q}, Claims(p)'
        PROVE  tx'[p].id # tx[q].id
    <3>1. CASE p = r
      BY <2>3, <3>1
    <3>2. CASE p # r
      BY <1>3, <2>3, <3>2 DEF Fresh
    <3>3. QED
      BY <3>1, <3>2
  <2>4. QED
    BY <1>1, <2>1, <2>2, <2>3 DEF Fresh
<1>5. tx[q].newUser => Inserting(q)'
  <2> SUFFICES ASSUME tx[q].newUser
               PROVE  Inserting(q)'
    OBVIOUS
  <2>1. Inserting(q)
    BY <1>1 DEF Sound
  <2>2. Fresh(q)'
    BY <1>4, <2>1 DEF Inserting, Claims
  <2>3. ASSUME NEW p \in Request \ {q}, tx'[p].newUser
        PROVE  tx'[p].user # tx[q].user
    <3>1. CASE p = r
      BY <2>3, <3>1
    <3>2. CASE p # r
      BY <2>1, <2>3, <3>2 DEF Inserting
    <3>3. QED
      BY <3>1, <3>2
  <2>4. QED
    BY <1>1, <2>1, <2>2, <2>3 DEF Inserting
<1>6. QED
  BY <1>1, <1>4, <1>5 DEF Sound, Claims, derive_address

(* A request has not committed anything yet. *)
LEMMA NothingCommitted ==
  ASSUME Typed, RowsInv, ShownInv, DepositInv, UNCHANGED <<dbVars, shown, walletVars>>,
         nextId' \in {nextId, nextId + 1}
  PROVE  RowsInv' /\ ShownInv' /\ DepositInv'
<1> USE DEF dbVars, walletVars
<1>1. RowsInv'
  <2>1. nextId \in Int /\ \A row \in users : row[1] \in Int
    BY AddressesAssumption, Pair DEF Typed
  <2>2. \A row \in users : row[1] < nextId'
    BY <2>1 DEF RowsInv
  <2>3. QED
    BY <2>2 DEF RowsInv, derive_address
<1>2. ShownInv' /\ DepositInv'
  BY DEF ShownInv, DepositInv, CreditedToDepositor
<1>3. QED
  BY <1>1, <1>2

LEMMA InitIInv ==
  Init => IInv
<1> SUFFICES ASSUME Init
             PROVE  IInv
  OBVIOUS
<1> USE DEF Init
<1>1. NoTx \in Transactions /\ ~NoTx.newUser /\ ~NoTx.newAddress
  BY NewTxTyped DEF NoTx
<1>2. Typed
  BY <1>1, AddressesAssumption DEF Typed, Steps, FirstId
<1>3. RowsInv /\ ShownInv /\ DepositInv
  BY DEF RowsInv, ShownInv, DepositInv, CreditedToDepositor
<1>4. RequestInv
  BY <1>1 DEF RequestInv, Sound, Found
<1>5. QED
  BY <1>2, <1>3, <1>4 DEF IInv

(* The transaction of a request ends or begins: it holds nothing. *)
LEMMA IdleIInv ==
  ASSUME IInv, NEW r \in Request, NEW u \in User \cup {<<>>}, NEW step \in {"idle", "find_user"},
         step = "find_user" => u \in User,
         pc' = [pc EXCEPT ![r] = step], tx' = [tx EXCEPT ![r] = NewTx(u)],
         UNCHANGED <<dbVars, nextId, walletVars, shown>>, faults' \in 0 .. MaxFaults
  PROVE  IInv'
<1> USE DEF IInv, dbVars, walletVars
<1>1. NewTx(u) \in Transactions /\ ~NewTx(u).newUser /\ ~NewTx(u).newAddress /\ NewTx(u).user = u
  BY NewTxTyped
<1>2. /\ pc \in [Request -> Steps] /\ tx \in [Request -> Transactions]
      /\ tx'[r] = NewTx(u) /\ pc'[r] = step
      /\ \A q \in Request \ {r} : tx'[q] = tx[q] /\ pc'[q] = pc[q]
  BY DEF Typed
<1>3. Typed'
  BY <1>1, <1>2 DEF Typed, Steps
<1>4. \A q \in Request \ {r} : Sound(q)'
  BY <1>1, <1>2, OthersStaySound DEF dbVars, Claims
<1>5. Sound(r)'
  BY <1>1, <1>2 DEF Sound, Found
<1>6. RequestInv'
  BY <1>4, <1>5 DEF RequestInv
<1>7. QED
  BY <1>3, <1>6, NothingCommitted

LEMMA FindUserIInv ==
  ASSUME IInv, NEW r \in Request, FindUser(r)
  PROVE  IInv'
<1> USE DEF IInv, FindUser, Goto, dbVars, walletVars
<1>1. /\ pc \in [Request -> Steps] /\ tx \in [Request -> Transactions]
      /\ tx[r] \in Transactions
      /\ tx[r].user \in User /\ Sound(r)
  BY TypedRequest DEF RequestInv
<1>2. ~tx[r].newUser /\ ~tx[r].newAddress
  BY <1>1 DEF Sound, Inserting, Found
<1>3. CASE \E row \in users : /\ row[2] = tx[r].user
                              /\ tx' = [tx EXCEPT ![r].id = row[1]]
                              /\ Goto(r, "find_address")
  <2>1. PICK row \in users : /\ row[2] = tx[r].user
                             /\ tx' = [tx EXCEPT ![r].id = row[1]]
                             /\ pc' = [pc EXCEPT ![r] = "find_address"]
    BY <1>3
  <2>2. row[1] \in 0 .. MaxId /\ row = <<row[1], row[2]>>
    <3>1. row \in (1 .. MaxId) \X User
      BY DEF Typed
    <3>2. row[1] \in 1 .. MaxId /\ row = <<row[1], row[2]>>
      BY <3>1, Pair
    <3>3. QED
      BY <3>2, AddressesAssumption
  <2>3. /\ tx'[r] = [tx[r] EXCEPT !.id = row[1]] /\ pc'[r] = "find_address"
        /\ \A q \in Request \ {r} : tx'[q] = tx[q] /\ pc'[q] = pc[q]
    BY <1>1, <2>1
  <2>4. /\ tx'[r] \in Transactions
        /\ tx'[r].user = tx[r].user /\ tx'[r].id = row[1] /\ ~tx'[r].newUser /\ ~tx'[r].newAddress
    BY <1>1, <1>2, <2>2, <2>3, IdSet
  <2>5. Typed'
    BY <1>1, <2>1, <2>3, <2>4 DEF Typed, Steps
  <2>6. \A q \in Request \ {r} : Sound(q)'
    BY <2>3, <2>4, OthersStaySound DEF dbVars, Claims
  <2>7. Sound(r)'
    BY <2>1, <2>2, <2>3, <2>4 DEF Sound, Found
  <2>8. QED
    BY <2>5, <2>6, <2>7, NothingCommitted DEF RequestInv
<1>4. CASE Goto(r, "next_id") /\ UNCHANGED tx
  <2>1. pc'[r] = "next_id" /\ \A q \in Request \ {r} : tx'[q] = tx[q] /\ pc'[q] = pc[q]
    BY <1>1, <1>4
  <2>2. Typed'
    BY <1>1, <1>4 DEF Typed, Steps
  <2>3. \A q \in Request \ {r} : Sound(q)'
    BY <1>2, <1>4, <2>1, OthersStaySound DEF dbVars, Claims
  <2>4. Sound(r)'
    BY <1>2, <1>4, <2>1 DEF Sound, Found
  <2>5. QED
    BY <2>2, <2>3, <2>4, NothingCommitted DEF RequestInv
<1>5. QED
  BY <1>3, <1>4

LEMMA NextIdIInv ==
  ASSUME IInv, NEW r \in Request, NextId(r)
  PROVE  IInv'
<1> USE DEF IInv, NextId, Goto, dbVars, walletVars
<1>1. /\ pc \in [Request -> Steps] /\ tx \in [Request -> Transactions]
      /\ tx[r] \in Transactions
      /\ tx[r].user \in User /\ Sound(r) /\ nextId \in 1 .. MaxId
  BY TypedRequest, AddressesAssumption DEF RequestInv
<1>2. ~tx[r].newUser /\ ~tx[r].newAddress
  BY <1>1 DEF Sound, Inserting, Found
<1>3. /\ tx'[r] = [tx[r] EXCEPT !.id = nextId] /\ pc'[r] = "insert_user"
      /\ \A q \in Request \ {r} : tx'[q] = tx[q] /\ pc'[q] = pc[q]
  BY <1>1
<1>4. /\ tx'[r] \in Transactions
      /\ tx'[r].user = tx[r].user /\ tx'[r].id = nextId /\ ~tx'[r].newUser /\ ~tx'[r].newAddress
  <2>1. nextId \in 0 .. MaxId
    BY <1>1, AddressesAssumption
  <2>2. QED
    BY <1>1, <1>2, <1>3, <2>1, IdSet
<1>5. Typed'
  <2>1. nextId' \in 1 .. MaxId + 1
    BY <1>1, AddressesAssumption
  <2>2. QED
    BY <1>1, <1>3, <1>4, <2>1 DEF Typed, Steps
<1>6. \A q \in Request \ {r} : Claims(q) => nextId # tx[q].id
  <2> SUFFICES ASSUME NEW q \in Request \ {r}, Claims(q)
               PROVE  nextId # tx[q].id
    OBVIOUS
  <2>1. Fresh(q)
    BY DEF RequestInv, Sound, Inserting, Claims
  <2>2. tx[q].id \in 1 .. nextId - 1
    BY <2>1 DEF Fresh
  <2>3. QED
    BY <1>1, <2>2, AddressesAssumption
<1>7. \A q \in Request \ {r} : Sound(q)'
  BY <1>3, <1>4, <1>6, OthersStaySound DEF dbVars, Claims
<1>8. Fresh(r)'
  <2>1. nextId \in 1 .. nextId' - 1
    BY <1>1, AddressesAssumption
  <2>2. \A row \in users : row[1] # nextId
    <3>1. \A row \in users : row[1] \in Int /\ row[1] < nextId
      BY Pair, AddressesAssumption DEF Typed, RowsInv
    <3>2. QED
      BY <1>1, <3>1, AddressesAssumption
  <2>3. \A q \in Request \ {r} : Claims(q)' => tx'[q].id # nextId
    BY <1>3, <1>6 DEF Claims
  <2>4. QED
    BY <1>4, <2>1, <2>2, <2>3 DEF Fresh
<1>9. Sound(r)'
  BY <1>3, <1>4, <1>8 DEF Sound, Found
<1>10. QED
  BY <1>5, <1>7, <1>9, NothingCommitted DEF RequestInv

LEMMA InsertUserIInv ==
  ASSUME IInv, NEW r \in Request, InsertUser(r)
  PROVE  IInv'
<1> USE DEF IInv, InsertUser, Goto, dbVars, walletVars
<1>1. /\ pc \in [Request -> Steps] /\ tx \in [Request -> Transactions]
      /\ tx[r] \in Transactions
      /\ tx[r].user \in User /\ Sound(r) /\ Fresh(r)
  BY TypedRequest DEF RequestInv, Sound
<1>2. ~tx[r].newAddress
  BY <1>1 DEF Sound
<1>3. /\ [tx[r] EXCEPT !.newUser = TRUE] \in Transactions
      /\ tx'[r] = [tx[r] EXCEPT !.newUser = TRUE] /\ pc'[r] = "find_address"
      /\ \A q \in Request \ {r} : tx'[q] = tx[q] /\ pc'[q] = pc[q]
  BY <1>1 DEF Transactions
<1>4. tx'[r].user = tx[r].user /\ tx'[r].id = tx[r].id /\ tx'[r].newUser /\ ~tx'[r].newAddress
  BY <1>1, <1>2, <1>3 DEF Transactions
<1>5. Typed'
  BY <1>1, <1>3, <1>4 DEF Typed, Steps
<1>6. \A q \in Request \ {r} :
         /\ Claims(q) => tx[r].id # tx[q].id
         /\ tx[q].newUser => tx[r].user # tx[q].user
  BY <1>1 DEF Fresh, Blocked
<1>7. \A q \in Request \ {r} : Sound(q)'
  BY <1>3, <1>4, <1>6, OthersStaySound DEF dbVars, Claims
<1>8. Inserting(r)'
  BY <1>1, <1>3, <1>4, <1>6 DEF Inserting, Fresh, Found, Inserted, Claims
<1>9. Sound(r)'
  BY <1>3, <1>4, <1>8 DEF Sound, Found
<1>10. QED
  BY <1>5, <1>7, <1>9, NothingCommitted DEF RequestInv

(* A request that goes on keeps the user it is inserting to itself. *)
LEMMA StaysInserting ==
  ASSUME NEW r \in Request, Inserting(r), UNCHANGED <<users, nextId>>,
         pc'[r] \in Found, tx'[r].id = tx[r].id, tx'[r].user = tx[r].user,
         \A q \in Request \ {r} : tx'[q] = tx[q] /\ pc'[q] = pc[q]
  PROVE  Inserting(r)'
BY DEF Inserting, Fresh, Claims

LEMMA FindAddressIInv ==
  ASSUME IInv, NEW r \in Request, FindAddress(r)
  PROVE  IInv'
<1> USE DEF IInv, FindAddress, Goto, dbVars, walletVars
<1>1. /\ pc \in [Request -> Steps] /\ tx \in [Request -> Transactions]
      /\ tx[r] \in Transactions
      /\ tx[r].user \in User /\ Sound(r) /\ pc[r] \in Found
  BY TypedRequest DEF RequestInv, Found
<1>2. ~tx[r].newAddress
  BY <1>1 DEF Sound
<1>3. tx[r].newUser => Inserting(r)
  BY <1>1 DEF Sound
<1>4. Claims(r) <=> tx[r].newUser
  BY DEF Claims
<1>5. \A q \in Request \ {r} :
         /\ Claims(r) /\ Claims(q) => tx[r].id # tx[q].id
         /\ tx[r].newUser /\ tx[q].newUser => tx[r].user # tx[q].user
  BY <1>3, <1>4 DEF Inserting, Fresh
<1>6. CASE \E row \in addresses : /\ row[1] = tx[r].id
                                  /\ tx' = [tx EXCEPT ![r].address = row[2]]
                                  /\ Goto(r, "commit")
  <2>1. PICK row \in addresses : /\ row[1] = tx[r].id
                                 /\ tx' = [tx EXCEPT ![r].address = row[2]]
                                 /\ pc' = [pc EXCEPT ![r] = "commit"]
    BY <1>6
  <2>2. row[2] \in Address /\ row = <<tx[r].id, row[2]>>
    <3>1. row \in (1 .. MaxId) \X Address
      BY DEF Typed
    <3>2. QED
      BY <2>1, <3>1, Pair
  <2>3. /\ tx'[r] = [tx[r] EXCEPT !.address = row[2]] /\ pc'[r] = "commit"
        /\ \A q \in Request \ {r} : tx'[q] = tx[q] /\ pc'[q] = pc[q]
    BY <1>1, <2>1
  <2>4. /\ tx'[r] \in Transactions
        /\ tx'[r].user = tx[r].user /\ tx'[r].id = tx[r].id /\ tx'[r].address = row[2]
        /\ tx'[r].newUser = tx[r].newUser /\ ~tx'[r].newAddress
    BY <1>1, <1>2, <2>2, <2>3 DEF Transactions
  <2>5. Typed'
    BY <1>1, <2>1, <2>3, <2>4 DEF Typed, Steps
  <2>6. PICK u \in User : <<tx[r].id, u>> \in users /\ row[2] = <<u[1], tx[r].id>>
    BY <2>2, AddressOfRow
  <2>7. ~tx[r].newUser
    BY <1>3, <2>6 DEF Inserting, Fresh
  <2>8. u = tx[r].user
    BY <1>1, <2>6, <2>7 DEF Sound, RowsInv
  <2>9. \A q \in Request \ {r} : Sound(q)'
    BY <2>3, <2>4, <2>7, OthersStaySound DEF Claims
  <2>10. Sound(r)'
    BY <1>1, <2>2, <2>3, <2>4, <2>6, <2>7, <2>8 DEF Sound, Found, derive_address
  <2>11. QED
    BY <2>5, <2>9, <2>10, NothingCommitted DEF RequestInv
<1>7. CASE Goto(r, "insert_address") /\ UNCHANGED tx
  <2>1. pc'[r] = "insert_address" /\ \A q \in Request \ {r} : tx'[q] = tx[q] /\ pc'[q] = pc[q]
    BY <1>1, <1>7
  <2>2. Typed'
    BY <1>1, <1>7 DEF Typed, Steps
  <2>3. Claims(r)' => Claims(r)
    BY <1>7, <2>1 DEF Claims
  <2>4. \A q \in Request \ {r} : Sound(q)'
    BY <1>5, <1>7, <2>1, <2>3, OthersStaySound
  <2>5. tx[r].newUser => Inserting(r)'
    BY <1>3, <1>7, <2>1, StaysInserting DEF Found
  <2>6. Sound(r)'
    BY <1>1, <1>2, <1>7, <2>1, <2>5 DEF Sound, Found
  <2>7. QED
    BY <2>2, <2>4, <2>6, NothingCommitted DEF RequestInv
<1>8. QED
  BY <1>6, <1>7

LEMMA InsertAddressIInv ==
  ASSUME IInv, NEW r \in Request, InsertAddress(r)
  PROVE  IInv'
<1> DEFINE a == derive_address(tx[r].user[1], tx[r].id)
<1> USE DEF IInv, InsertAddress, Goto, dbVars, walletVars
<1>1. /\ pc \in [Request -> Steps] /\ tx \in [Request -> Transactions]
      /\ tx[r] \in Transactions
      /\ tx[r].user \in User /\ Sound(r) /\ pc[r] \in Found
  BY TypedRequest DEF RequestInv, Found
<1>2. tx[r].newUser => Inserting(r)
  BY <1>1 DEF Sound
<1>3. tx[r].id \in 1 .. MaxId
  <2>1. CASE tx[r].newUser
    <3>1. tx[r].id \in 1 .. nextId - 1
      BY <1>2, <2>1 DEF Inserting, Fresh
    <3>2. nextId \in 1 .. MaxId + 1
      BY DEF Typed
    <3>3. QED
      BY <3>1, <3>2, AddressesAssumption
  <2>2. CASE ~tx[r].newUser
    <3>1. <<tx[r].id, tx[r].user>> \in (1 .. MaxId) \X User
      BY <1>1, <2>2 DEF Sound, Typed
    <3>2. QED
      BY <3>1
  <2>3. QED
    BY <2>1, <2>2
<1>4. a \in Address
  BY <1>1, <1>3, Pair DEF User, Address, derive_address
<1>5. /\ tx'[r] = [tx[r] EXCEPT !.address = a, !.newAddress = TRUE] /\ pc'[r] = "commit"
      /\ \A q \in Request \ {r} : tx'[q] = tx[q] /\ pc'[q] = pc[q]
  BY <1>1
<1>6. /\ tx'[r] \in Transactions
      /\ tx'[r].user = tx[r].user /\ tx'[r].id = tx[r].id /\ tx'[r].address = a
      /\ tx'[r].newUser = tx[r].newUser /\ tx'[r].newAddress
  <2> HIDE DEF a
  <2>1. QED
    BY <1>1, <1>4, <1>5 DEF Transactions
<1>7. Typed'
  BY <1>1, <1>5, <1>6 DEF Typed, Steps
<1>8. Claims(r)' => tx[r].newUser
  BY <1>5, <1>6 DEF Claims
<1>9. \A q \in Request \ {r} : Sound(q)'
  <2>1. Claims(r)' => \A q \in Request \ {r} : Claims(q) => tx'[r].id # tx[q].id
    BY <1>2, <1>6, <1>8 DEF Inserting, Fresh
  <2>2. tx'[r].newUser => \A q \in Request \ {r} : tx[q].newUser => tx'[r].user # tx[q].user
    BY <1>2, <1>6 DEF Inserting
  <2>3. QED
    BY <1>5, <2>1, <2>2, OthersStaySound
<1>10. tx[r].newUser => Inserting(r)'
  BY <1>2, <1>5, <1>6, StaysInserting DEF Found
<1>11. Sound(r)'
  BY <1>1, <1>5, <1>6, <1>10 DEF Sound, Found, derive_address
<1>12. QED
  BY <1>7, <1>9, <1>11, NothingCommitted DEF RequestInv

(* A transaction is rolled back. *)
LEMMA FailsIInv ==
  ASSUME IInv, NEW r \in Request, IntegrityError(r) \/ Fails(r)
  PROVE  IInv'
<1>1. /\ pc' = [pc EXCEPT ![r] = "idle"] /\ tx' = [tx EXCEPT ![r] = NewTx(<<>>)]
      /\ UNCHANGED <<dbVars, nextId, walletVars, shown>>
  BY DEF IntegrityError, Fails, End, Goto, NoTx
<1>2. faults' \in 0 .. MaxFaults
  BY AddressesAssumption DEF IntegrityError, Fails, IInv, Typed
<1>3. QED
  BY <1>1, <1>2, IdleIInv

LEMMA BeginIInv ==
  ASSUME IInv, NEW r \in Request, NEW u \in User, begin(r, u)
  PROVE  IInv'
<1>1. /\ pc' = [pc EXCEPT ![r] = "find_user"] /\ tx' = [tx EXCEPT ![r] = NewTx(u)]
      /\ UNCHANGED <<dbVars, nextId, walletVars, shown, faults>>
  BY DEF begin, Goto
<1>2. faults' \in 0 .. MaxFaults
  BY <1>1 DEF IInv, Typed
<1>3. QED
  BY <1>1, <1>2, IdleIInv

(* Who is shown an address that a deposit has come to has been shown it     *)
(* before.                                                                  *)
LEMMA RespondIInv ==
  ASSUME IInv, NEW r \in Request, Respond(r)
  PROVE  IInv'
<1> DEFINE new == <<tx[r].user, tx[r].address>>
<1> USE DEF IInv, Respond, End, Goto, dbVars, walletVars
<1>1. /\ pc \in [Request -> Steps] /\ tx \in [Request -> Transactions]
      /\ tx[r] \in Transactions
      /\ tx[r].user \in User /\ Sound(r)
  BY TypedRequest DEF RequestInv
<1>2. NoTx \in Transactions /\ ~NoTx.newUser /\ ~NoTx.newAddress
  BY NewTxTyped DEF NoTx
<1>3. /\ tx'[r] = NoTx /\ pc'[r] = "idle"
      /\ \A q \in Request \ {r} : tx'[q] = tx[q] /\ pc'[q] = pc[q]
  BY <1>1
<1>4. /\ <<tx[r].id, tx[r].user>> \in users /\ <<tx[r].id, tx[r].address>> \in addresses
  BY <1>1 DEF Sound
<1>5. tx[r].id \in 1 .. MaxId /\ tx[r].address \in Address
  <2>1. <<tx[r].id, tx[r].address>> \in (1 .. MaxId) \X Address
    BY <1>4 DEF Typed
  <2>2. QED
    BY <2>1
<1>6. Typed'
  BY <1>1, <1>2, <1>3, <1>5 DEF Typed, Steps
<1>7. RowsInv'
  BY DEF RowsInv
<1>8. ShownInv'
  <2>1. \A s \in shown' : s \in shown \/ s = new
    OBVIOUS
  <2>2. QED
    BY <1>4, <1>5, <2>1 DEF ShownInv
<1>9. RequestInv'
  <2>1. \A q \in Request \ {r} : Sound(q)'
    BY <1>2, <1>3, OthersStaySound DEF Claims
  <2>2. Sound(r)'
    BY <1>2, <1>3 DEF Sound, Found
  <2>3. QED
    BY <2>1, <2>2 DEF RequestInv
<1>10. OneAddressEach'
  BY <1>6, <1>7, <1>8, AddressesAreOwn, PTL
<1>11. DepositInv'
  <2>1. ASSUME NEW a \in scanned, NEW u \in User, <<u, a>> \in shown'
        PROVE  <<u, a>> \in shown
    <3>1. PICK s \in shown : s[2] = a
      BY DEF DepositInv
    <3>2. s \in User \X Address
      BY DEF Typed
    <3>3. s[1] = u
      BY <1>10, <2>1, <3>1 DEF OneAddressEach
    <3>4. QED
      BY <3>1, <3>2, <3>3, Pair
  <2>2. CreditedToDepositor'
    BY <2>1 DEF DepositInv, CreditedToDepositor
  <2>3. QED
    BY <2>2 DEF DepositInv
<1>12. QED
  BY <1>6, <1>7, <1>8, <1>9, <1>11

(* The rows a request commits, an id and a user nobody else has.            *)
LEMMA CommitIInv ==
  ASSUME IInv, NEW r \in Request, commit(r)
  PROVE  IInv'
<1> DEFINE i == tx[r].id
           u == tx[r].user
           a == tx[r].address
<1> USE DEF IInv, walletVars
<1>1. /\ pc \in [Request -> Steps] /\ tx \in [Request -> Transactions]
      /\ tx[r] \in Transactions
      /\ u \in User /\ Sound(r) /\ pc[r] = "commit"
      /\ nextId \in Int /\ 1 <= nextId /\ nextId <= MaxId + 1
  BY TypedRequest DEF RequestInv, commit
<1>2. tx[r].newUser => Inserting(r)
  BY <1>1 DEF Sound
<1>3. a = <<u[1], i>> /\ (~tx[r].newAddress => <<i, a>> \in addresses)
  BY <1>1 DEF Sound, derive_address
<1>4. ~tx[r].newUser => <<i, u>> \in users
  BY <1>1 DEF Sound, Found
<1>5. i \in 1 .. MaxId /\ i < nextId
  <2>1. CASE tx[r].newUser
    <3>1. i \in 1 .. nextId - 1
      BY <1>2, <2>1 DEF Inserting, Fresh
    <3>2. QED
      BY <1>1, <3>1, AddressesAssumption
  <2>2. CASE ~tx[r].newUser
    <3>1. <<i, u>> \in (1 .. MaxId) \X User /\ <<i, u>>[1] < nextId
      BY <1>4, <2>2 DEF Typed, RowsInv
    <3>2. QED
      BY <3>1
  <2>3. QED
    BY <2>1, <2>2
<1>6. a \in Address
  BY <1>1, <1>3, <1>5, Pair DEF User, Address
<1>7. /\ users \subseteq users' /\ <<i, u>> \in users'
      /\ \A row \in users' : row \in users \/ (row = <<i, u>> /\ tx[r].newUser)
  BY <1>4 DEF commit
<1>8. /\ addresses \subseteq addresses' /\ <<i, a>> \in addresses'
      /\ \A row \in addresses' : row \in addresses \/ row = <<i, a>>
  BY <1>3 DEF commit
<1>9. /\ tx'[r] = [tx[r] EXCEPT !.newUser = FALSE, !.newAddress = FALSE] /\ pc'[r] = "respond"
      /\ tx' = [tx EXCEPT ![r] = tx'[r]] /\ pc' = [pc EXCEPT ![r] = "respond"]
      /\ \A q \in Request \ {r} : tx'[q] = tx[q] /\ pc'[q] = pc[q]
      /\ UNCHANGED <<nextId, shown, walletVars, faults>>
  BY <1>1 DEF commit, Goto
<1>10. /\ tx'[r] \in Transactions /\ tx'[r].id = i /\ tx'[r].user = u /\ tx'[r].address = a
       /\ ~tx'[r].newUser /\ ~tx'[r].newAddress
  BY <1>1, <1>9 DEF Transactions
<1> HIDE DEF i, u, a
<1>11. Typed'
  <2>1. users' \subseteq (1 .. MaxId) \X User /\ addresses' \subseteq (1 .. MaxId) \X Address
    BY <1>1, <1>5, <1>6, <1>7, <1>8 DEF Typed
  <2>2. tx' \in [Request -> Transactions] /\ pc' \in [Request -> Steps]
    BY <1>1, <1>9, <1>10 DEF Steps
  <2>3. \A q \in Request : pc'[q] # "idle" => tx'[q].user \in User
    BY <1>1, <1>9, <1>10 DEF Typed
  <2>4. QED
    BY <1>9, <2>1, <2>2, <2>3 DEF Typed
<1>12. tx[r].newUser => \A row \in users : row[1] # i /\ row[2] # u
  BY <1>2 DEF Inserting, Fresh, i, u
<1>13. RowsInv'
  <2>1. ASSUME NEW v \in users', NEW w \in users'
        PROVE  v[1] = w[1] <=> v[2] = w[2]
    BY <1>7, <1>12 DEF RowsInv
  <2>2. \A row \in users' : row[1] < nextId'
    BY <1>5, <1>7, <1>9 DEF RowsInv
  <2>3. ASSUME NEW row \in addresses'
        PROVE  \E v \in User : <<row[1], v>> \in users' /\ row[2] = derive_address(v[1], row[1])
    <3>1. CASE row \in addresses
      BY <1>7, <3>1 DEF RowsInv
    <3>2. CASE row = <<i, a>>
      BY <1>1, <1>3, <1>7, <3>2 DEF derive_address, u
    <3>3. QED
      BY <1>8, <3>1, <3>2
  <2>4. QED
    BY <2>1, <2>2, <2>3 DEF RowsInv
<1>14. ShownInv' /\ DepositInv'
  <2>1. ShownInv'
    BY <1>7, <1>8, <1>9 DEF ShownInv
  <2>2. DepositInv'
    BY <1>9 DEF DepositInv, CreditedToDepositor
  <2>3. QED
    BY <2>1, <2>2
<1>15. ASSUME NEW q \in Request \ {r}
       PROVE  Sound(q)'
  <2>1. Sound(q) /\ tx'[q] = tx[q] /\ pc'[q] = pc[q]
    BY <1>9 DEF RequestInv
  <2>2. Claims(q) /\ tx[r].newUser => tx[q].id # i
    BY <1>2 DEF Inserting, Fresh, i
  <2>3. tx[q].newUser /\ tx[r].newUser => tx[q].user # u
    BY <1>2 DEF Inserting, u
  <2>4. \A p \in Request \ {q} : /\ Claims(p)' => Claims(p) /\ tx'[p].id = tx[p].id
                                 /\ tx'[p].newUser => tx[p].newUser /\ tx'[p].user = tx[p].user
    BY <1>9, <1>10 DEF Claims, i
  <2>5. Fresh(q) /\ Claims(q) => Fresh(q)'
    <3> SUFFICES ASSUME Fresh(q), Claims(q)
                 PROVE  Fresh(q)'
      OBVIOUS
    <3>1. \A row \in users' : row[1] # tx[q].id
      BY <1>7, <2>2 DEF Fresh
    <3>2. QED
      BY <1>9, <2>1, <2>4, <3>1 DEF Fresh
  <2>6. tx[q].newUser => Inserting(q)'
    <3> SUFFICES ASSUME tx[q].newUser
                 PROVE  Inserting(q)'
      OBVIOUS
    <3>1. Inserting(q)
      BY <2>1 DEF Sound
    <3>2. Fresh(q)'
      BY <2>5, <3>1 DEF Inserting, Claims
    <3>3. \A row \in users' : row[2] # tx[q].user
      BY <1>7, <2>3, <3>1 DEF Inserting
    <3>4. QED
      BY <2>1, <2>4, <3>1, <3>2, <3>3 DEF Inserting
  <2>7. QED
    BY <1>7, <1>8, <2>1, <2>5, <2>6 DEF Sound, Claims, derive_address
<1>16. Sound(r)'
  BY <1>7, <1>8, <1>9, <1>10 DEF Sound, Found
<1>17. QED
  BY <1>11, <1>13, <1>14, <1>15, <1>16 DEF RequestInv

LEMMA DepositIInv ==
  ASSUME IInv, NEW s \in shown, Deposit(s[2])
  PROVE  IInv'
<1> USE DEF IInv, Deposit, dbVars
<1>1. Typed' /\ RowsInv' /\ ShownInv'
  BY DEF Typed, RowsInv, ShownInv
<1>2. RequestInv'
  BY DEF RequestInv, Sound, Inserting, Fresh, Claims
<1>3. DepositInv'
  BY DEF DepositInv, CreditedToDepositor
<1>4. QED
  BY <1>1, <1>2, <1>3

(* The scanner finds the user who was shown the address, and nobody else.   *)
LEMMA LookedUp ==
  ASSUME Typed, RowsInv, ShownInv, NEW a, \E s \in shown : s[2] = a, NEW u \in User
  PROVE  /\ a # change_address(a[1])
         /\ (\E row \in addresses : row[2] = a /\ <<row[1], u>> \in users) <=> <<u, a>> \in shown
<1>1. PICK s \in shown : s[2] = a
  OBVIOUS
<1>2. s \in User \X Address
  BY DEF Typed
<1>3. PICK i \in 1 .. MaxId : <<i, s[1]>> \in users /\ <<i, a>> \in addresses
  BY <1>1 DEF ShownInv
<1>4. PICK w \in User : <<i, w>> \in users /\ a = <<w[1], i>>
  BY <1>3, AddressOfRow
<1>5. a # change_address(a[1])
  BY <1>3, <1>4, AddressesAssumption DEF change_address, derive_address
<1>6. OneAddressEach
  BY AddressesAreOwn
<1>7. ASSUME <<u, a>> \in shown
      PROVE  <<i, u>> \in users
  BY <1>1, <1>3, <1>6, <1>7 DEF OneAddressEach
<1>8. ASSUME NEW row \in addresses, row[2] = a, <<row[1], u>> \in users
      PROVE  <<u, a>> \in shown
  <2>1. row \in (1 .. MaxId) \X Address
    BY DEF Typed
  <2>2. row = <<row[1], a>>
    BY <1>8, <2>1, Pair
  <2>3. PICK v \in User : a = <<v[1], row[1]>>
    BY <2>2, AddressOfRow
  <2>4. row[1] = i
    BY <1>4, <2>3
  <2>5. u = s[1]
    BY <1>3, <1>8, <2>4 DEF RowsInv
  <2>6. QED
    BY <1>1, <1>2, <2>5, Pair
<1>9. QED
  BY <1>3, <1>5, <1>7, <1>8

LEMMA ScanIInv ==
  ASSUME IInv, NEW b \in Bridge, scan_rune_deposits(b)
  PROVE  IInv'
<1> DEFINE receives == {a \in paid \ scanned : a[1] = b}
<1> USE DEF IInv, dbVars
<1>1. /\ scanned' = scanned \cup receives
      /\ credited' = credited \cup
            {c \in (receives \ {change_address(b)}) \X User :
                \E row \in addresses : row[2] = c[1] /\ <<row[1], c[2]>> \in users}
      /\ UNCHANGED <<dbVars, nextId, pc, tx, shown, paid, faults>>
  BY DEF scan_rune_deposits
<1>2. Typed' /\ RowsInv' /\ ShownInv'
  BY <1>1 DEF Typed, RowsInv, ShownInv
<1>3. RequestInv'
  BY <1>1 DEF RequestInv, Sound, Inserting, Fresh, Claims
<1>4. /\ scanned' \subseteq paid'
      /\ paid' \subseteq {s[2] : s \in shown'}
      /\ \A c \in credited' : c[1] \in scanned'
  <2>1. \A c \in (receives \ {change_address(b)}) \X User : c[1] \in receives
    BY Pair
  <2>2. QED
    BY <1>1, <2>1 DEF DepositInv
<1>5. ASSUME NEW a \in scanned', NEW u \in User
      PROVE  <<a, u>> \in credited' <=> <<u, a>> \in shown'
  <2>1. CASE a \in scanned
    <3>1. <<a, u>> \in credited' <=> <<a, u>> \in credited
      BY <1>1, <2>1
    <3>2. QED
      BY <1>1, <2>1, <3>1 DEF DepositInv, CreditedToDepositor
  <2>2. CASE a \in receives
    <3>1. a \notin scanned /\ a[1] = b /\ \E s \in shown : s[2] = a
      BY <2>2 DEF DepositInv
    <3>2. <<a, u>> \notin credited
      BY <3>1 DEF DepositInv
    <3>3. /\ a # change_address(b)
          /\ (\E row \in addresses : row[2] = a /\ <<row[1], u>> \in users) <=> <<u, a>> \in shown
      BY <3>1, LookedUp
    <3>4. <<a, u>> \in credited' <=>
             \E row \in addresses : row[2] = a /\ <<row[1], u>> \in users
      BY <1>1, <2>2, <3>2, <3>3
    <3>5. QED
      BY <1>1, <3>3, <3>4
  <2>3. QED
    BY <1>1, <2>1, <2>2
<1>6. CreditedToDepositor'
  BY <1>5 DEF CreditedToDepositor
<1>7. QED
  BY <1>2, <1>3, <1>4, <1>6 DEF DepositInv

LEMMA NextIInv ==
  IInv /\ [Next]_vars => IInv'
<1> SUFFICES ASSUME IInv, [Next]_vars
             PROVE  IInv'
  OBVIOUS
<1>1. ASSUME NEW r \in Request, Serve(r)
      PROVE  IInv'
  BY <1>1, FindUserIInv, NextIdIInv, InsertUserIInv, FailsIInv, FindAddressIInv,
     InsertAddressIInv, CommitIInv, RespondIInv DEF Serve
<1>2. ASSUME NEW r \in Request, NEW u \in User, begin(r, u)
      PROVE  IInv'
  BY <1>2, BeginIInv
<1>3. CASE UNCHANGED vars
  <2> USE <1>3 DEF vars, dbVars, walletVars
  <2>1. Typed' /\ RowsInv' /\ ShownInv' /\ DepositInv'
    BY DEF IInv, Typed, RowsInv, ShownInv, DepositInv, CreditedToDepositor
  <2>2. RequestInv'
    BY DEF IInv, RequestInv, Sound, Inserting, Fresh, Claims
  <2>3. QED
    BY <2>1, <2>2 DEF IInv
<1>4. QED
  BY <1>1, <1>2, <1>3, FailsIInv, DepositIInv, ScanIInv DEF Next

LEMMA Invariant ==
  Spec => []IInv
<1>1. QED
  BY InitIInv, NextIInv, PTL DEF Spec

(* A user is only ever shown one address, and nobody else is shown it.      *)
THEOREM UsersHaveAddresses == Spec => []AddressInvariant
<1>1. IInv => AddressInvariant
  <2> SUFFICES ASSUME IInv
               PROVE  AddressInvariant
    OBVIOUS
  <2>1. TypeOK
    <3>1. \A r \in Request : tx[r].id \in 0 .. MaxId
      BY DEF IInv, Typed, Transactions
    <3>2. QED
      BY <3>1 DEF IInv, Typed, TypeOK, Address, DepositInv
  <2>2. QED
    BY <2>1, AddressesAreOwn DEF IInv, AddressInvariant
<1>2. QED
  BY <1>1, Invariant, PTL

(* A deposit is credited to the user who was shown its address only.        *)
THEOREM DepositorsAreCredited == Spec => []CreditedToDepositor
<1>1. IInv => CreditedToDepositor
  BY DEF IInv, DepositInv
<1>2. QED
  BY <1>1, Invariant, PTL
=============================================================================

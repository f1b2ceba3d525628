--------------------------- MODULE TransferAmounts ---------------------------
(***************************************************************************)
(* The amounts of the rune bridge, both ways.  Runes have few decimals and *)
(* tokens at least 18, so amounts are converted by a divisor; a fee is a   *)
(* percentage of the runes deposited, and a flat and a dynamic amount of   *)
(* the tokens transferred to Bitcoin.  Every division truncates.           *)
(*                                                                         *)
(* Decimals of 80 digits hold the amounts of 128 bits exactly, so that the *)
(* percentage is a fraction here.  What happens between a deposit and its  *)
(* mint, and between a burn and its payment, is the subject of RuneToEvm   *)
(* and RuneTokenToBtc.                                                     *)
(***************************************************************************)
EXTENDS Integers

CONSTANTS
    Divisor,        \* runeAmountDivisor of the token
    FeeNum, FeeDen, \* runes_to_evm_fee_percentage_decimal / 100
    DynamicDivisor, \* DYNAMIC_FEE_DIVISOR
    Policy,         \* transfer policies admins may set
    MaxAmount,      \* bound on the runes of a deposit
    MaxTransfers    \* bound on deposits and on burns

ASSUME AmountsAssumption ==
    /\ Divisor \in Nat \ {0}
    /\ FeeNum \in Nat /\ FeeDen \in Nat \ {0} /\ FeeNum <= FeeDen
    /\ DynamicDivisor \in Nat \ {0}
    /\ Policy \subseteq [max : Nat, min : Nat, flat : Nat, dynamic : Nat]
    /\ MaxAmount \in Nat /\ MaxTransfers \in Nat

VARIABLES
    wallet,     \* runes in the multisig wallet
    fees,       \* of these, the ones kept as fees of deposits
    held,       \* tokens of users and admins
    kept,       \* tokens of the bridge contract
    owed,       \* net rune amounts of the burns that are not paid yet
    policy,     \* evmToBtcTransferPolicies
    deposits, burns,
    last        \* amounts of the last deposit or burn

amountsVars == <<wallet, fees, held, kept, owed, policy, deposits, burns, last>>

NoTransfer == [kind |-> "none", amount |-> 0, net |-> 0, fee |-> 0]

(* Variant: the net amount is rounded up. *)
NetAmountRoundedUp(amount) == (amount * (FeeDen - FeeNum) + FeeDen - 1) \div FeeDen

(* _calculate_rune_to_evm_transfer_amounts: what remains after the          *)
(* percentage, truncated; the fee is the rest.                              *)
NetAmount(amount) == (amount * (FeeDen - FeeNum)) \div FeeDen

getTokenAmount(runeAmount) == runeAmount * Divisor
getRuneAmount(tokenAmount) == tokenAmount \div Divisor

AmountsInit ==
    /\ wallet = 0 /\ fees = 0
    /\ held = 0 /\ kept = 0
    /\ owed = 0
    /\ policy \in Policy
    /\ deposits = 0 /\ burns = 0
    /\ last = NoTransfer

(* Variant: the tokens of the whole amount are minted. *)
TransferFromBtcGross(amount) ==
    /\ deposits < MaxTransfers
    /\ deposits' = deposits + 1
    /\ wallet' = wallet + amount
    /\ fees' = fees + amount - NetAmount(amount)
    /\ held' = held + getTokenAmount(amount)
    /\ last' = [kind |-> "deposit", amount |-> amount, net |-> NetAmount(amount),
                fee |-> amount - NetAmount(amount)]
    /\ UNCHANGED <<kept, owed, policy, burns>>

(* A deposit and acceptTransferFromBtc.  A net amount of zero is signed by  *)
(* nobody: nothing is minted and the runes stay.                            *)
TransferFromBtc(amount) ==
    /\ deposits < MaxTransfers
    /\ deposits' = deposits + 1
    /\ wallet' = wallet + amount
    /\ fees' = fees + amount - NetAmount(amount)
    /\ held' = held + getTokenAmount(NetAmount(amount))
    /\ last' = [kind |-> "deposit", amount |-> amount, net |-> NetAmount(amount),
                fee |-> amount - NetAmount(amount)]
    /\ UNCHANGED <<kept, owed, policy, burns>>

TokenFee(tokenAmount) ==
    policy.flat + (tokenAmount * policy.dynamic) \div DynamicDivisor

(* The tokens of the net runes are burned, the rest stays in the contract. *)
transferToBtc(tokenAmount) ==
    LET tokenFee == TokenFee(tokenAmount)
        netRuneAmount == getRuneAmount(tokenAmount - tokenFee)
        netTokenAmount == getTokenAmount(netRuneAmount)
    IN  /\ burns < MaxTransfers
        /\ tokenAmount > 0 /\ tokenAmount <= held
        /\ tokenAmount >= policy.min /\ tokenAmount <= policy.max
        /\ tokenAmount >= tokenFee
        /\ netRuneAmount > 0
        /\ burns' = burns + 1
        /\ held' = held - tokenAmount
        /\ kept' = kept + (tokenAmount - netTokenAmount)
        /\ owed' = owed + netRuneAmount
        /\ last' = [kind |-> "burn", amount |-> tokenAmount,
                    net |-> netTokenAmount, fee |-> tokenFee]
        /\ UNCHANGED <<wallet, fees, policy, deposits>>

(* The wallet pays one of the burns, which is some part of what it owes. *)
PayOut(amount) ==
    /\ wallet' = wallet - amount
    /\ owed' = owed - amount
    /\ UNCHANGED <<fees, held, kept, policy, deposits, burns, last>>

setEvmToBtcTransferPolicy(p) ==
    /\ p.max >= p.min
    /\ p.dynamic < DynamicDivisor
    /\ p.max = 0 \/ p.flat <= p.max
    /\ p # policy
    /\ policy' = p
    /\ UNCHANGED <<wallet, fees, held, kept, owed, deposits, burns, last>>

(* Admins withdraw what the contract has kept. *)
withdrawTokens ==
    /\ kept > 0
    /\ kept' = 0
    /\ held' = held + kept
    /\ UNCHANGED <<wallet, fees, owed, policy, deposits, burns, last>>

AmountsNext ==
    \/ \E amount \in 1 .. MaxAmount : TransferFromBtc(amount)
    \/ \E tokenAmount \in 1 .. MaxTransfers * MaxAmount * Divisor : transferToBtc(tokenAmount)
    \/ \E amount \in 1 .. owed : PayOut(amount)
    \/ \E p \in Policy : setEvmToBtcTransferPolicy(p)
    \/ withdrawTokens

AmountsSpec == AmountsInit /\ [][AmountsNext]_amountsVars

-----------------------------------------------------------------------------
(* Properties *)

(* Every variable holds a value of its kind; no balance is negative. *)
AmountsTypeOK ==
    /\ {wallet, fees, held, kept, owed, deposits, burns} \subseteq Nat
    /\ policy \in Policy
    /\ last \in [kind : {"none", "deposit", "burn"}, amount : Nat, net : Nat, fee : Nat]

(* The wallet holds exactly the runes that the tokens stand for, the ones   *)
(* still to be paid for burns and the fees of deposits: no sequence of      *)
(* conversions and truncations, with whatever fees, creates or loses any.   *)
Backed == getTokenAmount(wallet) = held + kept + getTokenAmount(owed + fees)

(* Truncation is to the bridge's favour and by less than a unit of the      *)
(* rune: a depositor pays at most a unit above the exact percentage, and    *)
(* of burned tokens less than a unit is kept beside the fee.                *)
RoundingIsFair ==
    /\ last.kind = "deposit" =>
          /\ last.amount = last.net + last.fee
          /\ last.fee * FeeDen >= last.amount * FeeNum
          /\ last.fee * FeeDen < last.amount * FeeNum + FeeDen
    /\ last.kind = "burn" =>
          /\ last.amount - last.net >= last.fee
          /\ last.amount - last.net < last.fee + Divisor
=============================================================================

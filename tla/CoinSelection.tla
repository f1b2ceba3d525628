---------------------------- MODULE CoinSelection ----------------------------
(***************************************************************************)
(* OrdMultisig.create_rune_psbt for one transfer: choosing the outputs of  *)
(* the wallet that fund a rune transfer, first for the runes and then for  *)
(* postage and fee, and the checks the other nodes make on the result      *)
(* before they sign it.  Every turn of the two loops is a step.            *)
(***************************************************************************)
EXTENDS Integers, FiniteSets, Functions, Sequences

CONSTANTS
    Kind,           \* outputs the wallet may hold, as records of type Utxo
    MaxUtxos,       \* bound on their number
    TransferAmount, \* amounts of the rune that may have to be transferred
    Rate,           \* fee rates, in satoshi per virtual byte
    MinConfirmations,   \* min_non_change_rune_utxo_confirmations
    MaxInputs       \* max_num_inputs (200 in the code)

Utxo == [sat : Nat, runes : Nat, otherRunes : BOOLEAN, change : BOOLEAN,
         confirmations : Nat, witnessScript : BOOLEAN, indexed : BOOLEAN]

ASSUME KindAssumption == Kind \subseteq Utxo
ASSUME NumberAssumption ==
    /\ MaxUtxos \in Nat
    /\ TransferAmount \subseteq Nat \ {0}
    /\ Rate \subseteq Nat \ {0}
    /\ MinConfirmations \in Nat
    /\ MaxInputs \in Nat

VARIABLES
    utxos,      \* what list_utxos returned
    amount,     \* the runes to transfer
    rate,       \* fee_rate_sat_per_vbyte
    stage,      \* "runes", "fund", "add_change", then "built" or the exception
    next,       \* the next output a loop looks at
    inputs,     \* positions in utxos, in the order they were added
    outputs     \* the outputs of the PSBT so far: [value, to]

selectionVars == <<utxos, amount, rate, stage, next, inputs, outputs>>

-----------------------------------------------------------------------------
TARGET_POSTAGE_SAT == 10000
DUST_SAT == 1000
Recipient == {"runestone", "wallet", "receiver"}

(* Serialized outputs: a runestone with one edict, a P2WSH output of the    *)
(* wallet, a P2WPKH receiver.                                               *)
OutputBytes(out) ==
    CASE out.to = "runestone" -> 30
      [] out.to = "wallet"    -> 43
      [] out.to = "receiver"  -> 31

(* Variant: the change output is left out of the estimate. *)
estimate_sizeWithoutChange(numInputs, outs, addChangeOut) ==
    LET bytes == [i \in DOMAIN outs |-> OutputBytes(outs[i])]
        base  == 10 + 41 * numInputs + SumFunction(bytes)
    IN  (4 * base + 2 + 252 * numInputs + 3) \div 4

(* estimate_p2wsh_multisig_tx_virtual_size for a 2-of-3 wallet: 41 bytes    *)
(* and a witness of 252 bytes for every input.                              *)
estimate_size(numInputs, outs, addChangeOut) ==
    LET bytes == [i \in DOMAIN outs |-> OutputBytes(outs[i])]
        base  == 10 + 41 * numInputs + SumFunction(bytes) + (IF addChangeOut THEN 43 ELSE 0)
    IN  (4 * base + 2 + 252 * numInputs + 3) \div 4

HasRunes(u) == u.runes > 0 \/ u.otherRunes
RunesAt == [i \in DOMAIN inputs |-> utxos[inputs[i]].runes]
InputSat == SumFunction([i \in DOMAIN inputs |-> utxos[inputs[i]].sat])
InputRunes == SumFunction(RunesAt)
OutputSat == SumFunction([i \in DOMAIN outputs |-> outputs[i].value])
FeeSat == estimate_size(Len(inputs), outputs, TRUE) * rate

(* list_utxos sorts by confirmations, the most first. *)
list_utxos ==
    {s \in UNION {[1 .. n -> Kind] : n \in 0 .. MaxUtxos} :
        \A i, j \in DOMAIN s : i < j => s[i].confirmations >= s[j].confirmations}

SelectionInit ==
    /\ utxos \in list_utxos
    /\ amount \in TransferAmount
    /\ rate \in Rate
    /\ stage = "runes"
    /\ next = 1
    /\ inputs = <<>>
    /\ outputs = << [value |-> 0, to |-> "runestone"],
                    [value |-> TARGET_POSTAGE_SAT, to |-> "wallet"],
                    [value |-> TARGET_POSTAGE_SAT, to |-> "receiver"] >>

Raise(exception) ==
    /\ stage' = exception
    /\ UNCHANGED <<utxos, amount, rate, next, inputs, outputs>>

-----------------------------------------------------------------------------
(* Coin selection for runes *)

UsableForRunes(u) ==
    /\ u.witnessScript
    /\ u.change \/ u.confirmations >= MinConfirmations
    /\ u.runes > 0

(* Variant: an output ord has not indexed is taken for one without runes. *)
UnindexedIgnored(u) == FALSE

(* get_ord_output raises, and its cache does not keep the exception. *)
Unindexed(u) == ~u.indexed

SkipForRunes ==
    /\ stage = "runes"
    /\ next <= Len(utxos)
    /\ utxos[next].witnessScript => ~Unindexed(utxos[next])
    /\ ~UsableForRunes(utxos[next])
    /\ next' = next + 1
    /\ UNCHANGED <<utxos, amount, rate, stage, inputs, outputs>>

(* Variant: an amount that is met exactly does not end the loop. *)
AddForRunesOffByOne ==
    /\ stage = "runes"
    /\ next <= Len(utxos)
    /\ ~Unindexed(utxos[next])
    /\ UsableForRunes(utxos[next])
    /\ inputs' = Append(inputs, next)
    /\ IF InputRunes + utxos[next].runes > amount
       THEN stage' = "fund" /\ next' = 1
       ELSE next' = next + 1 /\ UNCHANGED stage
    /\ UNCHANGED <<utxos, amount, rate, outputs>>

AddForRunes ==
    /\ stage = "runes"
    /\ next <= Len(utxos)
    /\ ~Unindexed(utxos[next])
    /\ UsableForRunes(utxos[next])
    /\ inputs' = Append(inputs, next)
    /\ IF InputRunes + utxos[next].runes >= amount
       THEN stage' = "fund" /\ next' = 1
       ELSE next' = next + 1 /\ UNCHANGED stage
    /\ UNCHANGED <<utxos, amount, rate, outputs>>

InsufficientRuneBalance ==
    /\ stage = "runes"
    /\ next > Len(utxos)
    /\ Raise("InsufficientRuneBalanceError")

UnindexedForRunes ==
    /\ stage = "runes"
    /\ next <= Len(utxos)
    /\ utxos[next].witnessScript
    /\ Unindexed(utxos[next])
    /\ Raise("UnindexedOutput")

-----------------------------------------------------------------------------
(* Coin selection for the fee *)

(* Variant: change below the dust limit is accepted. *)
FundedWithDust == InputSat >= OutputSat + FeeSat

Funded ==
    \/ InputSat = OutputSat + FeeSat
    \/ InputSat >= OutputSat + FeeSat + DUST_SAT

StopFunding ==
    /\ stage = "fund"
    /\ Funded
    /\ stage' = "add_change"
    /\ UNCHANGED <<utxos, amount, rate, next, inputs, outputs>>

UsableForFee(u) == ~HasRunes(u) /\ u.witnessScript

SkipForFee ==
    /\ stage = "fund"
    /\ ~Funded
    /\ next <= Len(utxos)
    /\ ~Unindexed(utxos[next])
    /\ ~UsableForFee(utxos[next])
    /\ next' = next + 1
    /\ UNCHANGED <<utxos, amount, rate, stage, inputs, outputs>>

AddForFee ==
    /\ stage = "fund"
    /\ ~Funded
    /\ next <= Len(utxos)
    /\ ~Unindexed(utxos[next])
    /\ UsableForFee(utxos[next])
    /\ inputs' = Append(inputs, next)
    /\ next' = next + 1
    /\ UNCHANGED <<utxos, amount, rate, stage, outputs>>

(* Variant: the last output is never looked at. *)
InsufficientBTCBalanceEarly ==
    /\ stage = "fund"
    /\ ~Funded
    /\ next >= Len(utxos)
    /\ Raise("InsufficientBTCBalanceError")

InsufficientBTCBalance ==
    /\ stage = "fund"
    /\ ~Funded
    /\ next > Len(utxos)
    /\ Raise("InsufficientBTCBalanceError")

UnindexedForFee ==
    /\ stage = "fund"
    /\ ~Funded
    /\ next <= Len(utxos)
    /\ Unindexed(utxos[next])
    /\ Raise("UnindexedOutput")

AddChange ==
    /\ stage = "add_change"
    /\ Len(inputs) <= MaxInputs
    /\ LET change == InputSat - OutputSat - FeeSat
       IN  outputs' = IF change > 0 THEN Append(outputs, [value |-> change, to |-> "wallet"])
                      ELSE outputs
    /\ stage' = "built"
    /\ UNCHANGED <<utxos, amount, rate, next, inputs>>

TooManyInputs ==
    /\ stage = "add_change"
    /\ Len(inputs) > MaxInputs
    /\ Raise("RuntimeError")

-----------------------------------------------------------------------------
Done == stage \in {"built", "InsufficientRuneBalanceError", "InsufficientBTCBalanceError",
                "UnindexedOutput", "RuntimeError"}

SelectionNext ==
    \/ SkipForRunes \/ AddForRunes \/ InsufficientRuneBalance \/ UnindexedForRunes
    \/ StopFunding \/ SkipForFee \/ AddForFee \/ InsufficientBTCBalance \/ UnindexedForFee
    \/ AddChange \/ TooManyInputs

SelectionSpec == SelectionInit /\ [][SelectionNext]_selectionVars

-----------------------------------------------------------------------------
(* What the others check before they sign: the outputs and the fee, to      *)
(* within a tenth of the size of the transaction as it is.                  *)

ValidOutputs(outs) ==
    /\ Len(outs) \in {3, 4}
    /\ outs[1] = [value |-> 0, to |-> "runestone"]
    /\ outs[2] = [value |-> TARGET_POSTAGE_SAT, to |-> "wallet"]
    /\ outs[3] = [value |-> TARGET_POSTAGE_SAT, to |-> "receiver"]
    /\ Len(outs) = 4 => outs[4].to = "wallet"

ValidFee(actual, calculated) == 10 * actual < 11 * calculated /\ 11 * actual >= 10 * calculated

PeersAccept ==
    /\ ValidOutputs(outputs)
    /\ ValidFee(InputSat - OutputSat, estimate_size(Len(inputs), outputs, FALSE) * rate)

-----------------------------------------------------------------------------
(* Properties *)

(* Every variable holds a value of its kind. *)
SelectionTypeOK ==
    /\ utxos \in list_utxos
    /\ amount \in TransferAmount
    /\ rate \in Rate
    /\ stage \in {"runes", "fund", "add_change"} \/ Done
    /\ next \in 1 .. Len(utxos) + 1
    /\ inputs \in Seq(DOMAIN utxos)
    /\ outputs \in Seq([value : Nat, to : Recipient])

(* The two loops go through the same list, but no output is spent twice in  *)
(* one transaction.                                                         *)
InputsAreDistinct == \A i, j \in DOMAIN inputs : inputs[i] = inputs[j] => i = j

(* The runes of the inputs cover the transfer, and no output was added for  *)
(* runes after there were enough: what RuneTokenToBtc assumes of a          *)
(* selection.                                                               *)
RunesAreCovered ==
    LET forRunes == {i \in DOMAIN inputs : RunesAt[i] > 0}
    IN  stage = "built" =>
            /\ SumFunctionOnSet(RunesAt, forRunes) >= amount
            /\ \E i \in forRunes : SumFunctionOnSet(RunesAt, forRunes \ {i}) < amount

(* Only outputs that ord has indexed are spent, a user's output only with   *)
(* enough confirmations, and no output that holds nothing but other runes.  *)
InputsAreSafe ==
    \A i \in DOMAIN inputs :
        LET u == utxos[inputs[i]]
        IN  /\ u.indexed
            /\ u.witnessScript
            /\ u.runes > 0 /\ ~u.change => u.confirmations >= MinConfirmations
            /\ u.otherRunes => u.runes > 0

(* Variables are typed, and only outputs that may be spent are, once. *)
InputInvariant == SelectionTypeOK /\ InputsAreDistinct /\ InputsAreSafe

(* A transaction pays exactly the fee of its estimated size and leaves no   *)
(* change below the dust limit.                                             *)
BuiltIsFunded ==
    stage = "built" =>
        /\ InputSat = OutputSat + estimate_size(Len(inputs), SubSeq(outputs, 1, 3), TRUE) * rate
        /\ Len(outputs) = 4 => outputs[4].value >= DUST_SAT

(* What a leader builds with change, every node signs.  Without change it   *)
(* does not hold: the leader's estimate counts a change output all the same *)
(* and the fee is then too high for the check.                              *)
PeersAcceptChange == stage = "built" /\ Len(outputs) = 4 => PeersAccept

(* A lack of satoshis is reported only when every output without runes has  *)
(* been added and the transfer is still not funded.                         *)
ShortageIsReal ==
    stage = "InsufficientBTCBalanceError" =>
        /\ ~Funded
        /\ \A k \in DOMAIN utxos :
              UsableForFee(utxos[k]) => \E i \in DOMAIN inputs : inputs[i] = k

=============================================================================

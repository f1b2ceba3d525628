------------------------- MODULE FederatorSignatures -------------------------
(***************************************************************************)
(* The signature rules of NBTEBridgeAccessControl.sol, the contract every  *)
(* bridge contract asks whether a message carries enough federator         *)
(* signatures.  A signature is a record [signer, msg]: recovering it       *)
(* against msg yields its signer, and against any other message yields an  *)
(* address that is no federator.                                           *)
(***************************************************************************)
EXTENDS Integers, FiniteSets, Sequences

(* Variant: half of the federators, rounded down. *)
numRequiredFederatorsHalf(federators) == Cardinality(federators) \div 2

(* numRequiredFederators: a strict majority of the current federators. *)
numRequiredFederators(federators) == Cardinality(federators) \div 2 + 1

(* checkFederatorSignatures: enough signatures, every one of them by a      *)
(* federator over this message, no federator twice.                         *)
checkFederatorSignatures(federators, msg, signatures) ==
    /\ Len(signatures) >= numRequiredFederators(federators)
    /\ \A i \in DOMAIN signatures :
          /\ signatures[i].msg = msg
          /\ signatures[i].signer \in federators
    /\ \A i, j \in DOMAIN signatures :
          i # j => signatures[i].signer # signatures[j].signer
=============================================================================

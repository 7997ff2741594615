----------------------- MODULE SenderVerifiedReceipt -----------------------
(***************************************************************************)
(* scripts/lib/common.ts, waitForSenderVerifiedReceipt: what a mined       *)
(* transaction is allowed to be before a command may report success.       *)
(*                                                                         *)
(* A transaction is a record of its semantic fields; envelope stands for   *)
(* the type, the access list, the blob hashes and the authorization list.  *)
(* Fees, the signature and the hash are left out: a reprice changes them.  *)
(***************************************************************************)
EXTENDS Naturals

SemanticFields == {"to", "value", "input", "envelope"}

differingSemanticFields(replaced, mined) ==
  {f \in SemanticFields : replaced[f] # mined[f]}

(* viem's classification of the transaction mined at the nonce of another  *)
(* compares three of the fields.                                           *)
replacementReason(replaced, mined, sender) ==
  IF differingSemanticFields(replaced, mined) \subseteq {"envelope"} THEN "repriced"
  ELSE IF mined.to = sender /\ mined.value = 0 THEN "cancelled"
  ELSE "replaced"

acceptableReplacement_Mutant(replaced, mined, sender) ==
  replacementReason(replaced, mined, sender) # "cancelled"
acceptableReplacement(replaced, mined, sender) ==
  /\ replacementReason(replaced, mined, sender) = "repriced"
  /\ differingSemanticFields(replaced, mined) = {}

senderVerified_Mutant(receipt, signed, intendedSender) ==
  /\ receipt.from = intendedSender
  /\ receipt.replaced => acceptableReplacement(signed, receipt.mined, receipt.from)
(* The three checks, in the order they are made; the receipt carries the   *)
(* transaction that was mined, and whether it is a replacement.            *)
senderVerified(receipt, signed, intendedSender) ==
  /\ receipt.from = intendedSender
  /\ receipt.replaced => acceptableReplacement(signed, receipt.mined, receipt.from)
  /\ receipt.status = "success"
=============================================================================

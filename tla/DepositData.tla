------------------------------ MODULE DepositData ------------------------------
(***************************************************************************)
(* scripts/lib/common.ts: what a command takes from the deposit-data file  *)
(* and what it requires of it.                                             *)
(*                                                                         *)
(* A file is a sequence of entries.  A root is the tuple it is the hash    *)
(* of, and a signature is the message it signs and whose key signed it, so *)
(* that two are equal only if everything under them is.  A field that is   *)
(* no hex of its length, or no number, is Malformed.                       *)
(***************************************************************************)
EXTENDS Naturals, Sequences

CONSTANTS Malformed, Unset

-----------------------------------------------------------------------------
(* Hashing *)

computeDepositDataRoot(pubkey, credentials, amount, signature) ==
  [root |-> <<pubkey, credentials, amount, signature>>]

(* The message, under the deposit domain of a fork version. *)
computeDepositSigningRoot(pubkey, credentials, amount, forkVersion) ==
  [root |-> <<pubkey, credentials, amount>>, domain |-> forkVersion]

SignedBy(pubkey, message) == [key |-> pubkey, message |-> message]

verifyDepositSignature(pubkey, credentials, amount, signature, forkVersion) ==
  signature = SignedBy(pubkey, computeDepositSigningRoot(pubkey, credentials, amount, forkVersion))

-----------------------------------------------------------------------------
(* Selection *)

Position(file, amount) ==
  CHOOSE i \in DOMAIN file :
    file[i].amount = amount /\ \A j \in 1 .. i - 1 : file[j].amount # amount

(* The search parses the amounts it passes, and no others. *)
Found(file, amount) ==
  \E i \in DOMAIN file :
    /\ file[i].amount = amount
    /\ \A j \in 1 .. i : file[j].amount # Malformed

(* readPredepositAndTopUpDepositData *)
BothFound(file, predepositAmount, topUpAmount) ==
  Found(file, predepositAmount) /\ Found(file, topUpAmount)

EntryOf(file, amount) == file[Position(file, amount)]

-----------------------------------------------------------------------------
(* Validation *)

HexFields == {"pubkey", "credentials", "signature", "root", "forkVersion"}

(* A declaration that is unset requires nothing. *)
Agrees(declared, value) == declared \in {Unset, value}

(* validateDepositData *)
ValidDepositData(entry, credentials, forkVersion, pubkey, amount, networkName) ==
  /\ \A field \in HexFields : entry[field] # Malformed
  /\ entry.amount = amount
  /\ entry.credentials = credentials
  /\ entry.pubkey = pubkey
  /\ entry.root = computeDepositDataRoot(pubkey, credentials, amount, entry.signature)
  /\ entry.forkVersion = forkVersion
  /\ verifyDepositSignature(pubkey, credentials, amount, entry.signature, forkVersion)
  /\ Agrees(networkName, entry.networkName)

-----------------------------------------------------------------------------
(* The beacon node the data is checked with *)

(* assertBeaconMatchesExecutionChain *)
SameChain(node, chain) ==
  node.chainId = chain.chainId /\ node.depositContract = chain.depositContract

(* requiredGenesisForkVersion: the pin of a chain this repository knows,   *)
(* or a declaration, which may repeat a pin and not overrule it.           *)
DeclarationStands(declared, pin) ==
  declared # Malformed /\ (pin # Unset => Agrees(declared, pin))

RequiredForkVersion(declared, pin) == IF declared = Unset THEN pin ELSE declared

(* readBeaconGenesisForkVersion *)
ForkVersionAccepted(node, declared, pin) ==
  /\ DeclarationStands(declared, pin)
  /\ Agrees(RequiredForkVersion(declared, pin), node.forkVersion)
=============================================================================

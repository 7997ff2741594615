---------------------------- MODULE SignerSelection ----------------------------
(***************************************************************************)
(* hardhat.config.ts, and resolveSigningWallet and assertActiveSigner of   *)
(* scripts/lib/common.ts: which chain a command is connected to, and which *)
(* account it signs with.                                                  *)
(*                                                                         *)
(* A connection is the network it is made on, the endpoint's chain, the    *)
(* accounts the node itself lists, the private key's account, and the      *)
(* declarations EXPECTED_CHAIN_ID, LEDGER_ADDRESS and EXPECTED_SIGNER of   *)
(* its environment.                                                        *)
(***************************************************************************)
EXTENDS Naturals, Sequences

CONSTANTS
  NoSigner, NoChain,
  MAX_SAFE_INTEGER  \* Number.MAX_SAFE_INTEGER

Networks == {"rpc", "read", "ledger"}

(* Number(): beyond the safe integers the odd ones are no numbers. *)
AsNumber(declared) ==
  IF declared <= MAX_SAFE_INTEGER THEN declared ELSE declared - (declared % 2)

ExpectedChainIdParses_Mutant(declared) == declared = NoChain \/ declared > 0
(* parseExpectedChainId *)
ExpectedChainIdParses(declared) ==
  declared = NoChain \/ (declared > 0 /\ declared <= MAX_SAFE_INTEGER)

(* The ledger network cannot be configured without LEDGER_ADDRESS, and no  *)
(* network with an EXPECTED_CHAIN_ID that is no number.                    *)
CanConfigure(c) ==
  /\ c.network = "ledger" => c.ledgerAddress # NoSigner
  /\ ExpectedChainIdParses(c.expectedChainId)

(* Hardhat's ChainIdValidatorHandler, installed by a pinned chainId. *)
PinnedChainAnswers(c) ==
  c.expectedChainId # NoChain => AsNumber(c.expectedChainId) = c.chainId

(* ledgerAccounts of the network's configuration *)
ledgerAccounts(c) == IF c.network = "ledger" THEN <<c.ledgerAddress>> ELSE <<>>

(* eth_accounts: the private key's account, or the node's own and after    *)
(* them the device's.                                                      *)
ReportedAccounts(c) ==
  IF c.network = "rpc" THEN <<c.privateKey>> ELSE c.nodeAccounts \o ledgerAccounts(c)

Reported(c) == {ReportedAccounts(c)[i] : i \in DOMAIN ReportedAccounts(c)}

resolveSigningWallet_Mutant(c) ==
  IF ReportedAccounts(c) = <<>> THEN NoSigner ELSE ReportedAccounts(c)[1]
(* By address on the ledger network, the first elsewhere. *)
resolveSigningWallet(c) ==
  IF ledgerAccounts(c) # <<>>
  THEN IF c.ledgerAddress \in Reported(c) THEN c.ledgerAddress ELSE NoSigner
  ELSE IF ReportedAccounts(c) = <<>> THEN NoSigner ELSE ReportedAccounts(c)[1]

(* assertActiveSigner *)
ActiveSignerAccepted(c, active) ==
  /\ active # NoSigner
  /\ c.expectedSigner \in {NoSigner, active}
  /\ ledgerAccounts(c) # <<>> => active = c.ledgerAddress
=============================================================================

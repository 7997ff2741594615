-------------------------- MODULE DeploymentIntegrity --------------------------
(***************************************************************************)
(* scripts/lib/common.ts, assertDeploymentIntegrity and what it calls: the *)
(* checks of a deployment record that every command makes before it acts.  *)
(*                                                                         *)
(* A record names the chain, the pool, what the pool's immutables were at  *)
(* deployment, the code of the system contracts among them, and perhaps a  *)
(* forwarder.  A contract is its code and what its getters report; only    *)
(* the code this repository builds must report the truth.  env is what the *)
(* operator declares, and the artifacts of the local build.                *)
(***************************************************************************)
EXTENDS RuntimeCode

CONSTANTS
  None,       \* no address, no declaration
  chainId,    \* the connected chain
  SystemCode, \* the code at each address of a system contract
  canonical   \* CANONICAL_SYSTEM_CONTRACTS of the chain: address and code

SystemContracts == {"depositContract", "withdrawalRequestPredeploy"}

(* 0x01, eleven zero bytes, the pool's own address. *)
deriveWithdrawalCredentials(pool) == [paidTo |-> pool]

MatchesDeclaration_Mutant(declared, address) == TRUE
(* assertExpectedPool, assertFreshDeploymentMatchesExpectedPool,           *)
(* assertExpectedForwarder                                                 *)
MatchesDeclaration(declared, address) == declared \in {None, address}

(* assertDeploymentMatchesPool: the credentials are derived, not believed. *)
MatchesPool(record, contract) ==
  /\ contract.reports.withdrawalCredentials = deriveWithdrawalCredentials(record.pool)
  /\ record.config = contract.reports

CodeOf(config) == [f \in SystemContracts |-> SystemCode[config[f]]]

(* A contract at an address that pays the address, through system          *)
(* contracts that exist.                                                   *)
ReportsTruth(contract, pool) ==
  /\ contract.reports.withdrawalCredentials = deriveWithdrawalCredentials(pool)
  /\ \A f \in SystemContracts : HasCode(CodeOf(contract.reports)[f])

(* assertDeploymentSystemCodeHashes *)
SystemCodeMatches(record, config) ==
  /\ \A f \in SystemContracts : HasCode(CodeOf(config)[f])
  /\ record.systemCode = CodeOf(config)

(* assertDeploymentCanonicity *)
Canonical(config, systemCode) ==
  canonical # None =>
    \A f \in SystemContracts :
      config[f] = canonical[f].address /\ systemCode[f] = canonical[f].code

PoolChecksOut(record, contract, env) ==
  /\ MatchesDeclaration(env.expectedPool, record.pool)
  /\ record.chainId = chainId
  /\ HasCode(contract.code)
  /\ MatchesPool(record, contract)
  /\ RuntimeCodeMatches(contract.code, env.poolArtifact)
  /\ SystemCodeMatches(record, contract.reports)
  /\ Canonical(contract.reports, CodeOf(contract.reports))

ExpectedForwarderRecorded_Mutant(record, env) ==
  record.forwarder # None => MatchesDeclaration(env.expectedForwarder, record.forwarder)
(* assertExpectedForwarderRecorded: a record that names none fails it. *)
ExpectedForwarderRecorded(record, env) ==
  MatchesDeclaration(env.expectedForwarder, record.forwarder)

(* assertForwarderAuthenticity *)
AuthenticForwarder(forwarder, contract, pool, env) ==
  /\ MatchesDeclaration(env.expectedForwarder, forwarder)
  /\ HasCode(contract.code)
  /\ contract.reports.pool = pool
  /\ RuntimeCodeMatches(contract.code, env.forwarderArtifact)

ForwarderMayRefuse_Mutant(scope) == scope # "report-forwarder"
ForwarderMayRefuse(scope) == scope = "authenticate-forwarder"

(* assertDeploymentIntegrity, over the pools and forwarders of the chain. *)
Integrity(record, pools, forwarders, env, scope) ==
  /\ PoolChecksOut(record, pools[record.pool], env)
  /\ scope # "report-forwarder" => ExpectedForwarderRecorded(record, env)
  /\ ForwarderMayRefuse(scope) /\ record.forwarder # None =>
       AuthenticForwarder(record.forwarder, forwarders[record.forwarder], record.pool, env)

(* reportForwarderWithoutRefusing: what it does not warn about. *)
ForwarderChecksOut(record, forwarders, env) ==
  /\ ExpectedForwarderRecorded(record, env)
  /\ record.forwarder # None =>
       AuthenticForwarder(record.forwarder, forwarders[record.forwarder], record.pool, env)
=============================================================================

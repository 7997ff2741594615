------------------------- MODULE MCDeploymentRecord -------------------------
(* A small instance of DeploymentRecord: a pool with a forwarder, a pool   *)
(* and a forwarder of other code that answer as if they were genuine, and  *)
(* addresses where nothing is deployed yet.                                *)
EXTENDS DeploymentRecord, TLC

CONSTANTS p0, foreign, fresh, f0, impostor, f1, fresh2, f2, deposits, otherDeposits, predeploy, nowhere

AllPools == {p0, foreign, fresh, fresh2}
AllForwarders == {f0, impostor, f1, f2}

Range0(start, length) == [start |-> start, length |-> length]
Build(code, ranges) == [deployedBytecode |-> code, immutableReferences |-> ranges]

PoolBuild == Build(<<1, 0, 2, 0, 3>>, {Range0(1, 1), Range0(3, 1)})
ForwarderBuild == Build(<<4, 0, 5>>, {Range0(1, 1)})
OtherProfile == Build(<<1, 2, 0, 3>>, {Range0(2, 1)})
NoArtifact == Build(<<>>, {})
MasksEverything == [PoolBuild EXCEPT !.immutableReferences = {Range0(0, 5)}]
MasksTwice == [PoolBuild EXCEPT !.immutableReferences = {Range0(1, 1), Range0(1, 2)}]
Foreign == {<<1, 8, 2, 8, 9>>}

SystemCodes ==
  (deposits :> <<6>>) @@ (otherDeposits :> <<7>>) @@ (predeploy :> <<8>>) @@ (nowhere :> <<>>)
Pin ==
  [depositContract |-> [address |-> deposits, code |-> <<6>>],
   withdrawalRequestPredeploy |-> [address |-> predeploy, code |-> <<8>>]]

Config(depositContract, operator) ==
  [depositContract |-> depositContract, withdrawalRequestPredeploy |-> predeploy,
   operator |-> operator]

Base ==
  [expectedPool |-> None, expectedForwarder |-> None, config |-> Config(deposits, 8),
   poolArtifact |-> PoolBuild, forwarderArtifact |-> ForwarderBuild]

Declared == [Base EXCEPT !.expectedPool = p0]

Given ==
  {Base}
  \cup {[Base EXCEPT !.expectedPool = p, !.expectedForwarder = f] : p \in {None, p0}, f \in {None, f0}}
  \cup {[Base EXCEPT !.poolArtifact = a] : a \in {OtherProfile, MasksEverything, MasksTwice}}
  \cup {[Base EXCEPT !.forwarderArtifact = NoArtifact]}
  \cup {[Base EXCEPT !.config = Config(d, 8)] : d \in {otherDeposits, nowhere}}

Reported(pool, depositContract, credentials) ==
  [depositContract |-> depositContract, withdrawalRequestPredeploy |-> predeploy,
   operator |-> 8, withdrawalCredentials |-> deriveWithdrawalCredentials(credentials)]

PoolsAtFirst ==
  (p0 :> [code |-> Deployed(PoolBuild, 8), reports |-> Reported(p0, deposits, p0)])
  @@ (foreign :> [code |-> <<1, 8, 2, 8, 9>>, reports |-> Reported(foreign, deposits, foreign)])
  @@ [p \in {fresh, fresh2} |-> Absent]

ForwardersAtFirst ==
  (f0 :> [code |-> Deployed(ForwarderBuild, 1), reports |-> [pool |-> p0]])
  @@ (impostor :> [code |-> <<4, 1, 6>>, reports |-> [pool |-> p0]])
  @@ [f \in {f1, f2} |-> Absent]

RecordOf(pool, forwarder) ==
  [chainId |-> 1, pool |-> pool, forwarder |-> forwarder,
   config |-> Reported(pool, deposits, pool), systemCode |-> CodeOf(Config(deposits, 8))]

Strays ==
  {RecordOf(p0, None), RecordOf(p0, f0), RecordOf(p0, impostor), RecordOf(foreign, None),
   RecordOf(foreign, f0), RecordOf(fresh, None), RecordOf(fresh2, None),
   [RecordOf(p0, f0) EXCEPT !.chainId = 2],
   [RecordOf(p0, f0) EXCEPT !.config.operator = 9],
   [RecordOf(p0, f0) EXCEPT !.systemCode.depositContract = <<7>>]}

(* Bound: a run with anything but the plain environment, or that only      *)
(* reads, has the file to itself.                                          *)
Plain(r) == command[r] \in {None, "deploy", "deployForwarder"} /\ env[r] \in {None, Base, Declared}
OnlyPlainRunsOverlap ==
  \A r \in Runs : ~ Plain(r) => \A q \in Runs \ {r} : step[q] = "start"

(* Bound: when a third run starts, nobody but the runs supplies records    *)
(* other than the first pool's.                                            *)
Usual == {NoRecord, RecordOf(p0, None), RecordOf(p0, f0)}
FewStrayRecords ==
  (\A r \in Runs : step[r] # "start") =>
    \/ ~ file.readable \/ file.writtenBy # None
    \/ file.record \in Usual /\ \A r \in Runs : step[r] = "read" => record[r] \in Usual

Alike == Permutations(Runs) \cup Permutations({fresh, fresh2}) \cup Permutations({f1, f2})
=============================================================================

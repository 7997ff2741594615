-------------------------- MODULE DeploymentRecord --------------------------
(***************************************************************************)
(* The file every command starts from, the two commands that write it,     *)
(* scripts/deploy.ts and scripts/deploy-forwarder.ts, and the others,      *)
(* which read it, check it and act on what it names.  deploy-forwarder     *)
(* reads the record, waits for a transaction, and writes back what it had  *)
(* read with one more field; other runs may have written it in between.    *)
(*                                                                         *)
(* The file is emptied and then written, with no lock and no renaming, and *)
(* a run may end between any two steps.                                    *)
(***************************************************************************)
EXTENDS DeploymentIntegrity

CONSTANTS
  Runs,
  Pools, Forwarders,   \* addresses of contracts, deployed or not
  initialPools, initialForwarders, \* what is there at first
  StrayRecords,        \* what else DEPLOYMENT_FILE may hold or name
  Environments,        \* what runs may declare, configure and have built
  poolBuild, forwarderBuild, \* what this checkout's sources compile to
  ForeignCode          \* other code

RecordFields == {"chainId", "pool", "forwarder", "config", "systemCode"}

ASSUME RecordsAssumption ==
  /\ None \notin Runs \cup Pools \cup Forwarders
  /\ \A rec \in StrayRecords :
       /\ DOMAIN rec = RecordFields
       /\ rec.pool \in Pools /\ rec.forwarder \in Forwarders \cup {None}

ASSUME BuildsAssumption ==
  /\ \A build \in {poolBuild, forwarderBuild} :
       build.deployedBytecode \in Seq(Nat) \ {NoCode}
  /\ PlausibleRanges(poolBuild.deployedBytecode, poolBuild.immutableReferences)

(* Code of the sources reports the truth, other code what it likes.  No    *)
(* system contract of a genuine pool lacks code, because the constructor   *)
(* refuses one that does.                                                  *)
ASSUME ContractsAssumption ==
  /\ DOMAIN initialPools = Pools /\ DOMAIN initialForwarders = Forwarders
  /\ \A p \in Pools :
       /\ initialPools[p].code \in Seq(Nat)
       /\ IsBuildOf(poolBuild, initialPools[p].code) => ReportsTruth(initialPools[p], p)
  /\ \A code \in ForeignCode :
       code \in Seq(Nat) /\ ~ IsBuildOf(poolBuild, code)

(* An artifact is what solc wrote for the sources, or it is missing, or    *)
(* was changed so that its ranges are implausible, or it is of a length no *)
(* contract has, as another profile's.                                     *)
LocalArtifact(artifact, build, codes) ==
  \/ artifact = build
  \/ ~ HasCode(artifact.deployedBytecode)
  \/ ~ PlausibleRanges(artifact.deployedBytecode, artifact.immutableReferences)
  \/ \A code \in codes \cup ForeignCode \cup {build.deployedBytecode} :
       DOMAIN code # DOMAIN artifact.deployedBytecode

ASSUME EnvironmentsAssumption ==
  \A e \in Environments :
    /\ DOMAIN e.config = SystemContracts \cup {"operator"}
    /\ e.config.operator \in Nat
    /\ LocalArtifact(e.poolArtifact, poolBuild, {initialPools[p].code : p \in Pools})
    /\ LocalArtifact(e.forwarderArtifact, forwarderBuild, {initialForwarders[f].code : f \in Forwarders})

VARIABLES
  pools, forwarders, \* the contract at each address
  file,              \* the deployment record as it is on disk
  command, env,      \* of each run: what it is and what it was given
  step, record       \* how far it is, and the record it has in hand

chainVars == <<pools, forwarders>>
inputVars == <<command, env>>
vars == <<chainVars, file, inputVars, step, record>>

Contents(r, rec) == [readable |-> TRUE, record |-> rec, writtenBy |-> r]
Unreadable == [readable |-> FALSE]
NoRecord == [pool |-> None, forwarder |-> None]
Absent == [code |-> NoCode]

scopeOf == [deployForwarder |-> "authenticate-forwarder", sweep |-> "authenticate-forwarder",
            pool |-> "forwarder-untouched", status |-> "report-forwarder"]

Commands == {"deploy"} \cup DOMAIN scopeOf

Init ==
  /\ pools = initialPools /\ forwarders = initialForwarders
  /\ file \in {Contents(None, rec) : rec \in StrayRecords}
  /\ command = [r \in Runs |-> None]
  /\ env = [r \in Runs |-> None]
  /\ step = [r \in Runs |-> "start"]
  /\ record = [r \in Runs |-> NoRecord]

GoTo(r, next) == step' = [step EXCEPT ![r] = next]

-----------------------------------------------------------------------------
(* Before anything is sent *)

(* deploy reads no record, but requires its configuration to be canonical. *)
DeployStart(r, e) ==
  /\ GoTo(r, IF /\ \A f \in SystemContracts : HasCode(CodeOf(e.config)[f])
                /\ Canonical(e.config, CodeOf(e.config))
             THEN "deploying" ELSE "refused")
  /\ UNCHANGED record

(* readDeployment, and before it assertFreshForwarderMatchesExpectedForwarder: *)
(* a forwarder that was declared cannot be the one to be deployed.         *)
ReadStart(r, c, e) ==
  IF \/ ~ file.readable
     \/ c = "deployForwarder" /\ e.expectedForwarder # None
     \/ c = "sweep" /\ file.record.forwarder = None
  THEN GoTo(r, "refused") /\ UNCHANGED record
  ELSE GoTo(r, "read") /\ record' = [record EXCEPT ![r] = file.record]

Start(r) ==
  /\ step[r] = "start"
  /\ \E c \in Commands, e \in Environments :
       /\ command' = [command EXCEPT ![r] = c]
       /\ env' = [env EXCEPT ![r] = e]
       /\ IF c = "deploy" THEN DeployStart(r, e) ELSE ReadStart(r, c, e)
  /\ UNCHANGED <<chainVars, file>>

(* The commands of the pool, and sweep, go on to sign what they came for;  *)
(* status to print.                                                        *)
CheckIntegrity(r) ==
  /\ step[r] = "read"
  /\ GoTo(r, IF ~ Integrity(record[r], pools, forwarders, env[r], scopeOf[command[r]]) THEN "refused"
             ELSE IF command[r] = "deployForwarder" THEN "deploying"
             ELSE IF command[r] = "status" THEN "printed" ELSE "acting")
  /\ UNCHANGED <<chainVars, file, inputVars, record>>

ReportForwarder(r) ==
  /\ step[r] = "printed"
  /\ GoTo(r, IF ForwarderChecksOut(record[r], forwarders, env[r]) THEN "reported" ELSE "warned")
  /\ UNCHANGED <<chainVars, file, inputVars, record>>

-----------------------------------------------------------------------------
(* The transaction and what it created *)

ConfigOf(e, pool) ==
  [f \in DOMAIN e.config \cup {"withdrawalCredentials"} |->
     IF f = "withdrawalCredentials" THEN deriveWithdrawalCredentials(pool) ELSE e.config[f]]

(* What landed may be something else, which reports what it likes. *)
Landed(e, p) ==
  {[code |-> Deployed(poolBuild, e.config.operator), reports |-> ConfigOf(e, p)]}
  \cup [code : ForeignCode, reports : {ConfigOf(e, q) : q \in Pools}]

DeployPool(r) ==
  /\ step[r] = "deploying" /\ command[r] = "deploy"
  /\ \E p \in {q \in Pools : pools[q] = Absent} : \E contract \in Landed(env[r], p) :
       /\ pools' = [pools EXCEPT ![p] = contract]
       /\ record' = [record EXCEPT ![r] =
            [chainId |-> chainId, pool |-> p, forwarder |-> None,
             config |-> [ConfigOf(env[r], p) EXCEPT
                           !.withdrawalCredentials = contract.reports.withdrawalCredentials],
             systemCode |-> CodeOf(env[r].config)]]
  /\ GoTo(r, "deployed")
  /\ UNCHANGED <<forwarders, file, inputVars>>

(* What the record in hand becomes: the rest of it is kept. *)
Recorded(r, forwarder) == [record[r] EXCEPT !.forwarder = forwarder]

DeployForwarder(r) ==
  /\ step[r] = "deploying" /\ command[r] = "deployForwarder"
  /\ \E f \in {g \in Forwarders : forwarders[g] = Absent},
        code \in {Deployed(forwarderBuild, 1)} \cup ForeignCode :
       /\ forwarders' = [forwarders EXCEPT ![f] =
            [code |-> code, reports |-> [pool |-> record[r].pool]]]
       /\ record' = [record EXCEPT ![r] = Recorded(r, f)]
  /\ GoTo(r, "deployed")
  /\ UNCHANGED <<pools, file, inputVars>>

DeployedChecksOut_Mutant(r) ==
  IF command[r] = "deploy" THEN MatchesDeclaration(env[r].expectedPool, record[r].pool)
  ELSE AuthenticForwarder(record[r].forwarder, forwarders[record[r].forwarder], record[r].pool, env[r])
(* deploy checks all but the chain and canonicity again, which it has from *)
(* the chain; deploy-forwarder the forwarder and its binding to the pool.  *)
DeployedChecksOut(r) ==
  IF command[r] = "deploy"
  THEN LET contract == pools[record[r].pool]
       IN /\ MatchesDeclaration(env[r].expectedPool, record[r].pool)
          /\ MatchesPool(record[r], contract)
          /\ SystemCodeMatches(record[r], contract.reports)
          /\ RuntimeCodeMatches(contract.code, env[r].poolArtifact)
  ELSE AuthenticForwarder(record[r].forwarder, forwarders[record[r].forwarder], record[r].pool, env[r])

CheckDeployed(r) ==
  /\ step[r] = "deployed"
  /\ GoTo(r, IF DeployedChecksOut(r) THEN "checked" ELSE "unrecorded")
  /\ UNCHANGED <<chainVars, file, inputVars, record>>

-----------------------------------------------------------------------------
(* writeDeployment *)

Truncate(r) ==
  /\ step[r] = "checked"
  /\ file' = Unreadable
  /\ GoTo(r, "writing")
  /\ UNCHANGED <<chainVars, inputVars, record>>

(* Over the text another run wrote after both had emptied the file, a      *)
(* shorter record leaves the end of the longer one behind it.              *)
WriteOut(r) ==
  /\ step[r] = "writing"
  /\ \/ file' = Contents(r, record[r])
     \/ file.readable /\ file' = Unreadable
  /\ GoTo(r, "written")
  /\ UNCHANGED <<chainVars, inputVars, record>>

-----------------------------------------------------------------------------
(* The system *)

Ended == {"written", "refused", "unrecorded", "acting", "reported", "warned", "crashed"}

(* Interrupted, killed, out of patience, or an endpoint that fails: at any *)
(* point before the record is written.                                     *)
Crash(r) ==
  /\ step[r] \notin {"start"} \cup Ended
  /\ GoTo(r, "crashed")
  /\ UNCHANGED <<chainVars, file, inputVars, record>>

(* DEPLOYMENT_FILE points to another record, or somebody put one there. *)
AnotherRecord ==
  /\ file' \in {Contents(None, rec) : rec \in StrayRecords} \cup {Unreadable}
  /\ UNCHANGED <<chainVars, inputVars, step, record>>

RunStep(r) ==
  \/ Start(r)
  \/ CheckIntegrity(r)
  \/ ReportForwarder(r)
  \/ DeployPool(r)
  \/ DeployForwarder(r)
  \/ CheckDeployed(r)
  \/ Truncate(r)
  \/ WriteOut(r)
  \/ Crash(r)

Next == (\E r \in Runs : RunStep(r)) \/ AnotherRecord

Spec == Init /\ [][Next]_vars

-----------------------------------------------------------------------------
(* Properties *)

GenuinePool(rec) ==
  /\ rec.chainId = chainId
  /\ IsBuildOf(poolBuild, pools[rec.pool].code)
  /\ rec.config = pools[rec.pool].reports
  /\ rec.systemCode = CodeOf(rec.config)
  /\ Canonical(rec.config, rec.systemCode)

GenuineForwarder(rec) ==
  /\ IsBuildOf(forwarderBuild, forwarders[rec.forwarder].code)
  /\ forwarders[rec.forwarder].reports.pool = rec.pool

WrittenByRun == file.readable /\ file.writtenBy # None

(* Whatever runs overlap, end half-way or start from a record somebody     *)
(* else supplied: a record the commands wrote, if it can be read at all,   *)
(* describes a pool that runs the sources' code with its own credentials   *)
(* and canonical system contracts, and a forwarder that pays that pool.    *)
WrittenRecordsAreCoherent ==
  WrittenByRun =>
    /\ GenuinePool(file.record)
    /\ file.record.config.withdrawalCredentials = deriveWithdrawalCredentials(file.record.pool)
    /\ file.record.forwarder # None => GenuineForwarder(file.record)

(* A run that declares EXPECTED_POOL never leaves a record of another      *)
(* pool: neither by deploying one, nor by writing back a record that was   *)
(* replaced before it was read.                                            *)
DeclaredPoolStays ==
  WrittenByRun => env[file.writtenBy].expectedPool \in {None, file.record.pool}

(* No record, however well it agrees with the contract it names, and no    *)
(* artifact of the local build that is not what solc wrote, makes a run    *)
(* act on a pool, or sweep from a forwarder, that is not the sources'; and *)
(* status vouches for no other forwarder.                                  *)
ActsOnCheckedContracts ==
  \A r \in Runs :
    /\ step[r] \in {"acting", "printed", "reported", "warned"} => GenuinePool(record[r])
    /\ (step[r] = "acting" /\ command[r] = "sweep") \/ (step[r] = "reported" /\ record[r].forwarder # None)
         => GenuineForwarder(record[r])

(* A declared forwarder is the one a run is about, or the run refuses or   *)
(* warns: also where the record names none, and where the command would    *)
(* replace it.                                                             *)
DeclaredForwarderIsNotIgnored ==
  \A r \in Runs :
    step[r] \in {"acting", "reported", "written"} /\ command[r] # "deploy" =>
      env[r].expectedForwarder \in {None, record[r].forwarder}

(* The commands that move or return money do not depend on the optional    *)
(* forwarder, and status prints whatever became of it: with a genuine pool *)
(* in the record and the sources' build at hand, only a declaration that   *)
(* the record contradicts makes them refuse.                               *)
EscapeHatchIsOpen ==
  [][\A r \in Runs :
       /\ step[r] = "read" /\ step'[r] = "refused" /\ command[r] \in {"pool", "status"}
       /\ GenuinePool(record[r]) /\ env[r].poolArtifact = poolBuild
       => \/ env[r].expectedPool \notin {None, record[r].pool}
          \/ command[r] = "pool" /\ env[r].expectedForwarder \notin {None, record[r].forwarder}]_vars
=============================================================================

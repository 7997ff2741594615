----------------------- MODULE DeploymentRecordProofs -----------------------
(***************************************************************************)
(* Whatever runs overlap and wherever they end: the record on disk and the *)
(* contracts a run acts on are the sources'.  Proved for any number of     *)
(* runs, any bytecode, any environments and any records left by others.    *)
(***************************************************************************)
EXTENDS DeploymentRecord, SequenceTheorems, TLAPS

-----------------------------------------------------------------------------
(* The inductive invariant *)

RecordShape(rec) ==
  /\ DOMAIN rec = RecordFields
  /\ rec.pool \in Pools
  /\ rec.forwarder \in Forwarders \cup {None}

PaysItself(rec) == rec.config.withdrawalCredentials = deriveWithdrawalCredentials(rec.pool)

Coherent(rec) ==
  /\ GenuinePool(rec)
  /\ PaysItself(rec)
  /\ rec.forwarder # None => GenuineForwarder(rec)

PoolDeclared(r, rec) == env[r].expectedPool \in {None, rec.pool}

Steps == {"start", "read", "deploying", "deployed", "checked", "writing", "printed"} \cup Ended
AfterDeployment == {"deployed", "checked", "writing", "written", "unrecorded"}

Shapes ==
  /\ DOMAIN pools = Pools /\ DOMAIN forwarders = Forwarders
  /\ command \in [Runs -> Commands \cup {None}]
  /\ DOMAIN env = Runs
  /\ step \in [Runs -> Steps]
  /\ DOMAIN record = Runs

(* All code there is was there at first, is foreign, or was compiled from  *)
(* the sources; and code of the sources reports the truth.                 *)
KnownCode(build, initial) ==
  initial \cup ForeignCode \cup {Deployed(build, immutable) : immutable \in Nat}

InitialPoolCode == {initialPools[p].code : p \in Pools}
InitialForwarderCode == {initialForwarders[f].code : f \in Forwarders}

ChainIsKnown ==
  /\ \A p \in Pools :
       /\ pools[p].code \in KnownCode(poolBuild, InitialPoolCode)
       /\ IsBuildOf(poolBuild, pools[p].code) => ReportsTruth(pools[p], p)
  /\ \A f \in Forwarders :
       forwarders[f].code \in KnownCode(forwarderBuild, InitialForwarderCode)

(* What a run is, at each of its steps. *)
RunIsPlausible(r) ==
  /\ step[r] # "start" => command[r] \in Commands /\ env[r] \in Environments
  /\ step[r] \in {"read", "acting", "printed", "reported", "warned"} =>
       command[r] # "deploy" /\ RecordShape(record[r])
  /\ step[r] = "acting" => command[r] \in {"pool", "sweep"}
  /\ step[r] \in {"printed", "reported", "warned"} => command[r] = "status"
  /\ step[r] \in {"deploying"} \cup AfterDeployment =>
       /\ command[r] \in {"deploy", "deployForwarder"}
       /\ command[r] = "deployForwarder" => RecordShape(record[r])
  /\ step[r] \in AfterDeployment => RecordShape(record[r])
  /\ command[r] = "deployForwarder" /\ step[r] \in {"read", "deploying"} \cup AfterDeployment =>
       env[r].expectedForwarder = None
  /\ command[r] = "sweep" /\ step[r] \in {"read", "acting"} => record[r].forwarder # None

(* What it has established by then, and still holds. *)
RunKnows(r) ==
  /\ step[r] \in {"acting", "printed", "reported", "warned"} => GenuinePool(record[r])
  /\ step[r] = "acting" /\ command[r] = "sweep" => GenuineForwarder(record[r])
  /\ step[r] = "reported" /\ record[r].forwarder # None => GenuineForwarder(record[r])
  /\ step[r] \in {"acting", "reported"} => env[r].expectedForwarder \in {None, record[r].forwarder}
  /\ step[r] = "deploying" /\ command[r] = "deploy" =>
       /\ \A f \in SystemContracts : HasCode(CodeOf(env[r].config)[f])
       /\ Canonical(env[r].config, CodeOf(env[r].config))
  /\ step[r] = "deployed" /\ command[r] = "deploy" =>
       /\ record[r].chainId = chainId /\ record[r].forwarder = None
       /\ Canonical(record[r].config, record[r].systemCode)
  /\ step[r] \in {"deploying", "deployed"} /\ command[r] = "deployForwarder" =>
       GenuinePool(record[r]) /\ PaysItself(record[r]) /\ PoolDeclared(r, record[r])
  /\ step[r] \in {"checked", "writing", "written"} =>
       Coherent(record[r]) /\ PoolDeclared(r, record[r])

FileIsSound ==
  file.readable =>
    /\ RecordShape(file.record)
    /\ file.writtenBy \in Runs \cup {None}
    /\ file.writtenBy # None =>
         /\ step[file.writtenBy] = "written"
         /\ Coherent(file.record)
         /\ PoolDeclared(file.writtenBy, file.record)

IInv ==
  /\ Shapes
  /\ ChainIsKnown
  /\ \A r \in Runs : RunIsPlausible(r)
  /\ \A r \in Runs : RunKnows(r)
  /\ FileIsSound

-----------------------------------------------------------------------------
(* Runtime code *)

(* What the constructor writes is code, if what the compiler wrote is. *)
LEMMA DeployedIsCode ==
  ASSUME NEW build, build.deployedBytecode \in Seq(Nat), NEW immutable \in Nat
  PROVE  /\ Deployed(build, immutable) \in Seq(Nat)
         /\ IsBuildOf(build, Deployed(build, immutable))
<1> DEFINE code == build.deployedBytecode
           masked == MaskedPositions(build.immutableReferences)
           written == [i \in 1 .. Len(code) |-> IF i \in masked THEN immutable ELSE code[i]]
<1>1. Len(code) \in Nat /\ DOMAIN code = 1 .. Len(code)
  BY LenProperties
<1>2. \A i \in 1 .. Len(code) : code[i] \in Nat
  BY ElementOfSeq
<1>3. Deployed(build, immutable) = written
  BY <1>1 DEF Deployed
<1>4. written \in [1 .. Len(code) -> Nat]
  BY <1>2
<1>5. written \in Seq(Nat)
  BY <1>1, <1>4, SeqDef
<1>6. IsBuildOf(build, written)
  BY <1>1 DEF IsBuildOf
<1>7. QED
  BY <1>3, <1>5, <1>6

(* The sources do not compile to nothing. *)
LEMMA BuildsAreCode ==
  ASSUME NEW build \in {poolBuild, forwarderBuild}, NEW code, IsBuildOf(build, code)
  PROVE  HasCode(code)
<1>1. build.deployedBytecode \in Seq(Nat) /\ build.deployedBytecode # <<>>
  BY BuildsAssumption DEF NoCode
<1>2. Len(build.deployedBytecode) \in Nat \ {0} /\ DOMAIN build.deployedBytecode = 1 .. Len(build.deployedBytecode)
  BY <1>1, EmptySeq, LenProperties
<1>3. 1 \in DOMAIN code
  BY <1>2 DEF IsBuildOf
<1>4. DOMAIN <<>> = {}
  OBVIOUS
<1>5. QED
  BY <1>3, <1>4 DEF HasCode, NoCode

(* Known code that matches the local artifact is the sources', whatever    *)
(* became of the artifact.                                                 *)
LEMMA MatchingCodeIsGenuine ==
  ASSUME NEW build, NEW initial, NEW artifact, LocalArtifact(artifact, build, initial),
         NEW code \in KnownCode(build, initial), RuntimeCodeMatches(code, artifact)
  PROVE  IsBuildOf(build, code)
<1> DEFINE mine == artifact.deployedBytecode
           ranges == artifact.immutableReferences
<1>1. /\ HasCode(mine) /\ PlausibleRanges(code, ranges)
      /\ maskImmutableRanges(mine, ranges) = maskImmutableRanges(code, ranges)
  BY DEF RuntimeCodeMatches
<1>2. DOMAIN mine = DOMAIN code
  BY <1>1 DEF maskImmutableRanges
<1>3. CASE artifact = build
  <2>1. \A i \in DOMAIN code \ MaskedPositions(ranges) : code[i] = mine[i]
    BY <1>1, <1>2 DEF maskImmutableRanges
  <2>2. QED
    BY <1>2, <1>3, <2>1 DEF IsBuildOf
<1>4. PlausibleRanges(mine, ranges)
  BY <1>1, <1>2 DEF PlausibleRanges
<1>5. CASE \A c \in initial \cup ForeignCode \cup {build.deployedBytecode} : DOMAIN c # DOMAIN mine
  <2>1. \A immutable : DOMAIN Deployed(build, immutable) = DOMAIN build.deployedBytecode
    BY DEF Deployed
  <2>2. QED
    BY <1>2, <1>5, <2>1 DEF KnownCode
<1>6. QED
  BY <1>1, <1>3, <1>4, <1>5 DEF LocalArtifact

(* The other way round, for the build itself: nothing else is refused. *)
LEMMA GenuineCodeMatches ==
  ASSUME NEW code \in Seq(Nat), IsBuildOf(poolBuild, code)
  PROVE  RuntimeCodeMatches(code, poolBuild)
<1> DEFINE mine == poolBuild.deployedBytecode
           ranges == poolBuild.immutableReferences
<1>1. mine \in Seq(Nat) /\ HasCode(mine) /\ PlausibleRanges(mine, ranges)
  BY BuildsAssumption DEF HasCode
<1>2. HasCode(code)
  BY BuildsAreCode
<1>3. DOMAIN code = DOMAIN mine
  BY DEF IsBuildOf
<1>4. Len(code) = Len(mine)
  BY <1>1, <1>3, LenProperties
<1>5. PlausibleRanges(code, ranges)
  BY <1>1, <1>3 DEF PlausibleRanges
<1>6. maskImmutableRanges(mine, ranges) = maskImmutableRanges(code, ranges)
  BY <1>3 DEF maskImmutableRanges, IsBuildOf
<1>7. QED
  BY <1>1, <1>2, <1>4, <1>5, <1>6 DEF RuntimeCodeMatches

-----------------------------------------------------------------------------
(* What a record that passed the checks is *)

(* A record that passed the pool's checks describes a pool built from the  *)
(* local artifact, with its own credentials.                               *)
LEMMA PassedPoolChecks ==
  ASSUME ChainIsKnown, NEW e \in Environments, NEW rec, RecordShape(rec),
         PoolChecksOut(rec, pools[rec.pool], e)
  PROVE  /\ GenuinePool(rec) /\ PaysItself(rec)
         /\ e.expectedPool \in {None, rec.pool}
<1>1. rec.pool \in Pools
  BY DEF RecordShape
<1>2. LocalArtifact(e.poolArtifact, poolBuild, InitialPoolCode)
  BY EnvironmentsAssumption DEF InitialPoolCode
<1>3. pools[rec.pool].code \in KnownCode(poolBuild, InitialPoolCode)
  BY <1>1 DEF ChainIsKnown
<1>4. IsBuildOf(poolBuild, pools[rec.pool].code)
  BY <1>2, <1>3, MatchingCodeIsGenuine DEF PoolChecksOut
<1>5. QED
  BY <1>4 DEF PoolChecksOut, GenuinePool, PaysItself, MatchesPool, MatchesDeclaration, SystemCodeMatches

(* A forwarder that passed its checks is a genuine one that pays the       *)
(* record's pool.                                                          *)
LEMMA PassedForwarderChecks ==
  ASSUME ChainIsKnown, NEW e \in Environments, NEW rec, RecordShape(rec), rec.forwarder # None,
         AuthenticForwarder(rec.forwarder, forwarders[rec.forwarder], rec.pool, e)
  PROVE  GenuineForwarder(rec)
<1>1. rec.forwarder \in Forwarders
  BY DEF RecordShape
<1>2. LocalArtifact(e.forwarderArtifact, forwarderBuild, InitialForwarderCode)
  BY EnvironmentsAssumption DEF InitialForwarderCode
<1>3. forwarders[rec.forwarder].code \in KnownCode(forwarderBuild, InitialForwarderCode)
  BY <1>1 DEF ChainIsKnown
<1>4. IsBuildOf(forwarderBuild, forwarders[rec.forwarder].code)
  BY <1>2, <1>3, MatchingCodeIsGenuine DEF AuthenticForwarder
<1>5. QED
  BY <1>4 DEF GenuineForwarder, AuthenticForwarder

(* A genuine pool fails the checks of a run that has the sources' build at *)
(* hand only for what the run declares.                                    *)
LEMMA GenuinePoolPasses ==
  ASSUME ChainIsKnown, NEW e, NEW rec, RecordShape(rec), GenuinePool(rec),
         e.poolArtifact = poolBuild, e.expectedPool \in {None, rec.pool}
  PROVE  PoolChecksOut(rec, pools[rec.pool], e)
<1> DEFINE contract == pools[rec.pool]
<1>1. rec.pool \in Pools
  BY DEF RecordShape
<1>2. IsBuildOf(poolBuild, contract.code) /\ ReportsTruth(contract, rec.pool)
  BY <1>1 DEF ChainIsKnown, GenuinePool
<1>3. contract.code \in Seq(Nat)
  <2>1. contract.code \in KnownCode(poolBuild, InitialPoolCode)
    BY <1>1 DEF ChainIsKnown
  <2>2. CASE contract.code \in InitialPoolCode \cup ForeignCode
    BY <2>2, ContractsAssumption DEF InitialPoolCode
  <2>3. CASE \E immutable \in Nat : contract.code = Deployed(poolBuild, immutable)
    BY <2>3, DeployedIsCode, BuildsAssumption
  <2>4. QED
    BY <2>1, <2>2, <2>3 DEF KnownCode
<1>4. HasCode(contract.code) /\ RuntimeCodeMatches(contract.code, poolBuild)
  BY <1>2, <1>3, BuildsAreCode, GenuineCodeMatches
<1>5. MatchesPool(rec, contract)
  BY <1>2 DEF MatchesPool, ReportsTruth, GenuinePool
<1>6. SystemCodeMatches(rec, contract.reports)
  BY <1>2 DEF SystemCodeMatches, ReportsTruth, GenuinePool
<1>7. Canonical(contract.reports, CodeOf(contract.reports))
  BY DEF GenuinePool
<1>8. QED
  BY <1>4, <1>5, <1>6, <1>7 DEF PoolChecksOut, MatchesDeclaration, GenuinePool

-----------------------------------------------------------------------------
(* What a step leaves alone *)

ContractsStay ==
  /\ \A p \in Pools : pools[p] # Absent => pools'[p] = pools[p]
  /\ \A f \in Forwarders : forwarders[f] # Absent => forwarders'[f] = forwarders[f]

(* A genuine contract is on the chain, and nothing there is replaced.      *)
LEMMA GenuineContractsStay ==
  ASSUME ContractsStay, NEW rec, RecordShape(rec)
  PROVE  /\ GenuinePool(rec) => pools'[rec.pool] = pools[rec.pool]
         /\ rec.forwarder # None /\ GenuineForwarder(rec) =>
              forwarders'[rec.forwarder] = forwarders[rec.forwarder]
<1>1. ~ HasCode(Absent.code)
  BY DEF Absent, HasCode
<1>2. GenuinePool(rec) => pools[rec.pool] # Absent
  BY <1>1, BuildsAreCode DEF GenuinePool
<1>3. GenuineForwarder(rec) => forwarders[rec.forwarder] # Absent
  BY <1>1, BuildsAreCode DEF GenuineForwarder
<1>4. QED
  BY <1>2, <1>3 DEF ContractsStay, RecordShape

(* So what a record says of genuine contracts stays true.                  *)
LEMMA CoherentStays ==
  ASSUME ContractsStay, NEW rec, RecordShape(rec)
  PROVE  /\ GenuinePool(rec) =>
              /\ rec.chainId = chainId
              /\ IsBuildOf(poolBuild, pools'[rec.pool].code)
              /\ rec.config = pools'[rec.pool].reports
              /\ rec.systemCode = CodeOf(rec.config)
              /\ Canonical(rec.config, rec.systemCode)
         /\ rec.forwarder # None /\ GenuineForwarder(rec) =>
              /\ IsBuildOf(forwarderBuild, forwarders'[rec.forwarder].code)
              /\ forwarders'[rec.forwarder].reports.pool = rec.pool
<1>1. /\ GenuinePool(rec) => pools'[rec.pool] = pools[rec.pool]
      /\ rec.forwarder # None /\ GenuineForwarder(rec) =>
           forwarders'[rec.forwarder] = forwarders[rec.forwarder]
  BY GenuineContractsStay
<1>2. QED
  BY <1>1 DEF GenuinePool, GenuineForwarder

(* What a run that does not step knows stays true.                         *)
LEMMA RunStays ==
  ASSUME IInv, ContractsStay, NEW q \in Runs,
         step'[q] = step[q], record'[q] = record[q], command'[q] = command[q], env'[q] = env[q]
  PROVE  (RunIsPlausible(q) /\ RunKnows(q))'
<1>1. RunIsPlausible(q) /\ RunKnows(q)
  BY DEF IInv
<1>2. RunIsPlausible(q)'
  BY <1>1 DEF RunIsPlausible
<1>3. RecordShape(record[q]) =>
        /\ GenuinePool(record[q]) => GenuinePool(record[q])'
        /\ record[q].forwarder # None /\ GenuineForwarder(record[q]) => GenuineForwarder(record[q])'
  BY CoherentStays DEF GenuinePool, GenuineForwarder
<1>4. RunKnows(q)'
  BY <1>1, <1>3 DEF RunIsPlausible, RunKnows, Coherent, PaysItself, PoolDeclared, AfterDeployment
<1>5. QED
  BY <1>2, <1>4

(* A file that no step writes stays sound.                                 *)
LEMMA FileStays ==
  ASSUME IInv, ContractsStay, file' = file,
         \A q \in Runs : step[q] = "written" => step'[q] = "written" /\ env'[q] = env[q]
  PROVE  FileIsSound'
<1>1. SUFFICES ASSUME file.readable PROVE FileIsSound'
  BY DEF FileIsSound
<1>2. FileIsSound
  BY DEF IInv
<1>3. RecordShape(file.record) /\ file.writtenBy \in Runs \cup {None}
  BY <1>1, <1>2 DEF FileIsSound
<1>4. GenuinePool(file.record) => GenuinePool(file.record)'
  BY <1>3, CoherentStays DEF GenuinePool
<1>5. file.record.forwarder # None /\ GenuineForwarder(file.record) => GenuineForwarder(file.record)'
  BY <1>3, CoherentStays DEF GenuineForwarder
<1>6. QED
  BY <1>1, <1>2, <1>3, <1>4, <1>5 DEF FileIsSound, Coherent, PaysItself, PoolDeclared, RecordShape

(* A step that deploys nothing leaves every contract.                      *)
LEMMA ChainStays ==
  IInv /\ UNCHANGED chainVars => ChainIsKnown' /\ ContractsStay
  BY DEF IInv, ChainIsKnown, ContractsStay, chainVars

-----------------------------------------------------------------------------
(* The steps *)

(* At first there is no deployment and no run has started.                 *)
LEMMA InitEstablishesIInv == Init => IInv
<1> SUFFICES ASSUME Init PROVE IInv
  OBVIOUS
<1>1. Shapes
  BY ContractsAssumption DEF Init, Shapes, Steps
<1>2. ChainIsKnown
  BY ContractsAssumption DEF Init, ChainIsKnown, KnownCode, InitialPoolCode, InitialForwarderCode
<1>3. \A r \in Runs : RunIsPlausible(r) /\ RunKnows(r)
  BY DEF Init, RunIsPlausible, RunKnows, AfterDeployment
<1>4. FileIsSound
  BY RecordsAssumption DEF Init, FileIsSound, Contents, RecordShape
<1>5. QED
  BY <1>1, <1>2, <1>3, <1>4 DEF IInv

(* A step that leaves the contracts and the file alone. *)
LEMMA QuietStep ==
  ASSUME IInv, NEW r \in Runs, NEW next \in Steps, step[r] # "written",
         GoTo(r, next), UNCHANGED <<chainVars, file>>,
         \/ UNCHANGED inputVars
         \/ \E c \in Commands, e \in Environments :
              command' = [command EXCEPT ![r] = c] /\ env' = [env EXCEPT ![r] = e],
         UNCHANGED record \/ \E rec : record' = [record EXCEPT ![r] = rec],
         (RunIsPlausible(r) /\ RunKnows(r))'
  PROVE  IInv'
<1>1. Shapes'
  BY DEF IInv, Shapes, GoTo, chainVars, inputVars
<1>2. ChainIsKnown' /\ ContractsStay
  BY ChainStays
<1>3. \A q \in Runs \ {r} :
        step'[q] = step[q] /\ record'[q] = record[q] /\ command'[q] = command[q] /\ env'[q] = env[q]
  BY DEF IInv, Shapes, GoTo, inputVars
<1>4. \A q \in Runs : (RunIsPlausible(q) /\ RunKnows(q))'
  <2> SUFFICES ASSUME NEW q \in Runs, q # r PROVE (RunIsPlausible(q) /\ RunKnows(q))'
    OBVIOUS
  <2> QED
    BY <1>2, <1>3, RunStays
<1>5. FileIsSound'
  BY <1>2, <1>3, FileStays
<1>6. QED
  BY <1>1, <1>2, <1>4, <1>5 DEF IInv

(* Starting reads the file and the environment.                            *)
LEMMA StartKeepsIInv == ASSUME IInv, NEW r \in Runs, Start(r) PROVE IInv'
<1> PICK c \in Commands, e \in Environments :
      /\ command' = [command EXCEPT ![r] = c]
      /\ env' = [env EXCEPT ![r] = e]
      /\ IF c = "deploy" THEN DeployStart(r, e) ELSE ReadStart(r, c, e)
  BY DEF Start
<1>1. Shapes /\ FileIsSound
  BY DEF IInv
<1>2. step[r] = "start" /\ UNCHANGED <<chainVars, file>> /\ command'[r] = c /\ env'[r] = e
  BY <1>1 DEF Start, Shapes
<1>3. CASE c = "deploy"
  <2>1. PICK next \in {"deploying", "refused"} :
          /\ GoTo(r, next)
          /\ next = "deploying" =>
               /\ \A f \in SystemContracts : HasCode(CodeOf(e.config)[f])
               /\ Canonical(e.config, CodeOf(e.config))
    BY <1>3 DEF DeployStart
  <2>2. step'[r] = next
    BY <1>1, <2>1 DEF GoTo, Shapes
  <2>3. (RunIsPlausible(r) /\ RunKnows(r))'
    BY <1>2, <1>3, <2>1, <2>2 DEF RunIsPlausible, RunKnows, AfterDeployment
  <2>4. next \in Steps /\ UNCHANGED record
    BY <1>3 DEF Steps, Ended, DeployStart
  <2>5. QED
    BY <1>2, <2>1, <2>3, <2>4, QuietStep
<1>4. CASE c # "deploy"
  <2>1. CASE GoTo(r, "refused") /\ UNCHANGED record
    <3>1. step'[r] = "refused"
      BY <1>1, <2>1 DEF GoTo, Shapes
    <3>2. (RunIsPlausible(r) /\ RunKnows(r))'
      BY <1>2, <3>1 DEF RunIsPlausible, RunKnows, AfterDeployment
    <3>3. QED
      BY <1>2, <2>1, <3>2, QuietStep DEF Steps, Ended
  <2>2. CASE /\ GoTo(r, "read") /\ record' = [record EXCEPT ![r] = file.record]
             /\ file.readable
             /\ c = "deployForwarder" => e.expectedForwarder = None
             /\ c = "sweep" => file.record.forwarder # None
    <3>1. step'[r] = "read" /\ record'[r] = file.record /\ RecordShape(file.record)
      BY <1>1, <2>2 DEF GoTo, Shapes, FileIsSound
    <3>2. (RunIsPlausible(r) /\ RunKnows(r))'
      BY <1>2, <1>4, <2>2, <3>1 DEF RunIsPlausible, RunKnows, AfterDeployment, RecordShape
    <3>3. QED
      BY <1>2, <2>2, <3>2, QuietStep DEF Steps
  <2>3. QED
    BY <1>4, <2>1, <2>2 DEF ReadStart
<1>5. QED
  BY <1>3, <1>4

(* A run goes on from the integrity checks only with a genuine pool.       *)
LEMMA CheckIntegrityKeepsIInv == ASSUME IInv, NEW r \in Runs, CheckIntegrity(r) PROVE IInv'
<1> DEFINE rec == record[r]
           e == env[r]
           c == command[r]
<1>1. Shapes /\ ChainIsKnown /\ RunIsPlausible(r)
  BY DEF IInv
<1>2. /\ step[r] = "read" /\ UNCHANGED <<chainVars, file, inputVars, record>>
      /\ command'[r] = c /\ env'[r] = e /\ record'[r] = rec
  BY DEF CheckIntegrity, inputVars
<1>3. /\ c \in Commands \ {"deploy"} /\ e \in Environments /\ RecordShape(rec)
      /\ c = "deployForwarder" => e.expectedForwarder = None
      /\ c = "sweep" => rec.forwarder # None
  BY <1>1, <1>2 DEF RunIsPlausible
<1>4. ASSUME NEW next \in Steps, GoTo(r, next), (RunIsPlausible(r) /\ RunKnows(r))'
      PROVE  IInv'
  BY <1>2, <1>4, QuietStep
<1>5. CASE GoTo(r, "refused")
  <2>1. step'[r] = "refused"
    BY <1>1, <1>5 DEF GoTo, Shapes
  <2>2. (RunIsPlausible(r) /\ RunKnows(r))'
    BY <1>2, <1>3, <2>1 DEF RunIsPlausible, RunKnows, AfterDeployment
  <2>3. QED
    BY <1>4, <1>5, <2>2 DEF Steps, Ended
<1>6. CASE Integrity(rec, pools, forwarders, e, scopeOf[c])
  <2>1. GenuinePool(rec) /\ PaysItself(rec) /\ e.expectedPool \in {None, rec.pool}
    BY <1>1, <1>3, <1>6, PassedPoolChecks DEF Integrity
  <2>2. GenuinePool(rec)'
    BY <1>2, <2>1 DEF GenuinePool, chainVars
  <2>3. c \in {"pool", "sweep"} => e.expectedForwarder \in {None, rec.forwarder}
    BY <1>6 DEF Integrity, scopeOf, ExpectedForwarderRecorded, MatchesDeclaration
  <2>4. c = "sweep" => GenuineForwarder(rec)
    BY <1>1, <1>3, <1>6, PassedForwarderChecks DEF Integrity, scopeOf, ForwarderMayRefuse
  <2>5. c = "sweep" => GenuineForwarder(rec)'
    BY <1>2, <2>4 DEF GenuineForwarder, chainVars
  <2>6. CASE c = "deployForwarder" /\ GoTo(r, "deploying")
    <3>1. step'[r] = "deploying"
      BY <1>1, <2>6 DEF GoTo, Shapes
    <3>2. RunIsPlausible(r)'
      BY <1>2, <1>3, <2>6, <3>1 DEF RunIsPlausible, AfterDeployment, RecordShape
    <3>3. RunKnows(r)'
      BY <1>2, <2>1, <2>2, <2>6, <3>1 DEF RunKnows, PaysItself, PoolDeclared
    <3>4. QED
      BY <1>4, <2>6, <3>2, <3>3 DEF Steps
  <2>7. CASE c = "status" /\ GoTo(r, "printed")
    <3>1. step'[r] = "printed"
      BY <1>1, <2>7 DEF GoTo, Shapes
    <3>2. RunIsPlausible(r)'
      BY <1>2, <1>3, <2>7, <3>1 DEF RunIsPlausible, AfterDeployment, RecordShape
    <3>3. RunKnows(r)'
      BY <1>2, <2>2, <2>7, <3>1 DEF RunKnows
    <3>4. QED
      BY <1>4, <2>7, <3>2, <3>3 DEF Steps
  <2>8. CASE c \in {"pool", "sweep"} /\ GoTo(r, "acting")
    <3>1. step'[r] = "acting"
      BY <1>1, <2>8 DEF GoTo, Shapes
    <3>2. RunIsPlausible(r)'
      BY <1>2, <1>3, <2>8, <3>1 DEF RunIsPlausible, AfterDeployment, RecordShape
    <3>3. RunKnows(r)'
      BY <1>2, <2>2, <2>3, <2>5, <2>8, <3>1 DEF RunKnows
    <3>4. QED
      BY <1>4, <2>8, <3>2, <3>3 DEF Steps, Ended
  <2>9. c \in {"deployForwarder", "status", "pool", "sweep"}
    BY <1>3 DEF Commands, scopeOf
  <2>10. QED
    BY <1>5, <1>6, <2>6, <2>7, <2>8, <2>9 DEF CheckIntegrity
<1>7. QED
  BY <1>5, <1>6 DEF CheckIntegrity

(* What the checks say of the forwarder is a verdict, not a change.        *)
LEMMA ReportForwarderKeepsIInv == ASSUME IInv, NEW r \in Runs, ReportForwarder(r) PROVE IInv'
<1> DEFINE rec == record[r]
           e == env[r]
<1>1. Shapes /\ ChainIsKnown /\ RunIsPlausible(r) /\ RunKnows(r)
  BY DEF IInv
<1>2. /\ step[r] = "printed" /\ UNCHANGED <<chainVars, file, inputVars, record>>
      /\ command'[r] = command[r] /\ env'[r] = e /\ record'[r] = rec
  BY DEF ReportForwarder, inputVars
<1>3. command[r] = "status" /\ e \in Environments /\ RecordShape(rec) /\ GenuinePool(rec)
  BY <1>1, <1>2 DEF RunIsPlausible, RunKnows
<1>4. PICK next \in {"reported", "warned"} :
        GoTo(r, next) /\ (next = "reported" => ForwarderChecksOut(rec, forwarders, e))
  BY DEF ReportForwarder
<1>5. step'[r] = next
  BY <1>1, <1>4 DEF GoTo, Shapes
<1>6. next = "reported" =>
        /\ e.expectedForwarder \in {None, rec.forwarder}
        /\ rec.forwarder # None => GenuineForwarder(rec)
  BY <1>1, <1>3, <1>4, PassedForwarderChecks
     DEF ForwarderChecksOut, ExpectedForwarderRecorded, MatchesDeclaration
<1>7. GenuinePool(rec)' /\ (GenuineForwarder(rec) => GenuineForwarder(rec)')
  BY <1>2, <1>3 DEF GenuinePool, GenuineForwarder, chainVars
<1>8. RunIsPlausible(r)'
  BY <1>2, <1>3, <1>5 DEF RunIsPlausible, AfterDeployment, RecordShape, Commands, scopeOf
<1>9. RunKnows(r)'
  BY <1>2, <1>3, <1>5, <1>6, <1>7 DEF RunKnows
<1>10. QED
  BY <1>2, <1>4, <1>8, <1>9, QuietStep DEF Steps, Ended

(* What lands where deploy meant its pool had no code there before.        *)
LEMMA DeployPoolKeepsIInv == ASSUME IInv, NEW r \in Runs, DeployPool(r) PROVE IInv'
<1> DEFINE e == env[r]
<1> PICK p \in {q \in Pools : pools[q] = Absent} : \E contract \in Landed(e, p) :
      /\ pools' = [pools EXCEPT ![p] = contract]
      /\ record' = [record EXCEPT ![r] =
           [chainId |-> chainId, pool |-> p, forwarder |-> None,
            config |-> [ConfigOf(e, p) EXCEPT
                          !.withdrawalCredentials = contract.reports.withdrawalCredentials],
            systemCode |-> CodeOf(e.config)]]
  BY DEF DeployPool
<1> PICK contract \in Landed(e, p) :
      /\ pools' = [pools EXCEPT ![p] = contract]
      /\ record' = [record EXCEPT ![r] =
           [chainId |-> chainId, pool |-> p, forwarder |-> None,
            config |-> [ConfigOf(e, p) EXCEPT
                          !.withdrawalCredentials = contract.reports.withdrawalCredentials],
            systemCode |-> CodeOf(e.config)]]
  OBVIOUS
<1>1. Shapes /\ ChainIsKnown /\ RunIsPlausible(r) /\ RunKnows(r)
  BY DEF IInv
<1>2. /\ step[r] = "deploying" /\ command[r] = "deploy" /\ e \in Environments
      /\ UNCHANGED <<forwarders, file, inputVars>> /\ GoTo(r, "deployed")
      /\ command'[r] = command[r] /\ env'[r] = e
  BY <1>1 DEF DeployPool, inputVars, RunIsPlausible
<1>3. step'[r] = "deployed"
  BY <1>1, <1>2 DEF GoTo, Shapes
<1>4. Shapes'
  BY <1>1, <1>2 DEF Shapes, GoTo, inputVars, Steps
<1>5. ContractsStay
  BY <1>1, <1>2 DEF ContractsStay, Shapes
<1>6. /\ DOMAIN e.config = SystemContracts \cup {"operator"} /\ e.config.operator \in Nat
      /\ \A f \in SystemContracts : HasCode(CodeOf(e.config)[f])
      /\ Canonical(e.config, CodeOf(e.config))
  BY <1>1, <1>2, EnvironmentsAssumption DEF RunKnows
<1>7. \A q \in Pools :
        /\ ConfigOf(e, q).withdrawalCredentials = deriveWithdrawalCredentials(q)
        /\ \A f \in SystemContracts : ConfigOf(e, q)[f] = e.config[f]
        /\ DOMAIN ConfigOf(e, q) = SystemContracts \cup {"operator", "withdrawalCredentials"}
  BY <1>6 DEF ConfigOf, SystemContracts
<1>8. /\ contract.code \in KnownCode(poolBuild, InitialPoolCode)
      /\ IsBuildOf(poolBuild, contract.code) => ReportsTruth(contract, p)
  <2>1. CASE contract = [code |-> Deployed(poolBuild, e.config.operator), reports |-> ConfigOf(e, p)]
    <3>1. contract.code \in KnownCode(poolBuild, InitialPoolCode)
      BY <1>6, <2>1 DEF KnownCode
    <3>2. CodeOf(contract.reports) = CodeOf(e.config)
      BY <1>7, <2>1 DEF CodeOf
    <3>3. ReportsTruth(contract, p)
      BY <1>6, <1>7, <2>1, <3>2 DEF ReportsTruth
    <3>4. QED
      BY <3>1, <3>3
  <2>2. CASE contract.code \in ForeignCode
    BY <2>2, ContractsAssumption DEF KnownCode
  <2>3. QED
    BY <2>1, <2>2 DEF Landed
<1>9. ChainIsKnown'
  BY <1>1, <1>2, <1>8 DEF ChainIsKnown, Shapes
<1>10. /\ RecordShape(record'[r]) /\ record'[r].forwarder = None
       /\ record'[r].chainId = chainId
       /\ \A f \in SystemContracts : record'[r].config[f] = e.config[f]
       /\ record'[r].systemCode = CodeOf(e.config)
  <2>1. \A x : \A f \in SystemContracts :
          [ConfigOf(e, p) EXCEPT !.withdrawalCredentials = x][f] = e.config[f]
    BY <1>7 DEF SystemContracts
  <2>2. QED
    BY <1>1, <2>1 DEF Shapes, RecordShape, RecordFields
<1>11. Canonical(record'[r].config, record'[r].systemCode)
  BY <1>6, <1>10 DEF Canonical
<1>12. RunIsPlausible(r)'
  BY <1>2, <1>3, <1>10 DEF RunIsPlausible, AfterDeployment, RecordShape, Commands
<1>13. RunKnows(r)'
  BY <1>2, <1>3, <1>10, <1>11 DEF RunKnows
<1>14. \A q \in Runs \ {r} :
         step'[q] = step[q] /\ record'[q] = record[q] /\ command'[q] = command[q] /\ env'[q] = env[q]
  BY <1>1, <1>2 DEF Shapes, GoTo, inputVars
<1>15. \A q \in Runs : (RunIsPlausible(q) /\ RunKnows(q))'
  <2> SUFFICES ASSUME NEW q \in Runs, q # r PROVE (RunIsPlausible(q) /\ RunKnows(q))'
    BY <1>12, <1>13
  <2> QED
    BY <1>5, <1>14, RunStays
<1>16. FileIsSound'
  BY <1>2, <1>5, <1>14, FileStays
<1>17. QED
  BY <1>4, <1>9, <1>15, <1>16 DEF IInv

(* The same of deploy-forwarder; the record in hand gets its address.      *)
LEMMA DeployForwarderKeepsIInv == ASSUME IInv, NEW r \in Runs, DeployForwarder(r) PROVE IInv'
<1> PICK f \in {g \in Forwarders : forwarders[g] = Absent},
         code \in {Deployed(forwarderBuild, 1)} \cup ForeignCode :
      /\ forwarders' = [forwarders EXCEPT ![f] =
           [code |-> code, reports |-> [pool |-> record[r].pool]]]
      /\ record' = [record EXCEPT ![r] = Recorded(r, f)]
  BY DEF DeployForwarder
<1>1. Shapes /\ ChainIsKnown /\ RunIsPlausible(r) /\ RunKnows(r)
  BY DEF IInv
<1>2. /\ step[r] = "deploying" /\ command[r] = "deployForwarder"
      /\ UNCHANGED <<pools, file, inputVars>> /\ GoTo(r, "deployed")
      /\ command'[r] = command[r] /\ env'[r] = env[r]
  BY DEF DeployForwarder, inputVars
<1>3. step'[r] = "deployed"
  BY <1>1, <1>2 DEF GoTo, Shapes
<1>4. Shapes'
  BY <1>1, <1>2 DEF Shapes, GoTo, inputVars, Steps
<1>5. ContractsStay
  BY <1>1, <1>2 DEF ContractsStay, Shapes
<1>6. code \in KnownCode(forwarderBuild, InitialForwarderCode)
  BY DEF KnownCode
<1>7. ChainIsKnown'
  BY <1>1, <1>2, <1>6 DEF ChainIsKnown, Shapes
<1>8. /\ RecordShape(record[r]) /\ env[r].expectedForwarder = None
      /\ GenuinePool(record[r]) /\ PaysItself(record[r]) /\ PoolDeclared(r, record[r])
      /\ command[r] \in Commands /\ env[r] \in Environments
  BY <1>1, <1>2 DEF RunIsPlausible, RunKnows
<1>9. /\ record'[r] = Recorded(r, f)
      /\ \A field \in RecordFields \ {"forwarder"} : record'[r][field] = record[r][field]
      /\ RecordShape(record'[r])
  BY <1>1, <1>8 DEF Shapes, Recorded, RecordShape, RecordFields
<1>10. /\ record'[r].chainId = record[r].chainId /\ record'[r].pool = record[r].pool
       /\ record'[r].config = record[r].config /\ record'[r].systemCode = record[r].systemCode
  BY <1>9 DEF RecordFields
<1>11. (GenuinePool(record[r]) /\ PaysItself(record[r]) /\ PoolDeclared(r, record[r]))'
  BY <1>2, <1>8, <1>10 DEF GenuinePool, PaysItself, PoolDeclared
<1>12. RunIsPlausible(r)'
  BY <1>2, <1>3, <1>8, <1>9 DEF RunIsPlausible, AfterDeployment, RecordShape
<1>13. RunKnows(r)'
  BY <1>2, <1>3, <1>11 DEF RunKnows, PaysItself
<1>14. \A q \in Runs \ {r} :
         step'[q] = step[q] /\ record'[q] = record[q] /\ command'[q] = command[q] /\ env'[q] = env[q]
  BY <1>1, <1>2 DEF Shapes, GoTo, inputVars
<1>15. \A q \in Runs : (RunIsPlausible(q) /\ RunKnows(q))'
  <2> SUFFICES ASSUME NEW q \in Runs, q # r PROVE (RunIsPlausible(q) /\ RunKnows(q))'
    BY <1>12, <1>13
  <2> QED
    BY <1>5, <1>14, RunStays
<1>16. FileIsSound'
  BY <1>2, <1>5, <1>14, FileStays
<1>17. QED
  BY <1>4, <1>7, <1>15, <1>16 DEF IInv

(* What was deployed is checked before it is written.                      *)
LEMMA CheckDeployedKeepsIInv == ASSUME IInv, NEW r \in Runs, CheckDeployed(r) PROVE IInv'
<1> DEFINE rec == record[r]
           e == env[r]
           contract == pools[rec.pool]
<1>1. Shapes /\ ChainIsKnown /\ RunIsPlausible(r) /\ RunKnows(r)
  BY DEF IInv
<1>2. /\ step[r] = "deployed" /\ UNCHANGED <<chainVars, file, inputVars, record>>
      /\ command'[r] = command[r] /\ env'[r] = e /\ record'[r] = rec
      /\ pools' = pools /\ forwarders' = forwarders
  BY DEF CheckDeployed, inputVars, chainVars
<1>3. /\ RecordShape(rec) /\ e \in Environments
      /\ command[r] \in {"deploy", "deployForwarder"} /\ command[r] \in Commands
      /\ command[r] = "deployForwarder" => e.expectedForwarder = None
  BY <1>1, <1>2 DEF RunIsPlausible, AfterDeployment
<1>4. PICK next \in {"checked", "unrecorded"} :
        GoTo(r, next) /\ (next = "checked" => DeployedChecksOut(r))
  BY DEF CheckDeployed
<1>5. step'[r] = next
  BY <1>1, <1>4 DEF GoTo, Shapes
<1>6. ASSUME next = "checked", command[r] = "deploy"
      PROVE  Coherent(rec) /\ PoolDeclared(r, rec)
  <2>1. /\ MatchesDeclaration(e.expectedPool, rec.pool)
        /\ MatchesPool(rec, contract)
        /\ SystemCodeMatches(rec, contract.reports)
        /\ RuntimeCodeMatches(contract.code, e.poolArtifact)
    BY <1>4, <1>6 DEF DeployedChecksOut
  <2>2. LocalArtifact(e.poolArtifact, poolBuild, InitialPoolCode)
    BY <1>3, EnvironmentsAssumption DEF InitialPoolCode
  <2>3. contract.code \in KnownCode(poolBuild, InitialPoolCode)
    BY <1>1, <1>3 DEF ChainIsKnown, RecordShape
  <2>4. IsBuildOf(poolBuild, contract.code)
    BY <2>1, <2>2, <2>3, MatchingCodeIsGenuine
  <2>5. rec.chainId = chainId /\ rec.forwarder = None /\ Canonical(rec.config, rec.systemCode)
    BY <1>1, <1>2, <1>6 DEF RunKnows
  <2>6. QED
    BY <2>1, <2>4, <2>5 DEF Coherent, GenuinePool, PaysItself, PoolDeclared,
                            MatchesPool, MatchesDeclaration, SystemCodeMatches
<1>7. ASSUME next = "checked", command[r] = "deployForwarder"
      PROVE  Coherent(rec) /\ PoolDeclared(r, rec)
  <2>1. AuthenticForwarder(rec.forwarder, forwarders[rec.forwarder], rec.pool, e)
    BY <1>4, <1>7 DEF DeployedChecksOut
  <2>2. rec.forwarder # None => GenuineForwarder(rec)
    BY <1>1, <1>3, <2>1, PassedForwarderChecks
  <2>3. GenuinePool(rec) /\ PaysItself(rec) /\ PoolDeclared(r, rec)
    BY <1>1, <1>2, <1>7 DEF RunKnows
  <2>4. QED
    BY <2>2, <2>3 DEF Coherent
<1>8. Coherent(rec) /\ PoolDeclared(r, rec) => (Coherent(rec) /\ PoolDeclared(r, rec))'
  BY <1>2 DEF Coherent, GenuinePool, GenuineForwarder, PaysItself, PoolDeclared
<1>9. RunIsPlausible(r)'
  BY <1>2, <1>3, <1>5 DEF RunIsPlausible, AfterDeployment, RecordShape
<1>10. RunKnows(r)'
  BY <1>2, <1>3, <1>5, <1>6, <1>7, <1>8 DEF RunKnows
<1>11. QED
  BY <1>2, <1>4, <1>9, <1>10, QuietStep DEF Steps, Ended

(* A crash loses the run, not the file or the chain.                       *)
LEMMA CrashKeepsIInv == ASSUME IInv, NEW r \in Runs, Crash(r) PROVE IInv'
<1>1. Shapes /\ RunIsPlausible(r)
  BY DEF IInv
<1>2. /\ step[r] \notin {"start", "written"} /\ GoTo(r, "crashed")
      /\ UNCHANGED <<chainVars, file, inputVars, record>>
      /\ command'[r] = command[r] /\ env'[r] = env[r]
  BY DEF Crash, inputVars, Ended
<1>3. step'[r] = "crashed"
  BY <1>1, <1>2 DEF GoTo, Shapes
<1>4. (RunIsPlausible(r) /\ RunKnows(r))'
  BY <1>1, <1>2, <1>3 DEF RunIsPlausible, RunKnows, AfterDeployment
<1>5. QED
  BY <1>2, <1>4, QuietStep DEF Steps, Ended

(* The file is written, or emptied, by a run or by somebody else. *)
LEMMA WritingStep ==
  ASSUME IInv, UNCHANGED <<chainVars, inputVars, record>>,
         step' \in [Runs -> Steps],
         \A q \in Runs :
           \/ step'[q] = step[q]
           \/ step[q] \in {"checked", "writing"} /\ step'[q] \in {"writing", "written"},
         \/ file' = Unreadable
         \/ file' \in {Contents(None, rec) : rec \in StrayRecords}
         \/ \E r \in Runs : file' = Contents(r, record[r]) /\ step'[r] = "written"
  PROVE  IInv'
<1>1. Shapes /\ \A q \in Runs : RunIsPlausible(q) /\ RunKnows(q)
  BY DEF IInv
<1>2. Shapes'
  BY <1>1 DEF Shapes, chainVars, inputVars
<1>3. ChainIsKnown' /\ ContractsStay
  BY ChainStays
<1>4. \A q \in Runs : RunIsPlausible(q)'
  <2> SUFFICES ASSUME NEW q \in Runs PROVE RunIsPlausible(q)'
    OBVIOUS
  <2> QED
    BY <1>1 DEF RunIsPlausible, AfterDeployment, inputVars, RecordShape
<1>5. \A q \in Runs : RunKnows(q)'
  <2> SUFFICES ASSUME NEW q \in Runs PROVE RunKnows(q)'
    OBVIOUS
  <2>1. CASE step'[q] = step[q]
    BY <1>1, <1>3, <2>1, RunStays DEF inputVars
  <2>2. CASE step[q] \in {"checked", "writing"} /\ step'[q] \in {"writing", "written"}
    <3>1. Coherent(record[q]) /\ PoolDeclared(q, record[q])
      BY <1>1, <2>2 DEF RunKnows
    <3>2. (Coherent(record[q]) /\ PoolDeclared(q, record[q]))'
      BY <3>1 DEF Coherent, GenuinePool, GenuineForwarder, PaysItself, PoolDeclared, chainVars, inputVars
    <3>3. QED
      BY <2>2, <3>2 DEF RunKnows
  <2>3. QED
    BY <2>1, <2>2
<1>6. FileIsSound'
  <2>1. CASE file' = Unreadable
    BY <2>1 DEF Unreadable, FileIsSound
  <2>2. CASE file' \in {Contents(None, rec) : rec \in StrayRecords}
    BY <2>2, RecordsAssumption DEF Contents, FileIsSound, RecordShape
  <2>3. ASSUME NEW r \in Runs, file' = Contents(r, record[r]), step'[r] = "written"
        PROVE  FileIsSound'
    <3>1. file'.record = record'[r] /\ file'.writtenBy = r
      BY <2>3 DEF Contents
    <3>2. RecordShape(record'[r]) /\ (Coherent(record[r]) /\ PoolDeclared(r, record[r]))'
      BY <1>4, <1>5, <2>3 DEF RunIsPlausible, RunKnows, AfterDeployment, RecordShape
    <3>3. QED
      BY <2>3, <3>1, <3>2
         DEF FileIsSound, RecordShape, Coherent, GenuinePool, GenuineForwarder, PaysItself, PoolDeclared
  <2>4. QED
    BY <2>1, <2>2, <2>3
<1>7. QED
  BY <1>2, <1>3, <1>4, <1>5, <1>6 DEF IInv

(* Every step of every run keeps the invariant.                            *)
LEMMA NextKeepsIInv == IInv /\ [Next]_vars => IInv'
<1> SUFFICES ASSUME IInv, [Next]_vars PROVE IInv'
  OBVIOUS
<1>1. Shapes
  BY DEF IInv
<1>2. ASSUME NEW r \in Runs, Truncate(r) PROVE IInv'
  BY <1>1, <1>2, WritingStep DEF Truncate, GoTo, Shapes, Steps
<1>3. ASSUME NEW r \in Runs, WriteOut(r) PROVE IInv'
  <2>1. /\ step[r] = "writing" /\ step' = [step EXCEPT ![r] = "written"]
        /\ UNCHANGED <<chainVars, inputVars, record>>
        /\ file' \in {Contents(r, record[r]), Unreadable}
    BY <1>3 DEF WriteOut, GoTo
  <2>2. step'[r] = "written" /\ step' \in [Runs -> Steps]
    BY <1>1, <2>1 DEF Shapes, Steps, Ended
  <2>3. QED
    BY <1>1, <2>1, <2>2, WritingStep DEF Shapes
<1>4. ASSUME AnotherRecord PROVE IInv'
  BY <1>1, <1>4, WritingStep DEF AnotherRecord, Shapes
<1>5. CASE UNCHANGED vars
  <2>1. ChainIsKnown' /\ ContractsStay
    BY <1>5, ChainStays DEF vars
  <2>2. \A q \in Runs : (RunIsPlausible(q) /\ RunKnows(q))'
    <3> SUFFICES ASSUME NEW q \in Runs PROVE (RunIsPlausible(q) /\ RunKnows(q))'
      OBVIOUS
    <3> QED
      BY <1>5, <2>1, RunStays DEF vars, inputVars
  <2>3. FileIsSound'
    BY <1>5, <2>1, FileStays DEF vars, inputVars
  <2>4. Shapes'
    BY <1>1, <1>5 DEF vars, Shapes, inputVars, chainVars
  <2>5. QED
    BY <2>1, <2>2, <2>3, <2>4 DEF IInv
<1>6. QED
  BY <1>2, <1>3, <1>4, <1>5, StartKeepsIInv, CheckIntegrityKeepsIInv, ReportForwarderKeepsIInv,
     DeployPoolKeepsIInv, DeployForwarderKeepsIInv, CheckDeployedKeepsIInv, CrashKeepsIInv
     DEF Next, RunStep

(* In every reachable state, for every set of runs, contracts and          *)
(* environments, what the file, the chain and the runs say of each other   *)
(* is true.                                                                *)
THEOREM InvariantHolds == Spec => []IInv
  BY InitEstablishesIInv, NextKeepsIInv, PTL DEF Spec

-----------------------------------------------------------------------------
(* What follows *)

(* A record that the commands wrote describes a genuine pool, with its own *)
(* credentials, and a forwarder that pays it: whatever deploy and          *)
(* deploy-forwarder runs overlap, end half-way or start from a record      *)
(* somebody else supplied.                                                 *)
THEOREM RecordsAreCoherent == Spec => []WrittenRecordsAreCoherent
<1>1. IInv => WrittenRecordsAreCoherent
  BY DEF IInv, FileIsSound, WrittenRecordsAreCoherent, WrittenByRun, Coherent, PaysItself
<1>2. QED
  BY <1>1, InvariantHolds, PTL

(* deploy and deploy-forwarder never leave a record of another pool than   *)
(* the EXPECTED_POOL they were given.                                      *)
THEOREM DeclaredPoolIsKept == Spec => []DeclaredPoolStays
<1>1. IInv => DeclaredPoolStays
  BY DEF IInv, FileIsSound, DeclaredPoolStays, WrittenByRun, PoolDeclared
<1>2. QED
  BY <1>1, InvariantHolds, PTL

(* No record, and no local artifact that is missing, implausible or of     *)
(* another length, makes a command act on a pool, or a sweep on a          *)
(* forwarder, that is not the sources'.  An artifact forged to fit is      *)
(* outside the assumption on LocalArtifact.                                *)
THEOREM OnlyGenuineContracts == Spec => []ActsOnCheckedContracts
<1>1. IInv => ActsOnCheckedContracts
  BY DEF IInv, RunKnows, ActsOnCheckedContracts
<1>2. QED
  BY <1>1, InvariantHolds, PTL

(* A run that declares EXPECTED_FORWARDER is about that forwarder, or      *)
(* refuses, or warns.                                                      *)
THEOREM DeclaredForwarderCounts == Spec => []DeclaredForwarderIsNotIgnored
<1>1. IInv => DeclaredForwarderIsNotIgnored
  <2> SUFFICES ASSUME IInv, NEW r \in Runs,
                      step[r] \in {"acting", "reported", "written"}, command[r] # "deploy"
               PROVE  env[r].expectedForwarder \in {None, record[r].forwarder}
    BY DEF DeclaredForwarderIsNotIgnored
  <2>1. RunIsPlausible(r) /\ RunKnows(r)
    BY DEF IInv
  <2>2. QED
    BY <2>1 DEF RunIsPlausible, RunKnows, AfterDeployment
<1>2. QED
  BY <1>1, InvariantHolds, PTL

(* The commands that return money, and status, are refused a genuine pool  *)
(* only for a declaration the record contradicts: the forwarder cannot     *)
(* stand in their way.                                                     *)
THEOREM EscapeHatchStaysOpen == Spec => EscapeHatchIsOpen
<1> DEFINE Open ==
      \A r \in Runs :
        /\ step[r] = "read" /\ step'[r] = "refused" /\ command[r] \in {"pool", "status"}
        /\ GenuinePool(record[r]) /\ env[r].poolArtifact = poolBuild
        => \/ env[r].expectedPool \notin {None, record[r].pool}
           \/ command[r] = "pool" /\ env[r].expectedForwarder \notin {None, record[r].forwarder}
<1>1. IInv /\ [Next]_vars => Open
  <2> SUFFICES ASSUME IInv, [Next]_vars, NEW r \in Runs,
                      step[r] = "read", step'[r] = "refused", command[r] \in {"pool", "status"},
                      GenuinePool(record[r]), env[r].poolArtifact = poolBuild,
                      env[r].expectedPool \in {None, record[r].pool}
               PROVE  command[r] = "pool" /\ env[r].expectedForwarder \notin {None, record[r].forwarder}
    OBVIOUS
  <2>1. Shapes /\ ChainIsKnown /\ RecordShape(record[r])
    BY DEF IInv, RunIsPlausible
  <2>2. PoolChecksOut(record[r], pools[record[r].pool], env[r])
    BY <2>1, GenuinePoolPasses
  <2>3. CheckIntegrity(r)
    <3>1. ASSUME NEW q \in Runs, RunStep(q) PROVE q = r
      BY <2>1, <3>1 DEF RunStep, Start, CheckIntegrity, ReportForwarder, DeployPool, DeployForwarder,
                        CheckDeployed, Truncate, WriteOut, Crash, GoTo, Shapes, DeployStart, ReadStart
    <3>2. ~ Start(r) /\ ~ ReportForwarder(r) /\ ~ DeployPool(r) /\ ~ DeployForwarder(r)
          /\ ~ CheckDeployed(r) /\ ~ Truncate(r) /\ ~ WriteOut(r)
      BY DEF Start, ReportForwarder, DeployPool, DeployForwarder, CheckDeployed, Truncate, WriteOut
    <3>3. ~ Crash(r)
      BY <2>1 DEF Crash, GoTo, Shapes
    <3>4. step' # step
      OBVIOUS
    <3>5. QED
      BY <3>1, <3>2, <3>3, <3>4 DEF Next, RunStep, AnotherRecord, vars
  <2>4. ~ Integrity(record[r], pools, forwarders, env[r], scopeOf[command[r]])
    BY <2>1, <2>3 DEF CheckIntegrity, GoTo, Shapes
  <2>5. scopeOf[command[r]] = IF command[r] = "pool" THEN "forwarder-untouched" ELSE "report-forwarder"
    BY DEF scopeOf
  <2>6. QED
    BY <2>2, <2>4, <2>5 DEF Integrity, ForwarderMayRefuse, ExpectedForwarderRecorded, MatchesDeclaration
<1>2. QED
  BY <1>1, InvariantHolds, PTL DEF EscapeHatchIsOpen, Spec

=============================================================================

\* Overlapping runs of the commands that write the record, and every command on its own.
SPECIFICATION Spec
CONSTANTS
  Runs = {r1, r2, r3}
  p0 = p0
  foreign = foreign
  fresh = fresh
  f0 = f0
  impostor = impostor
  f1 = f1
  fresh2 = fresh2
  f2 = f2
  deposits = deposits
  otherDeposits = otherDeposits
  predeploy = predeploy
  nowhere = nowhere
  None = None
  chainId = 1
  SystemCode <- SystemCodes
  canonical <- Pin
  MAX_MASKED_IMMUTABLE_BYTES = 3
  Pools <- AllPools
  Forwarders <- AllForwarders
  initialPools <- PoolsAtFirst
  initialForwarders <- ForwardersAtFirst
  StrayRecords <- Strays
  Environments <- Given
  poolBuild <- PoolBuild
  forwarderBuild <- ForwarderBuild
  ForeignCode <- Foreign
SYMMETRY Alike
CONSTRAINTS
  OnlyPlainRunsOverlap
  FewStrayRecords
INVARIANTS
  WrittenRecordsAreCoherent
  DeclaredPoolStays
  ActsOnCheckedContracts
  DeclaredForwarderIsNotIgnored
PROPERTIES
  EscapeHatchIsOpen
CHECK_DEADLOCK FALSE

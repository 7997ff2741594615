\* Two runs of the commands that move the pool, beside the operator's other runs.
SPECIFICATION OperatorSpec
CONSTANTS
  op = op
  alice = alice
  first = first
  second = second
  ours = ours
  theirs = theirs
  v1 = v1
  v2 = v2
  genesis = genesis
  otherGenesis = otherGenesis
  Malformed = Malformed
  Unset = Unset
  NoSigner = NoSigner
  NoChain = NoChain
  MAX_SAFE_INTEGER = 5
  Runs <- TwoRuns
  Connections <- Connecteds
  Keys <- ParticipantKey
  DepositInputs <- Inputs
  OperatorsFiles <- CommittedByOtherMeans
  chain <- Chain
  forkVersionPin = Unset
  withdrawalCredentials = ours
  Accounts <- TwoAccounts
  operator = op
  Pool = Pool
  ZeroAddress = ZeroAddress
  PREDEPOSIT_WEI = 1
  TOP_UP_WEI = 4
  VALIDATOR_DEPOSIT_WEI = 5
  MAX_PARTICIPANTS = 2
  fundingWindowDuration = 1
  ParticipantLists <- Lists
  TargetLists <- Targets
  Amounts = {2}
  ExitFees = {}
  MaxTime = 4
  MaxAttempts = 2
  MaxProceeds = 0
  MaxExits = 0
  MaxDepth = 1
SYMMETRY RunsAreAlike
CONSTRAINTS
  OnlyPlainRunsOverlap
  OneRunOnUnsoundData
INVARIANTS
  OperatorVerdictsAreRight
  OneReportPerStep
  IrreversibleStepsAreSound
  FundedCommitmentsAreSound
  RunsSignAsDeclared
CHECK_DEADLOCK FALSE

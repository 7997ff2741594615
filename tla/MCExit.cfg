\* The operator and a participant ask for an exit, with and without the preflight.
SPECIFICATION ExitSpec
CONSTANTS
  op = op
  alice = alice
  Runners <- TwoAccounts
  Caps = {1}
  SLOTS_PER_EPOCH = 2
  SHARD_COMMITTEE_PERIOD = 1
  FAR_FUTURE_EPOCH = 99
  Accounts <- TwoAccounts
  operator = op
  Pool = Pool
  ZeroAddress = ZeroAddress
  PREDEPOSIT_WEI = 1
  TOP_UP_WEI = 1
  VALIDATOR_DEPOSIT_WEI = 2
  MAX_PARTICIPANTS = 2
  fundingWindowDuration = 1
  ParticipantLists <- Lists
  TargetLists <- Targets
  Amounts = {1}
  ExitFees = {1, 2, 3}
  MaxTime = 5
  MaxAttempts = 1
  MaxProceeds = 0
  MaxExits = 2
  MaxDepth = 1
CONSTRAINT OnlyPlainRunsOverlap
INVARIANTS
  CheckedRequestsAreNotLost
  OnlyAFeeSpikeReverts
CHECK_DEADLOCK FALSE

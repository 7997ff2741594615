\* One run of the command among every other use of the pool.
SPECIFICATION SweepSpec
CONSTANTS
  op = op
  fwd = fwd
  forwarder = fwd
  Accounts <- PoolAndForwarder
  operator = op
  Pool = Pool
  ZeroAddress = ZeroAddress
  PREDEPOSIT_WEI = 1
  TOP_UP_WEI = 1
  VALIDATOR_DEPOSIT_WEI = 2
  MAX_PARTICIPANTS = 2
  fundingWindowDuration = 1
  ParticipantLists <- Lists
  TargetLists <- Targets
  Amounts = {1}
  ExitFees = {0}
  MaxTime = 4
  MaxAttempts = 2
  MaxProceeds = 3
  MaxExits = 1
  MaxDepth = 1
  MaxRewards = 2
INVARIANTS
  NoFalseShortfall
  ShortSweepWasShared
CHECK_DEADLOCK FALSE

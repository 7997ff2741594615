\* Two runs for one participant, or one run with any recipient and either device.
SPECIFICATION PayoutSpec
CONSTANTS
  op = op
  alice = alice
  first = first
  second = second
  Runs <- TwoRuns
  participant = alice
  Keys <- EitherKey
  RecipientChoices <- SelfOtherPool
  Accounts <- TwoAccounts
  operator = op
  Pool = Pool
  ZeroAddress = ZeroAddress
  PREDEPOSIT_WEI = 1
  TOP_UP_WEI = 3
  VALIDATOR_DEPOSIT_WEI = 4
  MAX_PARTICIPANTS = 2
  fundingWindowDuration = 1
  ParticipantLists <- Lists
  TargetLists <- Targets
  Amounts = {1, 2}
  ExitFees = {}
  MaxTime = 4
  MaxAttempts = 2
  MaxProceeds = 6
  MaxExits = 0
  MaxDepth = 1
SYMMETRY RunsAreAlike
CONSTRAINT OnlyPlainRunsOverlap
INVARIANTS
  PayoutVerdictsAreRight
  ShortPayoutsHaveACause
CHECK_DEADLOCK FALSE

\* Two runs for one signer, or one run with either way to pay and either device.
SPECIFICATION CommandSpec
CONSTANTS
  op = op
  alice = alice
  first = first
  second = second
  Runs <- TwoRuns
  funder = alice
  Keys <- EitherKey
  Inputs = {"empty", "fund()"}
  Pins <- SomePins
  Accounts <- TwoAccounts
  operator = op
  Pool = Pool
  ZeroAddress = ZeroAddress
  PREDEPOSIT_WEI = 1
  TOP_UP_WEI = 3
  VALIDATOR_DEPOSIT_WEI = 4
  MAX_PARTICIPANTS = 2
  fundingWindowDuration = 1
  ParticipantLists <- Lists
  TargetLists <- Targets
  Amounts = {1, 3}
  ExitFees = {}
  MaxTime = 4
  MaxAttempts = 2
  MaxProceeds = 4
  MaxExits = 0
  MaxDepth = 1
SYMMETRY RunsAreAlike
CONSTRAINT OnlyPlainRunsOverlap
INVARIANTS
  VerdictsAreRight
  ReportedFundingIsHeld
  DonationsHaveTwoCauses
  SignedReviewIsOfOneAttempt
  DeclaredTermsAreFunded
CHECK_DEADLOCK FALSE

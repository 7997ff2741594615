\* One run: is the attempt it reviewed the one it funds?
SPECIFICATION CommandSpec
CONSTANTS
  op = op
  alice = alice
  first = first
  second = second
  Runs <- OneRun
  funder = alice
  Keys <- FunderKey
  Inputs = {"empty", "fund()"}
  Pins <- Unpinned
  Accounts <- TwoAccounts
  operator = op
  Pool = Pool
  ZeroAddress = ZeroAddress
  PREDEPOSIT_WEI = 1
  TOP_UP_WEI = 3
  VALIDATOR_DEPOSIT_WEI = 4
  MAX_PARTICIPANTS = 2
  fundingWindowDuration = 1
  ParticipantLists <- Lists
  TargetLists <- Targets
  Amounts = {1, 3}
  ExitFees = {}
  MaxTime = 4
  MaxAttempts = 2
  MaxProceeds = 4
  MaxExits = 0
  MaxDepth = 1
INVARIANTS
  FundedIsTheReviewedAttempt
CHECK_DEADLOCK FALSE

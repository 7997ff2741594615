\* Three accounts, lists of one to four participants with the pool among them, under fairness.
SPECIFICATION FairSpec
CONSTANTS
  op = op
  alice = alice
  bob = bob
  Accounts <- ThreeAccounts
  operator = op
  Pool = Pool
  ZeroAddress = ZeroAddress
  PREDEPOSIT_WEI = 1
  TOP_UP_WEI = 3
  VALIDATOR_DEPOSIT_WEI = 4
  MAX_PARTICIPANTS = 3
  fundingWindowDuration = 1
  ParticipantLists <- ThreeAccountLists
  TargetLists <- ThreeTargets
  Amounts = {1, 2}
  ExitFees = {1}
  MaxTime = 4
  MaxAttempts = 2
  MaxProceeds = 2
  MaxExits = 1
  MaxDepth = 1
PROPERTIES
  AttemptsEnd
  RefundsArePaid
  ClaimsArePaid
CHECK_DEADLOCK FALSE

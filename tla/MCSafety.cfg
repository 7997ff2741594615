\* Two accounts, two attempts, reentrant calls one deep beside the first.
SPECIFICATION Spec
CONSTANTS
  op = op
  alice = alice
  bob = bob
  Accounts <- TwoAccounts
  operator = op
  Pool = Pool
  ZeroAddress = ZeroAddress
  PREDEPOSIT_WEI = 1
  TOP_UP_WEI = 3
  VALIDATOR_DEPOSIT_WEI = 4
  MAX_PARTICIPANTS = 3
  fundingWindowDuration = 1
  ParticipantLists <- TwoAccountLists
  TargetLists <- Targets
  Amounts = {0, 1, 2, 3}
  ExitFees = {0, 1}
  MaxTime = 5
  MaxAttempts = 2
  MaxProceeds = 3
  MaxExits = 1
  MaxDepth = 2
INVARIANTS
  TypeOK
  LedgersAddUp
  BalanceExplained
  Solvent
  ClaimsMatchShares
  CreditsAreBacked
  AttemptIsConsistent
  IInv
PROPERTIES
  RefundsPaidWhole
  ImplementsEscrow
CHECK_DEADLOCK FALSE

\* Four deposits: the pool's two, and two of others, before or between them.
SPECIFICATION Spec
CONSTANTS
  poolCredentials = poolCredentials
  foreignCredentials = foreignCredentials
  PREDEPOSIT_GWEI = 1
  TOP_UP_GWEI = 3
  ForeignAmounts = {1, 3}
  MaxDeposits = 4
INVARIANTS
  TopUpIsThePools
  PredepositAvoidsKnownValidator
  NothingUnseenIsSigned
CHECK_DEADLOCK FALSE

\* Base fees from the floor of 7 wei up; gas from far below to above the ceiling.
SPECIFICATION Spec
CONSTANTS
  Costs = {20, 1620, 1700, 1942, 1960}
  HashGas = 2
  BaseFees = {7, 8, 15, 64}
  Tips = {0, 1, 100}
  GasLimits = {2048, 3080}
  DepositCounts = {2, 6}
  MaxBlocks = 3
  MaxDeposits = 5
INVARIANTS
  CapOutlastsFullBlocks
  SignedFieldsAreValid
  OutOfGasHasACause
CHECK_DEADLOCK FALSE

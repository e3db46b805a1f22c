CONSTANTS
  Validator = {v1, v2, v3}
  alice = alice
  bob = bob
  NoRecord = NoRecord
  ExecutionLimits = {2, 3}
  NewExecutionLimits = {2, 3}
  SpendLimits = {1, 2, 3}
  NewSpendLimits = {1}
  Affirmation <- ThreeDeposits
  Withdrawal <- OneWithdrawal
  Unlock <- OneUnlock
  MaxRequests = 2
SYMMETRY ValidatorSymmetry
SPECIFICATION MCSpec
INVARIANT ExecutedOrRecorded

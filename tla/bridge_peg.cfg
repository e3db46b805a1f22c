CONSTANTS
  Validator = {v1, v2}
  alice = alice
  bob = bob
  NoRecord = NoRecord
  ExecutionLimits = {2, 3}
  NewExecutionLimits = {}
  SpendLimits = {1, 2, 3}
  NewSpendLimits = {}
  Affirmation <- OneDeposit
  Withdrawal <- OneWithdrawal
  Unlock <- OneUnlock
  MaxRequests = 1
  ForeignBridgeAddress = "bridge"
  Versions = {"V3"}
  Refused = {bob}
  FallbackRecipients = {fallback}
  NoRecipient = NoRecipient
  TokenFailure = "false"
  MaxDeposits = 2
  ForeignExecutionLimits = {2, 3}
  NewForeignExecutionLimits = {}
SYMMETRY ValidatorSymmetry
SPECIFICATION TokenBridgeSpec
INVARIANT Backed
PROPERTY IsTwoWayPeg

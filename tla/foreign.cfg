CONSTANTS
  Validator = {v1, v2}
  alice = alice
  bob = bob
  NoRecipient = NoRecipient
  Versions = {"ErcToErc", "V2", "V3", "Native", "ERC677ToNative", "Erc677ToErc677"}
  RelayMessage <- FourRequests
  ThisBridge = "bridge"
  Deposit <- OneDeposit
  MaxDeposits = 2
  Refused = {bob}
  FallbackRecipients = {fallback, bob}
  TokenFailure = "revert"
  ExecutionLimits = {2, 3}
  NewExecutionLimits = {2, 3}
SYMMETRY ValidatorSymmetry
SPECIFICATION ForeignSpec
INVARIANTS PaidOncePerTransaction RelayedIsPaid BalanceMatchesPayments
PROPERTIES PaymentNeedsQuorum ExecutedWithinDailyLimit

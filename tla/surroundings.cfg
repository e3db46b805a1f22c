SPECIFICATION SurroundingsSpec
CONSTANTS
  \* fees
  ExecutionLimits = {3, 4}
  NewExecutionLimits = {}
  SpendLimits = {1, 3, 4}
  NewSpendLimits = {}
  Operator = {bridge, coMinter}
  thunderBridge = bridge
  coMinter = coMinter
  MinterLimits = {0, 2}
  Width = 8
  Kinds = {"ErcToErc", "WithFee", "WithFeeV2", "Erc677ToErc677", "Native"}
  user = user
  wallet = wallet
  receiver = receiver
  nobody = nobody
  FeeValidators <- MCFeeValidators
  Amounts = {2, 3}
  FeeSettings <- MCFeeSettings
  FixedFees = {1}
  FeePercents = {5000}
  Pool = 3
  MaxExecuted = 5
  MaxCoMinted = 2
  MaxOwnerCalls = 1
  \* token
  holder = holder
  bridges = {bridge1}
  otherContract = otherContract
  tokenContract = tokenContract
  FundingRules <- MCFundingRules
  MaxSupply = 1
  MaxBlockNumber = 4
  MaxCoins = 2
  \* deployment
  Settings <- MCSettings
  FollowUps = {"upgradeFees", "minterProxy", "upgradeBridge", "upgradeHomeToken", "upgradeForeignToken"}
  MaxAborts = 1
  \* ui
  Tokens = {"TT", "USDT"}
  FirstToken = "TT"
  WithoutEvents <- MCWithoutEvents
  MaxTransfers = 2
  MaxSwitches = 1
  MaxAccounts = 1
  MaxDisturbances = 1
  \* monitor
  Calls = {c1, c2}
  QueryRange = 1
  MaxBlock = 3
  MaxKills = 1
  \* requests
  Request = {request1, request2}
  UrlCount = 3
  MaxRetries = 1
  MaxSent = 3
  \* gas price
  OraclePrices = {0, 2, 4, 6}
  ContractPrices = {3, 7}
  FallbackPrice = 2
  FixedPrice = 9
  MinGasPrice = 1
  maxGasPriceLimit = 5
  DefaultBump = 2
  MaxSpeed = 5
INVARIANTS
  FeesAddUp
  
  MinterSupplyExact
  HandedOverIsInitialized
  WrittenIsComplete
  OneAtATime
  SentMatchesBridge
  
  FundedPerWindow
  EveryUrlTried
  RisesToTheLimit
PROPERTIES
  OverlayEnds
CHECK_DEADLOCK FALSE

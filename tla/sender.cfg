CONSTANTS
  Event = {e1, e2}
  Handler = {h1, h2}
  Nobody = Nobody
  Abandoned = Abandoned
  MaxNonce = 3
  Price = {1, 2}
  Faults <- AnyFault
  MaxFaults = 1
  SelfTransfer = SelfTransfer
  NoNonce = NoNonce
  NoTx = NoTx
  NoTask = NoTask
SPECIFICATION FairSenderSpec
INVARIANTS   NoncesFilled
PROPERTIES CacheNeverRewinds 
CHECK_DEADLOCK FALSE

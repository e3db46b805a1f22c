CONSTANTS
  Event = {e1, e2}
  Handler = {h1}
  Nobody = Nobody
  Abandoned = Abandoned
  MaxNonce = 3
  Price = {1, 2}
  Faults = {"drop", "gasLimit"}
  MaxFaults = 2
  SelfTransfer = SelfTransfer
  NoNonce = NoNonce
  NoTx = NoTx
  NoTask = NoTask
SPECIFICATION FairSenderSpec
PROPERTY RetriedNonceFilled
CHECK_DEADLOCK FALSE

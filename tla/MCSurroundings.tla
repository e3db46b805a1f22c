--------------------------- MODULE MCSurroundings ---------------------------
(* The parts around the bridge that share no state with each other: the    *)
(* fees, the token, the deployment scripts, the UI, the monitor, and two   *)
(* services of the validators: requests to nodes and the gas price.  A     *)
(* behaviour is about one of them, its subject; the others stay where they *)
(* began.  Three validators; a fee that does not divide by three; the five *)
(* settings hold every mode of deploy.js, both kinds of owner and admin,   *)
(* and every fee.                                                          *)
EXTENDS FeeBridge, BridgedToken, Deployment, TransferUI, Monitor, RpcRequests, GasPrice

VARIABLE subject

MCFeeValidators == <<"v1", "v2", "v3">>
MCFeeSettings ==
  {[withdrawFixed |-> 0, withdrawPercent |-> 5000, depositFixed |-> 2, depositPercent |-> 5000,
    split |-> 5000]}

MCSetting(mode, tokenGiven, admin, owner, feesGiven) ==
  [mode |-> mode, tokenGiven |-> tokenGiven, admin |-> admin, owner |-> owner, fees |-> feesGiven]
MCSettings ==
  {MCSetting("ERC_TO_NATIVE", FALSE, "admin", "deployer", {"setFeeReceiver"}),
   MCSetting("NATIVE_TO_ERC", FALSE, "admin", "owner", {}),
   MCSetting("ERC_TO_ERC", FALSE, "deployer", "deployer", {"setWithdrawFeePercent", "setDepositFixedFee"}),
   MCSetting("ERC677_TO_ERC677", TRUE, "admin", "deployer", {"setWithdrawFixedFee"}),
   MCSetting("ERC677_TO_ERC677", FALSE, "admin", "owner", {"setDepositFeePercent"})}

(* The environment of a UI that waits for events of the home chain only.   *)
MCWithoutEvents == [home |-> FALSE, foreign |-> TRUE]

MCRules(periodLength, maxPeriodFunds, threshold, amount) ==
  [periodLength |-> periodLength, maxPeriodFunds |-> maxPeriodFunds, threshold |-> threshold,
   amount |-> amount]
MCFundingRules == {MCRules(1, 1, 1, 1), MCRules(2, 2, 2, 1)}

SurroundingsInit ==
  /\ subject \in {"fees", "token", "deployment", "ui", "monitor", "requests", "gasPrice"}
  /\ FeeBridgeInit
  /\ subject # "fees" => kind = "ErcToErc" /\ feeReceiver = receiver /\ tokenVersion = "multi"
  /\ BridgedTokenInit
  /\ subject # "token" => code = "multi"
  /\ DeploymentInit
  /\ subject # "deployment" => setting.mode = "ERC_TO_ERC"
  /\ TransferUIInit
  /\ subject # "ui" => network = "home"
  /\ MonitorInit /\ RpcInit /\ GasPriceInit

contractVars == <<feeBridgeVars, tokenVars, deploymentVars>>
serviceVars == <<uiVars, monitorVars, rpcVars, cachedGasPrice>>
allSurroundings == <<subject, contractVars, serviceVars>>

FeesStep == subject = "fees" /\ FeeBridgeNext /\ UNCHANGED <<tokenVars, deploymentVars, serviceVars>>
TokenStep == subject = "token" /\ BridgedTokenNext /\ UNCHANGED <<feeBridgeVars, deploymentVars, serviceVars>>
DeploymentStep == subject = "deployment" /\ DeploymentNext /\ UNCHANGED <<feeBridgeVars, tokenVars, serviceVars>>
UIStep ==
  subject = "ui" /\ TransferUINext /\ UNCHANGED <<contractVars, monitorVars, rpcVars, cachedGasPrice>>
MonitorStep ==
  subject = "monitor" /\ MonitorNext /\ UNCHANGED <<contractVars, uiVars, rpcVars, cachedGasPrice>>
RequestsStep ==
  subject = "requests" /\ RpcNext /\ UNCHANGED <<contractVars, uiVars, monitorVars, cachedGasPrice>>
GasPriceStep ==
  subject = "gasPrice" /\ GasPriceNext /\ UNCHANGED <<contractVars, uiVars, monitorVars, rpcVars>>

SurroundingsNext ==
  /\ UNCHANGED subject
  /\ \/ FeesStep \/ TokenStep \/ DeploymentStep
     \/ UIStep \/ MonitorStep \/ RequestsStep \/ GasPriceStep

(* Only the behaviours about the UI are to be fair.                         *)
SurroundingsSpec ==
  /\ SurroundingsInit /\ [][SurroundingsNext]_allSurroundings
  /\ (subject = "ui" => TransferUIFairness)
=============================================================================

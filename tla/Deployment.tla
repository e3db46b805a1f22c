----------------------------- MODULE Deployment -----------------------------
(***************************************************************************)
(* The scripts of contracts/deploy.  A script is a sequence of steps; each *)
(* sends one transaction with a nonce the script counts itself and asks    *)
(* for the receipt until there is one.  Whatever goes wrong ends it, the   *)
(* transaction it waited for may still be mined, and a new run deploys     *)
(* everything anew.  The address of a contract is its place in the list of *)
(* the transactions of its chain.                                          *)
(***************************************************************************)
EXTENDS Naturals, Sequences, FiniteSets

CONSTANTS
  Settings,    \* the environments of the scripts, see SettingType
  FollowUps,   \* the scripts that may run on what is deployed
  MaxAborts    \* bound: how often a script fails

Mode == {"ERC_TO_NATIVE", "NATIVE_TO_ERC", "ERC_TO_ERC", "ERC677_TO_ERC677"}
Chain == {"home", "foreign"}
FeeSetting == {"setFeeReceiver", "setWithdrawFeePercent", "setWithdrawFixedFee",
               "setDepositFeePercent", "setDepositFixedFee"}

SettingType ==
  [mode : Mode, tokenGiven : BOOLEAN,
   admin : {"deployer", "admin"},        \* ..._UPGRADEABLE_ADMIN
   owner : {"deployer", "owner"},        \* ..._BRIDGE_OWNER
   fees : SUBSET FeeSetting]

UpgradeScript == {"upgradeFees", "minterProxy", "upgradeBridge", "upgradeHomeToken",
                  "upgradeForeignToken"}

ASSUME DeploymentAssumption ==
  Settings \subseteq SettingType /\ FollowUps \subseteq UpgradeScript /\ MaxAborts \in Nat

VARIABLES
  setting,
  ledger,      \* per chain, the mined transactions: [tx, ok, contract]
  pool,        \* per chain, transactions that are not mined
  script,      \* what runs, or "none"
  todo,        \* its remaining steps
  nonce,       \* its count
  awaited,     \* the transaction it waits for, or NoTx
  memory,      \* per chain, the addresses it knows
  written,     \* data/deployed.json
  aborts, followUps

chainState == <<ledger, pool>>
scriptState == <<script, todo, nonce, awaited, memory>>
deploymentVars == <<setting, chainState, scriptState, written, aborts, followUps>>

Role == {"validators", "validatorsImpl", "bridge", "bridgeImpl", "tokenImpl", "token", "erc20",
         "newBridgeImpl", "newTokenImpl", "minterImpl", "minter"}
Proxies == {"validators", "bridge", "token", "minter"}
Nowhere == 0
Given == 99          \* the address of a token that was there before
NoTx == [from |-> "none", nonce |-> 0, op |-> "none", role |-> "none", to |-> Nowhere, args |-> <<>>]
NoContract == [kind |-> "none", impl |-> Nowhere, proxyOwner |-> "none", owner |-> "none", calls |-> {}]
NoFile == [homeBridge |-> Nowhere, homeToken |-> Nowhere, foreignBridge |-> Nowhere, foreignToken |-> Nowhere]
NoMemory == [c \in Chain |-> [r \in Role |-> Nowhere]]

DeploymentInit ==
  /\ setting \in Settings
  /\ ledger = [c \in Chain |-> <<>>]
  /\ pool = [c \in Chain |-> {}]
  /\ script = "none" /\ todo = <<>> /\ nonce = 0 /\ awaited = NoTx
  /\ memory = NoMemory
  /\ written = NoFile
  /\ aborts = 0 /\ followUps = 0

-----------------------------------------------------------------------------
(* The scripts *)

Step(chain, op, role) ==
  [chain |-> chain, op |-> op, role |-> role, from |-> "deployer", count |-> "next"]

(* The nonce is the number of mined transactions, and counted on from here.*)
Counted(steps) ==
  IF steps = <<>> THEN steps ELSE <<[Head(steps) EXCEPT !.count = "read"]>> \o Tail(steps)

(* The nonce is asked for once, next to a count of the script.             *)
Alone(step, account) == [step EXCEPT !.from = account, !.count = "aside"]

OnlyIf(condition, steps) == IF condition THEN steps ELSE <<>>

(* Mutant of ProxySteps: the proxy is handed over before it is initialized.*)
ProxyStepsHandingOverFirst(chain, role, impl) ==
  <<Step(chain, "deploy", role), Step(chain, "deploy", impl),
    Step(chain, "upgradeTo", role), Step(chain, "handOver", role),
    Step(chain, "initialize", role)>>

ProxySteps(chain, role, impl) ==
  <<Step(chain, "deploy", role), Step(chain, "deploy", impl),
    Step(chain, "upgradeTo", role), Step(chain, "initialize", role),
    Step(chain, "handOver", role)>>

(* The token is another contract between the bridge and its initialize.    *)
TokenSteps(chain) ==
  <<Step(chain, "deploy", "tokenImpl"), Step(chain, "initialize", "tokenImpl"),
    Step(chain, "deploy", "token"), Step(chain, "setBridgeContract", "token"),
    Step(chain, "addBridgeContract", "token"), Step(chain, "transferOwnership", "token")>>

Around(first, steps, inner) == SubSeq(steps, 1, first) \o inner \o SubSeq(steps, first + 1, Len(steps))

HomeValidatorSteps == ProxySteps("home", "validators", "validatorsImpl")
HomeTokenSteps ==
  OnlyIf(setting.mode \in {"NATIVE_TO_ERC", "ERC_TO_ERC"}
           \/ (setting.mode = "ERC677_TO_ERC677" /\ ~setting.tokenGiven),
         TokenSteps("home"))
HomeBridgeSteps == Around(3, ProxySteps("home", "bridge", "bridgeImpl"), HomeTokenSteps)

FeeStep(f) == OnlyIf(f \in setting.fees, <<Step("home", f, "bridge")>>)
FeeSteps ==
  Counted(FeeStep("setFeeReceiver") \o FeeStep("setWithdrawFeePercent")
          \o FeeStep("setWithdrawFixedFee") \o FeeStep("setDepositFeePercent")
          \o FeeStep("setDepositFixedFee"))

HomeSteps == Counted(HomeValidatorSteps \o HomeBridgeSteps) \o FeeSteps

ForeignValidatorSteps == ProxySteps("foreign", "validators", "validatorsImpl")
ForeignTokenSteps ==
  OnlyIf(setting.mode \in {"ERC_TO_NATIVE", "ERC677_TO_ERC677"}, TokenSteps("foreign"))
ForeignBridgeSteps == Around(3, ProxySteps("foreign", "bridge", "bridgeImpl"), ForeignTokenSteps)
ForeignSteps == Counted(ForeignValidatorSteps \o ForeignBridgeSteps)

Erc20Steps ==
  OnlyIf(setting.mode = "ERC_TO_ERC" /\ ~setting.tokenGiven,
         Counted(<<Step("foreign", "deploy", "erc20"), Step("foreign", "mint", "erc20")>>))

UpgradeFeesSteps ==
  <<Alone(Step("home", "deploy", "newBridgeImpl"), "deployer"), Step("home", "upgradeTo", "bridge")>>
    \o FeeSteps

MinterProxySteps == Counted(<<Step("home", "deploy", "minterImpl"), Step("home", "deploy", "minter")>>)

UpgradeBridgeSteps ==
  OnlyIf(setting.mode \in {"ERC_TO_NATIVE", "ERC677_TO_ERC677"},
         <<Alone(Step("foreign", "deploy", "newBridgeImpl"), "deployer"),
           Alone(Step("foreign", "upgradeTo", "bridge"), setting.admin)>>)

UpgradeTokenSteps(chain) ==
  <<Alone(Step(chain, "deploy", "newTokenImpl"), "deployer")>>
    \o OnlyIf(chain # "home" \/ setting.mode # "ERC677_TO_ERC677",
              <<Alone(Step(chain, "initialize", "newTokenImpl"), "deployer")>>)
    \o <<Alone(Step(chain, "upgradeTo", "token"), setting.admin),
         Alone(Step(chain, "callToken", "bridge"), setting.owner)>>

StepsOf(s) ==
  CASE s = "deploy" -> Erc20Steps \o HomeSteps \o ForeignSteps
    [] s = "upgradeFees" -> UpgradeFeesSteps
    [] s = "minterProxy" -> MinterProxySteps
    [] s = "upgradeBridge" -> UpgradeBridgeSteps
    [] s = "upgradeHomeToken" -> OnlyIf(HomeTokenSteps # <<>>, UpgradeTokenSteps("home"))
    [] s = "upgradeForeignToken" -> OnlyIf(ForeignTokenSteps # <<>>, UpgradeTokenSteps("foreign"))

-----------------------------------------------------------------------------
(* A transaction *)

ContractAt(c, a) == IF a \in DOMAIN ledger[c] THEN ledger[c][a].contract ELSE NoContract
CountOf(c, account) == Cardinality({a \in DOMAIN ledger[c] : ledger[c][a].tx.from = account})

TokenOf(c) ==
  CASE setting.mode = "ERC677_TO_ERC677" /\ c = "home" /\ setting.tokenGiven -> Given
    [] setting.mode = "ERC_TO_ERC" /\ c = "foreign" ->
         IF setting.tokenGiven THEN Given ELSE memory[c]["erc20"]
    [] setting.mode = "ERC_TO_NATIVE" /\ c = "home" -> Nowhere
    [] setting.mode = "NATIVE_TO_ERC" /\ c = "foreign" -> memory[c]["bridge"]
    [] OTHER -> memory[c]["token"]

UpgradeTarget(c, role) ==
  CASE role = "validators" -> memory[c]["validatorsImpl"]
    [] role = "token" -> memory[c]["newTokenImpl"]
    [] OTHER -> IF memory[c]["newBridgeImpl"] # Nowhere THEN memory[c]["newBridgeImpl"]
                ELSE memory[c]["bridgeImpl"]

(* The addresses a transaction carries.                                    *)
ArgumentsOf(step) ==
  LET known == memory[step.chain]
  IN  CASE step.op = "upgradeTo" -> <<UpgradeTarget(step.chain, step.role)>>
        [] step.op = "initialize" /\ step.role = "bridge" -> <<known["validators"], TokenOf(step.chain)>>
        [] step.op = "deploy" /\ step.role = "token" -> <<known["tokenImpl"]>>
        [] step.op = "deploy" /\ step.role = "minter" -> <<known["minterImpl"], TokenOf(step.chain), known["bridge"]>>
        [] step.op \in {"setBridgeContract", "addBridgeContract", "transferOwnership"} -> <<known["bridge"]>>
        [] step.op = "callToken" -> <<known["token"]>>
        [] OTHER -> <<>>

NonceFor(step) == IF step.count = "next" THEN nonce ELSE CountOf(step.chain, step.from)

TxOf(step) ==
  [from |-> step.from, nonce |-> NonceFor(step), op |-> step.op, role |-> step.role,
   to |-> IF step.op = "deploy" THEN Nowhere ELSE memory[step.chain][step.role],
   args |-> ArgumentsOf(step)]

Initialized(contract) == \E call \in contract.calls : call[1] = "initialize"

(* What the contracts require of their callers.                            *)
Succeeds(c, tx) ==
  LET target == ContractAt(c, tx.to)
  IN  CASE tx.op = "deploy" -> TRUE
        [] tx.op = "upgradeTo" -> target.proxyOwner = tx.from /\ target.impl # tx.args[1]
        [] tx.op = "handOver" -> target.proxyOwner = tx.from
        [] tx.op = "initialize" ->
             /\ tx.role \in Proxies => target.impl # Nowhere
             /\ ~Initialized(target)
             /\ tx.role = "bridge" => ContractAt(c, tx.args[1]) # NoContract
        [] tx.op = "callToken" ->
             /\ target.owner = tx.from
             /\ IF c = "home" THEN setting.mode = "ERC677_TO_ERC677"
                ELSE ContractAt(c, target.impl).kind = "newBridgeImpl"
             /\ ContractAt(c, tx.args[1]).owner = "bridge"
        [] OTHER -> Initialized(target) /\ target.owner = tx.from

Constructed(tx) ==
  CASE tx.role \in {"validators", "bridge"} -> [NoContract EXCEPT !.kind = tx.role, !.proxyOwner = tx.from]
    [] tx.role \in {"token", "minter"} ->
         [kind |-> tx.role, impl |-> tx.args[1], proxyOwner |-> setting.admin, owner |-> tx.from,
          calls |-> {<<"initialize", tx.args>>}]
    [] tx.role = "erc20" ->
         [NoContract EXCEPT !.kind = "erc20", !.owner = tx.from, !.calls = {<<"initialize", <<>>>>}]
    [] OTHER -> [NoContract EXCEPT !.kind = tx.role]

Called(contract, tx) ==
  CASE tx.op = "upgradeTo" -> [contract EXCEPT !.impl = tx.args[1]]
    [] tx.op = "handOver" -> [contract EXCEPT !.proxyOwner = setting.admin]
    [] tx.op = "initialize" ->
         [contract EXCEPT !.calls = @ \cup {<<"initialize", tx.args>>},
                          !.owner = IF tx.role = "bridge" THEN setting.owner ELSE tx.from]
    [] tx.op = "transferOwnership" ->
         [contract EXCEPT !.calls = @ \cup {<<tx.op, tx.args>>}, !.owner = "bridge"]
    [] tx.op = "callToken" -> contract
    [] OTHER -> [contract EXCEPT !.calls = @ \cup {<<tx.op, tx.args>>}]

(* The next transaction of an account is mined.                            *)
MineTx(c, tx) ==
  /\ tx \in pool[c] /\ tx.nonce = CountOf(c, tx.from)
  /\ pool' = [pool EXCEPT ![c] = @ \ {tx}]
  /\ LET ok    == Succeeds(c, tx)
         entry == [tx |-> tx, ok |-> ok,
                   contract |-> IF tx.op = "deploy" THEN Constructed(tx) ELSE NoContract]
         called == IF ok /\ tx.to \in DOMAIN ledger[c]
                   THEN [ledger[c] EXCEPT ![tx.to].contract = Called(@, tx)] ELSE ledger[c]
     IN  ledger' = [ledger EXCEPT ![c] = Append(called, entry)]
  /\ UNCHANGED <<setting, scriptState, written, aborts, followUps>>

-----------------------------------------------------------------------------
(* A run of a script *)

Begin(s) ==
  /\ script = "none"
  /\ \/ s = "deploy" /\ written = NoFile /\ memory' = NoMemory /\ UNCHANGED followUps
     \/ /\ s \in FollowUps /\ written # NoFile /\ StepsOf(s) # <<>>
        /\ followUps = 0 /\ followUps' = 1
        /\ memory' = [c \in Chain |-> [NoMemory[c] EXCEPT
             !["bridge"] = IF c = "home" THEN written.homeBridge ELSE written.foreignBridge,
             !["token"] = IF c = "home" THEN written.homeToken ELSE written.foreignToken]]
  /\ script' = s
  /\ todo' = StepsOf(s)
  /\ nonce' = CountOf("home", "deployer")
  /\ awaited' = NoTx
  /\ UNCHANGED <<setting, chainState, written, aborts>>

(* A node takes no second transaction for a nonce; some take the same one  *)
(* again.  The later scripts estimate first, which fails when it reverts.  *)
SendTx ==
  /\ script # "none" /\ todo # <<>> /\ awaited = NoTx
  /\ LET step == Head(todo)
         tx   == TxOf(step)
     IN  /\ step.count = "aside" => Succeeds(step.chain, tx)
         /\ tx.nonce >= CountOf(step.chain, tx.from)
         /\ \A other \in pool[step.chain] :
              other.from = tx.from /\ other.nonce = tx.nonce => other = tx
         /\ pool' = [pool EXCEPT ![step.chain] = @ \cup {tx}]
         /\ awaited' = tx
         /\ nonce' = IF step.count = "aside" THEN nonce ELSE tx.nonce
  /\ UNCHANGED <<setting, ledger, script, todo, memory, written, aborts, followUps>>

(* Mutant of GetReceipt: a transaction that failed is taken for done.      *)
GetAnyReceipt ==
  /\ awaited # NoTx
  /\ LET step == Head(todo)
     IN  \E a \in DOMAIN ledger[step.chain] :
           /\ ledger[step.chain][a].tx = awaited
           /\ memory' = IF step.op = "deploy" THEN [memory EXCEPT ![step.chain][step.role] = a]
                        ELSE memory
  /\ todo' = Tail(todo)
  /\ nonce' = nonce + 1
  /\ awaited' = NoTx
  /\ UNCHANGED <<setting, chainState, script, written, aborts, followUps>>

(* The receipt is there and says 1: on to the next step.                   *)
GetReceipt ==
  /\ awaited # NoTx
  /\ LET step == Head(todo)
     IN  \E a \in DOMAIN ledger[step.chain] :
           /\ ledger[step.chain][a].tx = awaited /\ ledger[step.chain][a].ok
           /\ memory' = IF step.op = "deploy" THEN [memory EXCEPT ![step.chain][step.role] = a]
                        ELSE memory
  /\ todo' = Tail(todo)
  /\ nonce' = nonce + 1
  /\ awaited' = NoTx
  /\ UNCHANGED <<setting, chainState, script, written, aborts, followUps>>

HomeTokenWritten == IF setting.mode = "ERC_TO_NATIVE" THEN memory["home"]["bridge"] ELSE TokenOf("home")

Finish ==
  /\ script # "none" /\ todo = <<>>
  /\ script' = "none"
  /\ written' = IF script # "deploy" THEN written
       ELSE [homeBridge |-> memory["home"]["bridge"], homeToken |-> HomeTokenWritten,
             foreignBridge |-> memory["foreign"]["bridge"], foreignToken |-> TokenOf("foreign")]
  /\ memory' = NoMemory /\ nonce' = 0
  /\ UNCHANGED <<setting, chainState, todo, awaited, aborts, followUps>>

(* The node refuses, an answer is lost, the receipt says 0, or the process *)
(* dies: sendRawTx returns nothing, the assertion fails, the script ends.  *)
AbortScript ==
  /\ script # "none"
  /\ aborts < MaxAborts
  /\ aborts' = aborts + 1
  /\ script' = "none" /\ todo' = <<>> /\ nonce' = 0 /\ awaited' = NoTx /\ memory' = NoMemory
  /\ UNCHANGED <<setting, chainState, written, followUps>>

DeploymentNext ==
  \/ \E s \in FollowUps \cup {"deploy"} : Begin(s)
  \/ SendTx \/ GetReceipt \/ Finish \/ AbortScript
  \/ \E c \in Chain : \E tx \in pool[c] : MineTx(c, tx)

DeploymentSpec == DeploymentInit /\ [][DeploymentNext]_deploymentVars

-----------------------------------------------------------------------------
Usable(c, proxy, impls) ==
  ContractAt(c, proxy.impl).kind \in impls /\ Initialized(proxy)

(* Whatever run of a script ends where, and whatever it left behind is     *)
(* mined when, a proxy that belongs to the admin has its implementation    *)
(* and is initialized: nobody else can do it first.                        *)
HandedOverIsInitialized ==
  setting.admin = "admin" =>
    \A c \in Chain : \A a \in DOMAIN ledger[c] :
      LET proxy == ContractAt(c, a)
      IN  proxy.proxyOwner = "admin" =>
            Usable(c, proxy, CASE proxy.kind = "validators" -> {"validatorsImpl"}
                               [] proxy.kind = "bridge" -> {"bridgeImpl", "newBridgeImpl"}
                               [] proxy.kind = "token" -> {"tokenImpl", "newTokenImpl"}
                               [] proxy.kind = "minter" -> {"minterImpl"})

BridgeComplete(c, bridge, token) ==
  LET contract == ContractAt(c, bridge)
  IN  /\ contract.kind = "bridge" /\ contract.proxyOwner = setting.admin
      /\ Usable(c, contract, {"bridgeImpl", "newBridgeImpl"})
      /\ \E v \in DOMAIN ledger[c] :
           /\ <<"initialize", <<v, token>>>> \in contract.calls
           /\ ContractAt(c, v).kind = "validators" /\ Usable(c, ContractAt(c, v), {"validatorsImpl"})

TokenComplete(c, token, bridge) ==
  LET contract == ContractAt(c, token)
  IN  /\ contract.kind = "token"
      /\ \A op \in {"setBridgeContract", "addBridgeContract", "transferOwnership"} :
           <<op, <<bridge>>>> \in contract.calls

(* data/deployed.json names only what is complete: two bridges that are    *)
(* initialized with their own validators and token and belong to the       *)
(* admin, tokens registered with and owned by their bridge, the fees of    *)
(* the environment set; also when earlier runs failed in the middle and    *)
(* their transactions were mined later.                                    *)
WrittenIsComplete ==
  written # NoFile =>
    /\ BridgeComplete("home", written.homeBridge,
         IF setting.mode = "ERC_TO_NATIVE" THEN Nowhere ELSE written.homeToken)
    /\ BridgeComplete("foreign", written.foreignBridge, written.foreignToken)
    /\ HomeTokenSteps # <<>> => TokenComplete("home", written.homeToken, written.homeBridge)
    /\ ForeignTokenSteps # <<>> =>
         TokenComplete("foreign", written.foreignToken, written.foreignBridge)
    /\ \A f \in setting.fees : <<f, <<>>>> \in ContractAt("home", written.homeBridge).calls
=============================================================================

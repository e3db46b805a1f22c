---------------------------- MODULE BridgedToken ----------------------------
(***************************************************************************)
(* The bridged token, contracts/contracts/ERC677*.sol: what a transfer     *)
(* calls, and the coins it gives to receivers who have few of them.        *)
(*   "single"  ERC677BridgeToken and ERC677InitializableToken, which differ*)
(*             in how they are set up                                      *)
(*   "multi"   ERC677MultiBridgeToken, ERC677InitializableBridgeToken      *)
(***************************************************************************)
EXTENDS Integers, FiniteSets, Functions

CONSTANTS
  holder,              \* a person
  bridges,             \* bridge contracts: onTokenTransfer burns what it is given
  otherContract,       \* a contract without onTokenTransfer
  tokenContract,       \* the token itself
  FundingRules,        \* bound: the rules the owner sets
  MaxSupply, MaxBlockNumber, MaxCoins   \* bounds

ASSUME BridgedTokenAssumption ==
  /\ {holder, otherContract, tokenContract} \cap bridges = {}
  /\ FundingRules \subseteq [periodLength : Nat, maxPeriodFunds : Nat, threshold : Nat, amount : Nat]
  /\ {MaxSupply, MaxCoins} \subseteq Nat /\ MaxBlockNumber \in Nat \ {0}

VARIABLES
  code,                     \* "single" or "multi"
  holdings,
  registered,               \* bridgeContract, or validBridgeContract
  fundingRules, lastFundingPeriod, totalPeriodFundedAmount,
  blockNumber,
  coins,                    \* of holder and of the token
  fundedAt                  \* per block, what fundReceiver sent under these rules

holdingVars == <<code, holdings, registered>>
fundingVars == <<lastFundingPeriod, totalPeriodFundedAmount, coins, fundedAt>>
tokenVars == <<holdingVars, fundingRules, fundingVars, blockNumber>>

Receiver == {holder, otherContract, tokenContract} \cup bridges
Contract == Receiver \ {holder}

NoFunds == [b \in 0..MaxBlockNumber |-> 0]

BridgedTokenInit ==
  /\ code \in {"single", "multi"}
  /\ holdings = [r \in Receiver |-> 0]
  /\ registered = {}
  /\ fundingRules = [periodLength |-> 0, maxPeriodFunds |-> 0, threshold |-> 0, amount |-> 0]
  /\ lastFundingPeriod = 0 /\ totalPeriodFundedAmount = 0
  /\ blockNumber = 1
  /\ coins = [c \in {holder, tokenContract} |-> IF c = holder THEN 0 ELSE MaxCoins]
  /\ fundedAt = NoFunds

-----------------------------------------------------------------------------
(* Funding *)

PeriodOver == blockNumber > fundingRules.periodLength + lastFundingPeriod

(* Mutant of Spent: what was sent in the period is not counted.            *)
SpentNothing == 0

Spent == IF PeriodOver THEN 0 ELSE totalPeriodFundedAmount

(* fundReceiver.  The gas that send gives along is too little for the      *)
(* contracts here, which stay without: a send that fails changes nothing.  *)
FundReceiver(to) ==
  LET enough == fundingRules.amount + Spent <= fundingRules.maxPeriodFunds
      sent   == IF to = holder /\ coins[holder] < fundingRules.threshold /\ enough
                     /\ fundingRules.amount <= coins[tokenContract]
                THEN fundingRules.amount ELSE 0
  IN  /\ lastFundingPeriod' = IF PeriodOver THEN blockNumber ELSE lastFundingPeriod
      /\ totalPeriodFundedAmount' = Spent + sent
      /\ coins' = [coins EXCEPT ![holder] = @ + sent, ![tokenContract] = @ - sent]
      /\ fundedAt' = [fundedAt EXCEPT ![blockNumber] = @ + sent]

SetFundingRules(rules) ==
  /\ fundingRules' = rules
  /\ fundedAt' = NoFunds
  /\ UNCHANGED <<holdingVars, lastFundingPeriod, totalPeriodFundedAmount, coins, blockNumber>>

-----------------------------------------------------------------------------
(* Transfers *)

Calls677(to) == IF code = "single" THEN to \in Contract ELSE to \in registered

(* contractFallback: the bridge burns what it was given, or refuses; the   *)
(* token takes any call.                                                   *)
FallbackTaken(to) == to \in bridges \cup {tokenContract}

MovedTo(from, to, value) == [holdings EXCEPT ![from] = @ - value, ![to] = @ + value]
TakenBy(to, value) ==
  IF to \in bridges THEN [holdings EXCEPT ![holder] = @ - value] ELSE MovedTo(holder, to, value)

(* A call that fails reverts a transfer only when it is one to the bridge. *)
Transfer677(to, value) ==
  /\ holdings[holder] >= value
  /\ FundReceiver(to)
  /\ \/ ~Calls677(to) /\ holdings' = MovedTo(holder, to, value)
     \/ Calls677(to) /\ FallbackTaken(to) /\ holdings' = TakenBy(to, value)
     \/ /\ Calls677(to) /\ to \notin registered \cup {tokenContract}
        /\ holdings' = MovedTo(holder, to, value)
  /\ UNCHANGED <<code, registered, fundingRules, blockNumber>>

TransferAndCall(to, value) ==
  /\ holdings[holder] >= value
  /\ to # tokenContract
  /\ FundReceiver(to)
  /\ \/ ~Calls677(to) /\ holdings' = MovedTo(holder, to, value)
     \/ Calls677(to) /\ FallbackTaken(to) /\ holdings' = TakenBy(to, value)
  /\ UNCHANGED <<code, registered, fundingRules, blockNumber>>

Mint(to, amount) ==
  /\ SumFunction(holdings) + amount <= MaxSupply
  /\ FundReceiver(to)
  /\ holdings' = [holdings EXCEPT ![to] = @ + amount]
  /\ UNCHANGED <<code, registered, fundingRules, blockNumber>>

-----------------------------------------------------------------------------
(* The owner *)

(* setBridgeContract replaces, addBridgeContract adds.                     *)
RegisterBridge(c) ==
  /\ c \in Contract
  /\ registered' = IF code = "single" THEN {c} ELSE registered \cup {c}
  /\ UNCHANGED <<code, holdings, fundingRules, fundingVars, blockNumber>>

RemoveBridgeContract(c) ==
  /\ code = "multi" /\ registered' = registered \ {c}
  /\ UNCHANGED <<code, holdings, fundingRules, fundingVars, blockNumber>>

ClaimCoins ==
  /\ coins' = [coins EXCEPT ![tokenContract] = 0]
  /\ UNCHANGED <<holdingVars, fundingRules, lastFundingPeriod, totalPeriodFundedAmount, fundedAt, blockNumber>>

(* The token is asked to transfer what it holds of itself, to a person.    *)
ClaimOwnTokens ==
  /\ FundReceiver(holder)
  /\ holdings' = MovedTo(tokenContract, holder, holdings[tokenContract])
  /\ UNCHANGED <<code, registered, fundingRules, blockNumber>>

-----------------------------------------------------------------------------
(* Coins are spent and given to the token, blocks pass.                    *)
CoinsMove ==
  /\ \/ coins[holder] > 0 /\ coins' = [coins EXCEPT ![holder] = 0]
     \/ coins[tokenContract] < MaxCoins /\ coins' = [coins EXCEPT ![tokenContract] = MaxCoins]
  /\ UNCHANGED <<holdingVars, fundingRules, lastFundingPeriod, totalPeriodFundedAmount, fundedAt, blockNumber>>

NextBlockNumber ==
  /\ blockNumber < MaxBlockNumber /\ blockNumber' = blockNumber + 1
  /\ UNCHANGED <<holdingVars, fundingRules, fundingVars>>

BridgedTokenNext ==
  \/ \E to \in Receiver : Transfer677(to, 1) \/ TransferAndCall(to, 1)
  \/ Mint(holder, 1)
  \/ \E rules \in FundingRules : SetFundingRules(rules)
  \/ \E c \in bridges : RegisterBridge(c) \/ RemoveBridgeContract(c)
  \/ ClaimCoins \/ ClaimOwnTokens \/ CoinsMove \/ NextBlockNumber

BridgedTokenSpec == BridgedTokenInit /\ [][BridgedTokenNext]_tokenVars

-----------------------------------------------------------------------------
(* Periods begin with the first receiver after the last one has ended, not *)
(* at fixed blocks; still no stretch of blocks that is as long as a period *)
(* sees more than twice maxPeriodFunds, however transfers, minting and the *)
(* owner's withdrawals are mixed.                                          *)
FundedPerWindow ==
  \A b \in 0..MaxBlockNumber :
    SumFunctionOnSet(fundedAt, {n \in 0..MaxBlockNumber : n - b \in 0..fundingRules.periodLength})
      <= 2 * fundingRules.maxPeriodFunds
=============================================================================

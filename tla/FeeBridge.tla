------------------------------ MODULE FeeBridge ------------------------------
(***************************************************************************)
(* What the home bridge contracts do with the money, once the validators   *)
(* have decided (HomeBridge): the fees, the token and who may mint it.     *)
(* The kinds of contracts/contracts/upgradeable_contracts/erc20_to_erc20:  *)
(*   "ErcToErc"        HomeBridgeErcToErc, FeeManager: the validators share*)
(*                     a percentage of every deposit                       *)
(*   "WithFee"         HomeBridgeErcToErcWithFee, DepositWithdrawFeeManager*)
(*   "WithFeeV2"       the same through MinterBurnerProxy                  *)
(*   "Erc677ToErc677"  HomeBridgeErc677ToErc677WithFee: pays from a pool   *)
(*   "Native"          HomeBridgeNativeToErcWithFee: the pool is of coins  *)
(* The token is ERC677InitializableBridgeToken (or ...V2), before its      *)
(* upgrade ERC677InitializableToken: "multi" and "single".                 *)
(***************************************************************************)
EXTENDS ExecutionLimit, SpendLimit, MinterBurnerProxy

CONSTANTS
  Kinds,            \* the contracts that are looked at
  user, wallet, receiver, nobody,   \* nobody is the address 0
  FeeValidators,    \* validatorsList(), as a sequence
  coMinter,         \* another operator of MinterBurnerProxy
  Amounts,          \* what is deposited and sent
  FeeSettings,      \* fees at the start
  FixedFees, FeePercents,           \* bound: what the owner sets
  Pool,             \* what the bridge holds at first, of a token it does not mint
  MaxExecuted, MaxCoMinted, MaxOwnerCalls   \* bounds

bridge == thunderBridge
Holder == {user, wallet, receiver, nobody, bridge}
            \cup {FeeValidators[i] : i \in DOMAIN FeeValidators}

fullPercent == 10000
FeePercent == 0..fullPercent - 1
Fees == [withdrawFixed : Nat, withdrawPercent : FeePercent,
         depositFixed : Nat, depositPercent : FeePercent, split : FeePercent]

ASSUME FeeAssumption ==
  /\ Amounts \subseteq Nat \ {0} /\ FixedFees \subseteq Nat
  /\ FeeSettings \subseteq Fees /\ FeePercents \subseteq FeePercent
  /\ Operator = {thunderBridge, coMinter} /\ coMinter # thunderBridge
  /\ FeeValidators \in Seq(Holder) \ {<<>>}
  /\ Pool \in Nat

(* Nobody who is paid is the bridge itself.                                *)
ASSUME BridgeIsNotPaid ==
  /\ thunderBridge \notin {user, wallet, receiver, nobody}
  /\ \A i \in DOMAIN FeeValidators : FeeValidators[i] # thunderBridge

VARIABLES
  kind, fees, feeReceiver, fallback,
  minterBurner,     \* has setMinterBurner been called
  tokenOwner,       \* "bridge" or "minter" (MinterBurnerProxy)
  tokenVersion, validBridgeContract,
  balances,
  feeHistory,       \* [executed, announced, strayed, kept, claimed, coMinted, base]
  ownerCalls

(* feeHistory adds up amounts: of executed affirmations, of requests for   *)
(* signatures, of transfers the bridge was not called for, of fees that    *)
(* could not be sent, of what the owner took out, of the other operator's  *)
(* minting less its burning; base is what was outstanding and not counted  *)
(* when thunderBridgeSupply began to count.                                *)
feeVars == <<fees, feeReceiver, fallback>>
setupVars == <<kind, minterBurner, tokenOwner, tokenVersion, validBridgeContract>>
moneyVars == <<balances, feeHistory>>
feeBridgeVars == <<feeVars, setupVars, moneyVars, ownerCalls, executionVars, spendVars, minterVars>>

outstanding == feeHistory.executed - feeHistory.announced

MintingKinds == {"ErcToErc", "WithFee", "WithFeeV2"}

(* A WithFeeV2 is initialized anew by the deployment, which makes it the   *)
(* owner of the token, or has been upgraded and set up.                    *)
FeeBridgeInit ==
  /\ ExecutionLimitInit /\ SpendLimitInit /\ MinterInit
  /\ kind \in Kinds
  /\ fees \in FeeSettings
  /\ feeReceiver \in {receiver, IF kind = "Native" THEN wallet ELSE nobody}
  /\ fallback \in IF kind = "Native" THEN {receiver, wallet} ELSE {nobody}
  /\ minterBurner \in IF kind = "WithFeeV2" THEN BOOLEAN ELSE {FALSE}
  /\ tokenOwner = IF minterBurner THEN "minter" ELSE "bridge"
  /\ tokenVersion \in {"single", "multi"}
  /\ validBridgeContract = (tokenVersion = "multi")
  /\ balances = [h \in Holder |-> IF h = bridge /\ kind \notin MintingKinds THEN Pool ELSE 0]
  /\ feeHistory = [executed |-> 0, announced |-> 0, strayed |-> 0, kept |-> 0,
                   claimed |-> 0, coMinted |-> 0, base |-> 0]
  /\ ownerCalls = 0

-----------------------------------------------------------------------------
(* The fees *)

Percent(amount, percent) == (amount * percent) \div fullPercent

LargerFee(fixed, percentage) == IF fixed > percentage THEN fixed ELSE percentage

withdrawFee(value) == LargerFee(fees.withdrawFixed, Percent(value, fees.withdrawPercent))
depositFee(value)  == LargerFee(fees.depositFixed, Percent(value, fees.depositPercent))

subtractFee(value) == value - Percent(value, fees.split)

(* Mutant of ValidatorShare: the last validator gets what the others get.  *)
EqualShare(value, i) == (value - subtractFee(value)) \div Len(FeeValidators)

(* Division leaves a rest, which the last validator gets.                  *)
ValidatorShare(value, i) ==
  LET entire     == value - subtractFee(value)
      particular == entire \div Len(FeeValidators)
  IN  IF i < Len(FeeValidators) THEN particular
      ELSE entire - particular * (Len(FeeValidators) - 1)

Payment(to, amount) == [to |-> to, amount |-> amount]

(* What onExecuteAffirmation mints or sends, in this order.                *)
Payments(recipient, value) ==
  LET fee == depositFee(value)
  IN  IF kind = "ErcToErc"
      THEN [i \in DOMAIN FeeValidators |-> Payment(FeeValidators[i], ValidatorShare(value, i))]
             \o <<Payment(recipient, subtractFee(value))>>
      ELSE IF value <= fee THEN <<Payment(feeReceiver, value)>>
      ELSE (IF fee # 0 THEN <<Payment(feeReceiver, fee)>> ELSE <<>>)
             \o <<Payment(recipient, value - fee)>>

AmountsOf(payments) == [i \in DOMAIN payments |-> payments[i].amount]
PaidTo(h, payments) ==
  SumFunctionOnSet(AmountsOf(payments), {i \in DOMAIN payments : payments[i].to = h})
PaidInAll(payments) == SumOfAll(AmountsOf(payments))

Credited(payments) == [h \in Holder |-> balances[h] + PaidTo(h, payments)]
MovedFrom(from, payments) ==
  [h \in Holder |-> (IF h = from THEN balances[h] - PaidInAll(payments) ELSE balances[h])
                       + PaidTo(h, payments)]

-----------------------------------------------------------------------------
(* Deposits *)

(* The token's mint is for its owner; the address 0 gets nothing.          *)
MintDeposit(payments) ==
  /\ \A i \in DOMAIN payments : payments[i].to # nobody
  /\ balances' = Credited(payments)
  /\ \/ /\ kind \in {"ErcToErc", "WithFee"}
        /\ tokenOwner = "bridge"
        /\ UNCHANGED minterVars
     \/ /\ kind = "WithFeeV2"
        /\ minterBurner /\ tokenOwner = "minter"
        /\ MintAll(bridge, AmountsOf(payments))

(* A transfer of the token reverts when it cannot be made.                 *)
TransferDeposit(payments) ==
  /\ \A i \in DOMAIN payments : payments[i].to # nobody
  /\ PaidInAll(payments) <= balances[bridge]
  /\ balances' = MovedFrom(bridge, payments)
  /\ UNCHANGED minterVars

(* A coin that cannot be sent to the fee receiver stays where it is; what  *)
(* the recipient does not take goes to the fallback, or everything reverts.*)
SendDeposit(recipient, value) ==
  LET fee    == IF value <= depositFee(value) THEN value ELSE depositFee(value)
      sent   == IF feeReceiver # wallet /\ fee <= balances[bridge] THEN fee ELSE 0
      rest   == value - fee
      taker  == IF recipient = wallet THEN fallback ELSE recipient
  IN  /\ rest > 0 => taker # wallet
      /\ sent + rest <= balances[bridge]
      /\ balances' = MovedFrom(bridge, <<Payment(feeReceiver, sent), Payment(taker, rest)>>)
      /\ feeHistory' = [feeHistory EXCEPT !.executed = @ + value, !.kept = @ + fee - sent]
      /\ UNCHANGED minterVars

Executed(value) == feeHistory' = [feeHistory EXCEPT !.executed = @ + value]

OnExecuteAffirmationOf(recipient, value) ==
  /\ WithinExecutionLimit(value)
  /\ feeHistory.executed + value <= MaxExecuted
  /\ AddExecuted(value)
  /\ \/ kind \in MintingKinds /\ MintDeposit(Payments(recipient, value)) /\ Executed(value)
     \/ kind = "Erc677ToErc677" /\ TransferDeposit(Payments(recipient, value)) /\ Executed(value)
     \/ kind = "Native" /\ SendDeposit(recipient, value)
  /\ UNCHANGED <<feeVars, setupVars, ownerCalls, spendVars>>

-----------------------------------------------------------------------------
(* Withdrawals *)

(* The token calls the bridge, which is native or has to be registered.    *)
CallsBridge == kind = "Native" \/ tokenVersion = "single" \/ validBridgeContract

(* Mutant of OnTransferToBridge: the fee is not sent on.                   *)
OnTransferKeepingFee(from, value) ==
  LET fee  == IF kind = "ErcToErc" THEN 0 ELSE withdrawFee(value)
      net  == value - fee
  IN  /\ WithinLimit(value)
      /\ kind # "ErcToErc" => value > fees.withdrawFixed
      /\ AddSpent(net)
      /\ IF kind = "WithFeeV2"
         THEN minterBurner /\ tokenOwner = "minter" /\ Burn(bridge, net)
         ELSE UNCHANGED minterVars
      /\ balances' = [balances EXCEPT ![from] = @ - value,
                        ![bridge] = @ + (IF kind \in MintingKinds THEN fee ELSE value)]
      /\ feeHistory' = [feeHistory EXCEPT !.announced = @ + net]

(* onTokenTransfer, of Native transferAndCall: the limits are asked for    *)
(* the whole amount and charged with what is left after the fee.           *)
OnTransferToBridge(from, value) ==
  LET fee  == IF kind = "ErcToErc" THEN 0 ELSE withdrawFee(value)
      net  == value - fee
  IN  /\ WithinLimit(value)
      /\ kind # "ErcToErc" => value > fees.withdrawFixed
      /\ fee > 0 => feeReceiver # IF kind = "Native" THEN wallet ELSE nobody
      /\ AddSpent(net)
      /\ IF kind = "WithFeeV2"
         THEN minterBurner /\ tokenOwner = "minter" /\ Burn(bridge, net)
         ELSE UNCHANGED minterVars
      /\ balances' = [[balances EXCEPT ![from] = @ - value]
                        EXCEPT ![feeReceiver] = @ + fee,
                               ![bridge] = @ + (IF kind \in MintingKinds THEN 0 ELSE net)]
      /\ feeHistory' = [feeHistory EXCEPT !.announced = @ + net]

TransferToBridge(from, value) ==
  /\ balances[from] >= value
  /\ \/ /\ CallsBridge
        /\ OnTransferToBridge(from, value)
     \/ /\ ~CallsBridge
        /\ balances' = [balances EXCEPT ![from] = @ - value, ![bridge] = @ + value]
        /\ feeHistory' = [feeHistory EXCEPT !.strayed = @ + value]
        /\ UNCHANGED <<spendVars, minterVars>>
  /\ UNCHANGED <<feeVars, setupVars, ownerCalls, executionVars>>

-----------------------------------------------------------------------------
(* The owner, the other operator *)

OwnerCalls == ownerCalls < MaxOwnerCalls /\ ownerCalls' = ownerCalls + 1

SetFees ==
  /\ \/ kind = "ErcToErc" /\ \E p \in FeePercents : fees' = [fees EXCEPT !.split = p]
     \/ /\ kind # "ErcToErc"
        /\ \/ \E n \in FixedFees : \/ fees' = [fees EXCEPT !.withdrawFixed = n]
                                   \/ fees' = [fees EXCEPT !.depositFixed = n]
           \/ \E p \in FeePercents : \/ fees' = [fees EXCEPT !.withdrawPercent = p]
                                     \/ fees' = [fees EXCEPT !.depositPercent = p]
  /\ UNCHANGED <<feeReceiver, fallback>>

SetReceivers ==
  /\ kind # "ErcToErc"
  /\ \/ feeReceiver' \in {receiver, wallet, nobody} /\ UNCHANGED fallback
     \/ kind = "Native" /\ fallback' \in {receiver, wallet} /\ UNCHANGED feeReceiver
  /\ UNCHANGED fees

(* callToken(transferOwnership): only the first contract with fees has it. *)
HandTokenToMinter ==
  /\ kind = "WithFee" /\ tokenOwner = "bridge"
  /\ tokenOwner' = "minter"
  /\ UNCHANGED <<kind, minterBurner, tokenVersion, validBridgeContract>>

UpgradeHome(k) ==
  /\ <<kind, k>> \in {<<"ErcToErc", "WithFee">>, <<"WithFee", "WithFeeV2">>}
  /\ kind' = k
  /\ feeHistory' = IF k = "WithFeeV2"
       THEN [feeHistory EXCEPT !.base = outstanding - thunderBridgeSupply]
       ELSE feeHistory
  /\ UNCHANGED <<balances, minterBurner, tokenOwner, tokenVersion, validBridgeContract>>

SetMinterBurner ==
  /\ kind = "WithFeeV2" /\ ~minterBurner
  /\ minterBurner' = TRUE
  /\ UNCHANGED <<kind, tokenOwner, tokenVersion, validBridgeContract>>

(* The new implementation has no registered contract yet.                  *)
UpgradeToken ==
  /\ tokenVersion = "single"
  /\ tokenVersion' = "multi"
  /\ UNCHANGED <<kind, minterBurner, tokenOwner, validBridgeContract>>

(* addBridgeContract and removeBridgeContract, by way of callToken of the  *)
(* token's owner.                                                          *)
SetBridgeContract ==
  /\ tokenVersion = "multi"
  /\ tokenOwner = "minter" \/ kind \in {"WithFee", "Erc677ToErc677"}
  /\ validBridgeContract' = ~validBridgeContract
  /\ UNCHANGED <<kind, minterBurner, tokenOwner, tokenVersion>>

ClaimTokens ==
  /\ balances' = [balances EXCEPT ![bridge] = 0, ![receiver] = @ + balances[bridge]]
  /\ feeHistory' = [feeHistory EXCEPT !.claimed = @ + balances[bridge]]

(* Each of these happens at most once or twice.                            *)
MigrationNext ==
  /\ UNCHANGED <<ownerCalls, feeVars, executionVars, spendVars, minterVars>>
  /\ \/ \E k \in Kinds : UpgradeHome(k)
     \/ (HandTokenToMinter \/ SetMinterBurner) /\ UNCHANGED moneyVars
     \/ kind # "Native" /\ UpgradeToken /\ UNCHANGED moneyVars

FeeOwnerNext ==
  /\ OwnerCalls
  /\ UNCHANGED <<executionVars, spendVars>>
  /\ \/ (SetFees \/ SetReceivers) /\ UNCHANGED <<setupVars, moneyVars, minterVars>>
     \/ ClaimTokens /\ UNCHANGED <<feeVars, setupVars, minterVars>>
     \/ kind # "Native" /\ SetBridgeContract /\ UNCHANGED <<feeVars, moneyVars, minterVars>>
     \/ /\ tokenOwner = "minter"
        /\ \/ SetMinterLimit
           \/ \E o \in Operator : AddOperator(o) \/ RemoveOperator(o)
        /\ UNCHANGED <<feeVars, setupVars, moneyVars>>
     \/ /\ tokenOwner = "minter" /\ outstanding >= 0
        /\ SetThunderBridgeSupply(outstanding)
        /\ feeHistory' = [feeHistory EXCEPT !.base = 0]
        /\ UNCHANGED <<feeVars, setupVars, balances>>

CoMinterNext ==
  /\ tokenOwner = "minter"
  /\ \E n \in Amounts :
       \/ /\ feeHistory.coMinted + n <= MaxCoMinted
          /\ mintedToday[coMinter] + n <= MaxCoMinted
          /\ MintAll(coMinter, <<n>>)
          /\ balances' = [balances EXCEPT ![user] = @ + n]
          /\ feeHistory' = [feeHistory EXCEPT !.coMinted = @ + n]
       \/ /\ balances[user] >= n
          /\ Burn(coMinter, n)
          /\ balances' = [balances EXCEPT ![user] = @ - n]
          /\ feeHistory' = [feeHistory EXCEPT !.coMinted = @ - n]
  /\ UNCHANGED <<feeVars, setupVars, ownerCalls, executionVars, spendVars>>

FeeBridgeNewDay ==
  /\ NewExecutionDay /\ NewSpendDay /\ NewMinterDay
  /\ UNCHANGED <<feeVars, setupVars, moneyVars, ownerCalls>>

FeeBridgeNext ==
  \/ \E r \in {user, wallet}, n \in Amounts : OnExecuteAffirmationOf(r, n)
  \/ \E h \in {user, wallet}, n \in Amounts : TransferToBridge(h, n)
  \/ MigrationNext \/ FeeOwnerNext
  \/ CoMinterNext
  \/ FeeBridgeNewDay

FeeBridgeSpec == FeeBridgeInit /\ [][FeeBridgeNext]_feeBridgeVars

-----------------------------------------------------------------------------
(* No unit is made or lost by a fee: whatever is rounded, shared among     *)
(* validators, or minted in several calls under the limits of              *)
(* MinterBurnerProxy, all balances together are what was deposited and not *)
(* sent back, plus what another operator minted.                           *)
FeesAddUp ==
  SumOfAll(balances) =
    IF kind \in MintingKinds
    THEN outstanding + feeHistory.coMinted
    ELSE Pool

(* The bridge keeps nothing for itself: of a token it mints only what was  *)
(* transferred to it while the token did not call it, of a pool what backs *)
(* the requests, and the fees its receiver would not take.                 *)
NothingStuck ==
  balances[bridge] + feeHistory.claimed =
    feeHistory.strayed + feeHistory.kept
      + IF kind \in MintingKinds THEN 0 ELSE Pool - outstanding

(* thunderBridgeSupply is what the bridge made of the token and users did  *)
(* not return, modulo its width: it wraps when they return tokens another  *)
(* operator gave them.                                                     *)
MinterSupplyExact ==
  minterBurner => thunderBridgeSupply = (outstanding - feeHistory.base) % Width
=============================================================================

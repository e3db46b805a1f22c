---------------------------- MODULE ForeignBridge ----------------------------
(***************************************************************************)
(* The foreign bridge contract: BasicForeignBridge, Message and, as its    *)
(* version, ForeignBridgeErcToErc or one of its successors                 *)
(* ForeignBridgeErcToErcV2 (no limits) and ForeignBridgeErcToErcV3 (a      *)
(* fallback recipient, the one the deployment script installs), all under  *)
(* contracts/contracts.  They share their storage behind a proxy whose     *)
(* owner may install another one at any time.  The ERC20 token the bridge  *)
(* holds is not the project's code: it is modelled by what the bridge sees *)
(* of it.  Three more versions stand on their own: ForeignBridgeWithNative-*)
(* Token pays the chain's coin, ForeignBridgeERC677ToNative and Foreign-   *)
(* BridgeErc677ToErc677 mint and burn a token they own (their successors   *)
(* named V2 only add callToken, a call of the owner to the token).         *)
(*                                                                         *)
(* Signatures are unforgeable: a call may only present those in signedBy.  *)
(* They are made off this chain, by anyone who ever was a validator.       *)
(***************************************************************************)
EXTENDS BridgeValidators, ExecutionLimit, Functions

CONSTANTS
  Versions,         \* those that get installed, of the two sets below
  RelayMessage,     \* [recipient, value, txHash, contractAddress]
  ThisBridge,       \* the address of this contract
  Deposit,          \* [recipient, value, txHash]: transfers to this contract
  MaxDeposits,      \* bound: how often one such transfer is made
  Refused,          \* the recipients the token does not pay
  FallbackRecipients, NoRecipient,
  TokenFailure      \* "revert" or "false": how it reports a transfer not made

Successive   == {"ErcToErc", "V2", "V3"}
Minting      == {"ERC677ToNative", "Erc677ToErc677"}
WithFallback == {"V3", "Native", "Erc677ToErc677"}

ASSUME ForeignAssumption ==
  /\ Versions \subseteq Successive \cup Minting \cup {"Native"}
  /\ NoRecipient \notin FallbackRecipients
  /\ TokenFailure \in {"revert", "false"}
  /\ MaxDeposits \in Nat
  /\ IsFiniteSet(RelayMessage) /\ IsFiniteSet(Deposit)
  /\ \A m \in RelayMessage :
       /\ m = [recipient |-> m.recipient, value |-> m.value, txHash |-> m.txHash,
               contractAddress |-> m.contractAddress]
       /\ m.value \in Nat \ {0}
  /\ \A d \in Deposit :
       /\ d = [recipient |-> d.recipient, value |-> d.value, txHash |-> d.txHash]
       /\ d.value \in Nat \ {0}

RelayTxHash == {m.txHash : m \in RelayMessage}

VARIABLES
  version, fallbackRecipient,
  signedBy,         \* per message, who has signed it anywhere
  relayedMessages,  \* the transactions of the home chain that were relayed
  paid,             \* per message, how often its amount left the bridge
  redirected,       \* the messages sent to the fallback recipient instead
  deposits,         \* per transfer to the bridge, how often it happened
  tokenBalance,     \* what the bridge holds of the token; of one it mints, the supply
  tokenPaused

relayVars == <<relayedMessages, paid, redirected>>
erc20Vars == <<tokenBalance, tokenPaused>>
versionVars == <<version, fallbackRecipient>>
foreignBridgeVars == <<versionVars, signedBy, relayVars, deposits, erc20Vars>>
foreignVars == <<foreignBridgeVars, validatorVars, executionVars>>

ForeignTypeOK ==
  /\ ValidatorsTypeOK /\ ExecutionLimitTypeOK
  /\ version \in Versions
  /\ fallbackRecipient \in FallbackRecipients \cup {NoRecipient}
  /\ signedBy \in [RelayMessage -> SUBSET Validator]
  /\ relayedMessages \subseteq RelayTxHash
  /\ paid \in [RelayMessage -> Nat]
  /\ redirected \subseteq RelayMessage
  /\ deposits \in [Deposit -> Nat]
  /\ tokenBalance \in Nat
  /\ tokenPaused \in BOOLEAN

ForeignInit ==
  /\ ValidatorsInit /\ ExecutionLimitInit
  /\ version \in Versions
  /\ IF version \in WithFallback
     THEN fallbackRecipient \in FallbackRecipients
     ELSE fallbackRecipient = NoRecipient
  /\ signedBy = [m \in RelayMessage |-> {}]
  /\ relayedMessages = {}
  /\ paid = [m \in RelayMessage |-> 0]
  /\ redirected = {}
  /\ deposits = [d \in Deposit |-> 0]
  /\ tokenBalance = 0
  /\ tokenPaused = FALSE

-----------------------------------------------------------------------------
(* The token *)

Transfers(recipient, amount) ==
  \/ version \in Minting
  \/ ~tokenPaused /\ tokenBalance >= amount /\ recipient \notin Refused

(* tokenTransfer: the first two versions look at whether the call          *)
(* reverted, the third also at the value it returned, the native one at    *)
(* the result of send.  A token that mints does not fail.                  *)
TokenTransfer(recipient, amount) ==
  \/ Transfers(recipient, amount)
  \/ version \in {"ErcToErc", "V2"} /\ TokenFailure = "false"

(* Mutant of Pay: a fee of 1 leaves the bridge on top of the amount.       *)
PayPlusFee(m, recipient) ==
  IF Transfers(recipient, m.value)
  THEN /\ tokenBalance' = tokenBalance - m.value - 1
       /\ paid' = [paid EXCEPT ![m] = @ + 1]
  ELSE UNCHANGED <<tokenBalance, paid>>

Pay(m, recipient) ==
  IF Transfers(recipient, m.value)
  THEN /\ tokenBalance' =
            IF version \in Minting THEN tokenBalance + m.value ELSE tokenBalance - m.value
       /\ paid' = [paid EXCEPT ![m] = @ + 1]
  ELSE UNCHANGED <<tokenBalance, paid>>

(* A user sends tokens to the bridge: nothing but the token's Transfer     *)
(* event tells the validators of it, which the native version emits itself.*)
Hold(amount) == version \notin Minting /\ tokenBalance' = tokenBalance + amount

(* Those that mint are called by their token and burn the amount.          *)
OnTokenReceived(amount) ==
  version \in Minting /\ tokenBalance >= amount /\ tokenBalance' = tokenBalance - amount

MakeDeposit(d) ==
  /\ ~tokenPaused
  /\ deposits[d] < MaxDeposits
  /\ deposits' = [deposits EXCEPT ![d] = @ + 1]
  /\ Hold(d.value) \/ OnTokenReceived(d.value)
  /\ UNCHANGED <<versionVars, signedBy, relayVars, tokenPaused, validatorVars, executionVars>>

PauseToken ==
  /\ version \in Successive
  /\ tokenPaused' = ~tokenPaused
  /\ UNCHANGED <<versionVars, signedBy, relayVars, deposits, tokenBalance, validatorVars, executionVars>>

-----------------------------------------------------------------------------
(* executeSignatures *)

HasDuplicate(sigs, n) == \E i, j \in 1..n : i # j /\ sigs[i] = sigs[j]

(* Mutant of HasEnoughValidSignatures: addresses are not compared.         *)
HasEnoughSignatures(sigs) ==
  /\ Len(sigs) >= requiredSignatures
  /\ \A i \in 1..requiredSignatures : sigs[i] \in validators

(* Only the first requiredSignatures signatures are looked at.             *)
HasEnoughValidSignatures(sigs) ==
  /\ Len(sigs) >= requiredSignatures
  /\ \A i \in 1..requiredSignatures : sigs[i] \in validators
  /\ ~HasDuplicate(sigs, requiredSignatures)

MessageWithinLimits(amount) == version = "ErcToErc" => WithinExecutionLimit(amount)

(* Mutant of OnExecuteMessage: the native bridge drops the result of       *)
(* paying the fallback recipient, as the third version does.               *)
OnExecuteMessageFallbackUnchecked(m) ==
  /\ IF version = "ErcToErc" THEN AddExecuted(m.value) ELSE UNCHANGED executionVars
  /\ \/ /\ TokenTransfer(m.recipient, m.value)
        /\ Pay(m, m.recipient)
        /\ UNCHANGED redirected
     \/ /\ version \in {"V3", "Native"}
        /\ ~TokenTransfer(m.recipient, m.value)
        /\ fallbackRecipient # NoRecipient
        /\ Pay(m, fallbackRecipient)
        /\ redirected' = redirected \cup {m}

(* The third version does not look at the result of paying the fallback    *)
(* recipient; the native one uses transfer, which reverts.                 *)
PayFallback(m) ==
  /\ fallbackRecipient # NoRecipient
  /\ version = "Native" => Transfers(fallbackRecipient, m.value)
  /\ Pay(m, fallbackRecipient)

(* The require on the result reverts the whole call.                       *)
OnExecuteMessage(m) ==
  /\ IF version = "ErcToErc" THEN AddExecuted(m.value) ELSE UNCHANGED executionVars
  /\ \/ /\ TokenTransfer(m.recipient, m.value)
        /\ Pay(m, m.recipient)
        /\ UNCHANGED redirected
     \/ /\ version \in {"V3", "Native"}
        /\ ~TokenTransfer(m.recipient, m.value)
        /\ PayFallback(m)
        /\ redirected' = redirected \cup {m}

Relay(m) ==
  /\ m.contractAddress = ThisBridge
  /\ relayedMessages' = relayedMessages \cup {m.txHash}
  /\ OnExecuteMessage(m)
  /\ UNCHANGED <<versionVars, signedBy, deposits, tokenPaused, validatorVars>>

(* Mutant of ExecuteSignatures: the replay check is missing.               *)
ExecuteSignaturesAgain(sigs, m) ==
  /\ HasEnoughValidSignatures(sigs)
  /\ MessageWithinLimits(m.value)
  /\ Relay(m)

ExecuteSignatures(sigs, m) ==
  /\ HasEnoughValidSignatures(sigs)
  /\ MessageWithinLimits(m.value)
  /\ m.txHash \notin relayedMessages
  /\ Relay(m)

(* A validator, present or past, signs a message.                          *)
Sign(v, m) ==
  /\ v \notin signedBy[m]
  /\ signedBy' = [signedBy EXCEPT ![m] = @ \cup {v}]
  /\ UNCHANGED <<versionVars, relayVars, deposits, erc20Vars, validatorVars, executionVars>>

(* The proxy gets another implementation; its storage stays as it is.      *)
UpgradeTo(n) ==
  /\ {n, version} \subseteq Successive
  /\ n # version
  /\ version' = n
  /\ UNCHANGED <<fallbackRecipient, signedBy, relayVars, deposits, erc20Vars,
                 validatorVars, executionVars>>

SetFallbackRecipient(r) ==
  /\ version \in WithFallback
  /\ fallbackRecipient' = r
  /\ UNCHANGED <<version, signedBy, relayVars, deposits, erc20Vars,
                 validatorVars, executionVars>>

ForeignOwnerNext ==
  \/ ValidatorsNext /\ UNCHANGED <<foreignBridgeVars, executionVars>>
  \/ \E n \in Versions : UpgradeTo(n)
  \/ \E r \in FallbackRecipients : SetFallbackRecipient(r)
  \/ /\ \/ version = "ErcToErc" /\ SetExecutionLimits
        \/ /\ version # "ErcToErc"
           /\ \E n \in NewExecutionLimits : SetExecutionMaxPerTx(n)
     /\ UNCHANGED <<foreignBridgeVars, validatorVars>>

ForeignNewDay ==
  /\ NewExecutionDay
  /\ UNCHANGED <<foreignBridgeVars, validatorVars>>

(* Calls present up to as many signatures as there are addresses.          *)
Presentable(S) == UNION {[1..n -> S] : n \in 1..Cardinality(Validator)}

ForeignNext ==
  \/ \E m \in RelayMessage : \E sigs \in Presentable(signedBy[m]) : ExecuteSignatures(sigs, m)
  \/ \E v \in Validator, m \in RelayMessage : Sign(v, m)
  \/ \E d \in Deposit : MakeDeposit(d)
  \/ PauseToken
  \/ ForeignOwnerNext
  \/ ForeignNewDay

ForeignSpec == ForeignInit /\ [][ForeignNext]_foreignVars

-----------------------------------------------------------------------------
(* Value leaves the bridge only for a message to this contract that at     *)
(* least requiredSignatures of its validators at that moment have signed,  *)
(* however the caller repeats and orders the signatures it presents and    *)
(* whatever the owner did to the validators since they were made.          *)
PaymentNeedsQuorum ==
  [][ \A m \in RelayMessage : paid'[m] # paid[m] =>
        /\ m.contractAddress = ThisBridge
        /\ Cardinality(signedBy[m] \cap validators) >= requiredSignatures ]_foreignVars

(* A transaction of the home chain is paid out at most once, and only when *)
(* it is marked as relayed: also when several requests share its hash.     *)
PaidOncePerTransaction ==
  \A m \in RelayMessage :
    paid[m] > 0 =>
      /\ paid[m] = 1 /\ m.txHash \in relayedMessages
      /\ \A n \in RelayMessage \ {m} : n.txHash = m.txHash => paid[n] = 0

(* Marking a transaction as relayed and paying it are one, also when the   *)
(* contract is upgraded in between: a transfer that fails leaves the       *)
(* transaction unmarked, to be relayed later, unless the third version     *)
(* redirected it to the fallback recipient (with a token that reverts what *)
(* it does not do).                                                        *)
RelayedIsPaid ==
  \A h \in relayedMessages :
    \E m \in RelayMessage :
      /\ m.txHash = h
      /\ paid[m] >= 1 \/ (m \in redirected /\ version \in Successive)

(* What was paid for each message and what each transfer brought in.       *)
PaidValue == [m \in RelayMessage |-> paid[m] * m.value]
DepositedValue == [d \in Deposit |-> deposits[d] * d.value]

(* The bridge holds what was deposited less what it paid; of a token it    *)
(* mints there is what it paid less what was sent back.                    *)
BalanceMatchesPayments ==
  LET payments == SumFunctionOnSet(PaidValue, RelayMessage)
      incoming == SumFunctionOnSet(DepositedValue, Deposit)
  IN  IF version \in Minting
      THEN tokenBalance + incoming = payments
      ELSE tokenBalance + payments = incoming
=============================================================================

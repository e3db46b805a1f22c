----------------------------- MODULE TokenBridge -----------------------------
(***************************************************************************)
(* The whole bridge: the home bridge contract, the foreign bridge contract *)
(* and the validator processes between them, each of which follows the     *)
(* events of both chains (validator/src/events).  An instance of a process *)
(* sees an event only after it is final, and asks the contract with        *)
(* estimateGas first: a call that would revert is not sent.  How a process *)
(* finds the events and gets its transactions mined is not here, only that *)
(* it may act on any event at any later time, again and again.             *)
(*                                                                         *)
(* The variables of the home chain have their names in HomeBridge, those   *)
(* the two contracts have in common are prefixed with f on the foreign     *)
(* chain.  The owner holds both contracts but no transaction spans them.   *)
(***************************************************************************)
EXTENDS HomeBridge

CONSTANTS
  ForeignBridgeAddress,   \* where messages are to be executed
  Versions, FallbackRecipients, NoRecipient, Refused, TokenFailure, MaxDeposits,
  ForeignExecutionLimits, NewForeignExecutionLimits

VARIABLES
  fValidators, fValidatorsList, fValidatorCount, fRequiredSignatures,
  fTotalExecutedToday, fExecutionDailyLimit, fExecutionMaxPerTx,
  version, fallbackRecipient, relayedMessages, paid, redirected, deposits, tokenBalance, tokenPaused

(* createMessage: the triple of the request and the foreign bridge.        *)
createMessage(m) ==
  [recipient |-> m.recipient, value |-> m.value, txHash |-> m.txHash,
   contractAddress |-> ForeignBridgeAddress]

RelayMessages == {createMessage(m) : m \in Message}

(* parseMessage, without the address.                                      *)
parseMessage(r) == [recipient |-> r.recipient, value |-> r.value, txHash |-> r.txHash]

Foreign == INSTANCE ForeignBridge WITH
  validators <- fValidators, validatorsList <- fValidatorsList,
  validatorCount <- fValidatorCount, requiredSignatures <- fRequiredSignatures,
  ExecutionLimits <- ForeignExecutionLimits,
  NewExecutionLimits <- NewForeignExecutionLimits,
  totalExecutedToday <- fTotalExecutedToday,
  executionDailyLimit <- fExecutionDailyLimit,
  executionMaxPerTx <- fExecutionMaxPerTx,
  RelayMessage <- RelayMessages, ThisBridge <- ForeignBridgeAddress,
  Deposit <- Affirmation,
  signedBy <- [r \in RelayMessages |-> messagesSigned[parseMessage(r)]]

(* What the foreign chain keeps: everything of Foreign but the signatures, *)
(* which are read from the home chain.                                     *)
foreignChainVars ==
  <<fValidators, fValidatorsList, fValidatorCount, fRequiredSignatures,
    fTotalExecutedToday, fExecutionDailyLimit, fExecutionMaxPerTx,
    version, fallbackRecipient, relayedMessages, paid, redirected, deposits, tokenBalance, tokenPaused>>

vars == <<homeVars, foreignChainVars>>

TokenBridgeInit == HomeInit /\ Foreign!ForeignInit

-----------------------------------------------------------------------------
(* The validator processes *)

(* Mutant of ProcessTransfer: the event of a transfer that did not stay.   *)
ProcessUnconfirmedTransfer(v, a) == ExecuteAffirmation(v, a) /\ UNCHANGED foreignChainVars

(* processTransfers: a Transfer event of the token to the foreign bridge.  *)
ProcessTransfer(v, a) ==
  /\ deposits[a] > 0
  /\ ExecuteAffirmation(v, a)
  /\ UNCHANGED foreignChainVars

(* processSignatureRequests: a UserRequestForSignature event.              *)
ProcessSignatureRequest(v, m) ==
  /\ userRequests[m] > 0
  /\ SubmitSignature(v, m)
  /\ UNCHANGED foreignChainVars

(* Mutant of CollectedInAnyOrder: the last signature is not read.          *)
CollectedButLast(m, n) == {SubSeq(signatures[m], 1, n - 1)}

(* The first n signatures of m, in the order in which the answers to the   *)
(* concurrent calls of signature(messageHash, index) come in.              *)
CollectedInAnyOrder(m, n) ==
  {[i \in 1..n |-> signatures[m][order[i]]] :
     order \in {f \in [1..n -> 1..n] : \A i, j \in 1..n : f[i] = f[j] => i = j}}

(* processCollectedSignatures: a CollectedSignatures event is served by    *)
(* the validator it names.                                                 *)
ProcessCollectedSignatures(v, e) ==
  /\ e.authorityResponsibleForRelay = v
  /\ UNCHANGED homeVars
  /\ \E sigs \in CollectedInAnyOrder(e.message, e.NumberOfCollectedSignatures) :
       Foreign!ExecuteSignatures(sigs, createMessage(e.message))

ValidatorNext(v) ==
  \/ \E a \in Affirmation : ProcessTransfer(v, a)
  \/ \E m \in Message : ProcessSignatureRequest(v, m)
  \/ \E e \in collected : ProcessCollectedSignatures(v, e)

-----------------------------------------------------------------------------
(* Users, days, owner *)

(* The signatures are public: anyone may present any of them, in any order *)
(* and repeated, collected or not.                                         *)
AnyoneExecutesSignatures(m) ==
  /\ UNCHANGED homeVars
  /\ \E sigs \in Foreign!Presentable(messagesSigned[m]) :
       Foreign!ExecuteSignatures(sigs, createMessage(m))

UserNext ==
  \/ \E a \in Affirmation : UNCHANGED homeVars /\ Foreign!MakeDeposit(a)
  \/ \E m \in Withdrawal : OnTokenTransfer(m) /\ UNCHANGED foreignChainVars
  \/ \E m \in Message : AnyoneExecutesSignatures(m)

DayNext ==
  \/ HomeNewDay /\ UNCHANGED foreignChainVars
  \/ UNCHANGED homeVars /\ Foreign!ForeignNewDay

OwnerNext ==
  \/ HomeOwnerNext /\ UNCHANGED foreignChainVars
  \/ UNCHANGED homeVars /\ Foreign!ForeignOwnerNext
  \/ \E h \in TxHash, unlock \in BOOLEAN :
       FixAssetsAboveLimits(h, unlock) /\ UNCHANGED foreignChainVars

TokenNext == UNCHANGED homeVars /\ Foreign!PauseToken

BridgeNext == (\E v \in Validator : ValidatorNext(v)) \/ UserNext \/ DayNext

TokenBridgeNext == BridgeNext \/ OwnerNext \/ TokenNext

TokenBridgeSpec == TokenBridgeInit /\ [][TokenBridgeNext]_vars

-----------------------------------------------------------------------------
(* Without the owner and with a token that pays everyone it can, and with  *)
(* every validator process at work: a process resumes after a crash, sends *)
(* a call again until it is mined, and keeps every event it has not served *)
(* (Watcher, validator/src/sender.main.ts), hence weak fairness of each of *)
(* its answers to an event.                                                *)
RelayOf(m) ==
  \E v \in Validator, e \in collected : e.message = m /\ ProcessCollectedSignatures(v, e)

ValidatorFairness ==
  /\ \A v \in Validator, a \in Affirmation : WF_vars(ProcessTransfer(v, a))
  /\ \A v \in Validator, m \in Message : WF_vars(ProcessSignatureRequest(v, m))
  /\ \A m \in Message : WF_vars(RelayOf(m))

SameValidators ==
  /\ fValidators = validators
  /\ fRequiredSignatures = requiredSignatures

(* Both sides are deployed with the same validators and quorum.            *)
DeployedAlike == HomeInit /\ Foreign!ForeignInit /\ SameValidators

UnattendedSpec == DeployedAlike /\ [][BridgeNext]_vars /\ ValidatorFairness

(* The owner changes the validators and limits while all else goes on.     *)
AttendedSpec == DeployedAlike /\ [][BridgeNext \/ OwnerNext]_vars /\ ValidatorFairness

-----------------------------------------------------------------------------
Peg == INSTANCE TwoWayPeg WITH
  Locking <- Affirmation, Burning <- Withdrawal, Returning <- Unlock,
  locked <- deposits,
  issued <- {a \in Affirmation : minted[a] > 0},
  circulating <- totalSupply,
  requested <- userRequests,
  unlocked <- {m \in Message : paid[createMessage(m)] > 0}

(* With honest validators the bridge is a two-way peg, whatever the owner  *)
(* and the token do meanwhile: every mint answers a deposit, once, and     *)
(* every payment answers a request, once per transaction.                  *)
IsTwoWayPeg == Peg!PegSpec

(* The deposits executed on the home chain and also given back by way of   *)
(* fixAssetsAboveLimits: the owner can ask for it, the contract does not   *)
(* stop it (ExecutedOrRecorded).                                           *)
PaidTwice ==
  {a \in affirmationsProcessed : txAboveLimits[a.txHash] = a /\ a.txHash \in fixedAssets}

UnpaidValue == [m \in Message |-> (userRequests[m] - paid[createMessage(m)]) * m.value]

(* The peg is backed: unless a deposit was paid twice, the foreign bridge  *)
(* holds enough for every token in circulation and every open request.     *)
Backed ==
  PaidTwice = {} =>
    tokenBalance >= totalSupply + SumFunctionOnSet(UnpaidValue, Message)

(* Every deposit is answered, however the days, the limits and the votes   *)
(* of the validators fall: its tokens are minted or it is recorded for the *)
(* owner.                                                                  *)
DepositsAnswered ==
  \A a \in Affirmation :
    deposits[a] > 0 ~> minted[a] = 1 \/ txAboveLimits[a.txHash] # NoRecord

(* Every transaction with a request for signatures is paid on the foreign  *)
(* chain: the signatures are collected and the relayer they name relays.   *)
RequestsPaid ==
  \A m \in Message :
    userRequests[m] > 0 ~> \E n \in Message : n.txHash = m.txHash /\ paid[createMessage(n)] = 1

(* What the comment on the event RelayedMessage says: it is "triggered     *)
(* when relay of deposit from HomeBridge is complete".                     *)
RelayedIsComplete ==
  \A h \in relayedMessages :
    \E m \in Message : m.txHash = h /\ paid[createMessage(m)] >= 1

(* What the README says of a validator: "As soon as enough signatures are  *)
(* collected, transfer all collected signatures to the Foreign Bridge      *)
(* contract".  It is asked only of runs in which the owner leaves the      *)
(* contracts alone from some time on, with the same validators and quorum  *)
(* on both sides, and of messages that enough of those validators signed.  *)
HasEnoughSignatures(m) == Cardinality(messagesSigned[m] \cap validators) >= requiredSignatures

EnoughSignaturesRelayed ==
  (<>[]SameValidators /\ <>[][~OwnerNext]_vars) =>
    \A m \in Message : <>[]HasEnoughSignatures(m) => <>(m.txHash \in relayedMessages)
=============================================================================

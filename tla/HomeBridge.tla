----------------------------- MODULE HomeBridge -----------------------------
(***************************************************************************)
(* The home bridge contract with the contracts it calls: BasicHomeBridge,  *)
(* HomeBridgeErcToErc, OverdrawManagement and ERC677Bridge of              *)
(* contracts/contracts/upgradeable_contracts, over the validators contract *)
(* and the limits of BasicBridge.                                          *)
(*                                                                         *)
(* One external call is one action; a call that reverts is not enabled.    *)
(* A hash of (recipient, value, txHash) stands for that triple, a hash of  *)
(* (sender, hash) for the pair; the storage mappings become functions.     *)
(* What the token splits between recipient and validators as a fee is not  *)
(* told apart: onExecuteAffirmation mints _value in all.                   *)
(***************************************************************************)
EXTENDS BridgeValidators, ExecutionLimit, SpendLimit, Functions

CONSTANTS
  Affirmation,    \* triples a validator may report as deposited on the foreign chain
  Withdrawal,     \* triples of users' calls of the token on the home chain
  Unlock,         \* triples of UserRequestForSignature in a transaction of the owner
  MaxRequests,    \* bound: how often one triple is requested
  NoRecord        \* the empty record of txAboveLimits

Transfer == Affirmation \cup Withdrawal \cup Unlock
Message  == Withdrawal \cup Unlock
TxHash   == {a.txHash : a \in Affirmation}

ASSUME TransferAssumption ==
  /\ IsFiniteSet(Transfer)
  /\ \A t \in Transfer :
       /\ t = [recipient |-> t.recipient, value |-> t.value, txHash |-> t.txHash]
       /\ t.value \in Nat \ {0}
  /\ \A w \in Withdrawal, u \in Unlock : w.txHash # u.txHash
  /\ NoRecord \notin Affirmation
  /\ MaxRequests \in Nat

VARIABLES
  affirmationsSigned,     \* per affirmation, who has voted for it
  numAffirmationsSigned,  \* per affirmation, the count without its top bit
  affirmationsProcessed,  \* the affirmations whose count carries the top bit
  messagesSigned,         \* per message, who has signed it
  signatures,             \* per message, whose signature is in each slot
  messagesProcessed,      \* the messages whose count carries the top bit
  txAboveLimits,          \* per foreign transaction, the affirmation recorded for it
  outOfLimitAmount,
  fixedAssets,
  totalSupply,            \* of the bridged token
  minted,                 \* per affirmation, its AffirmationCompleted events
  userRequests,           \* per message, its UserRequestForSignature events
  collected               \* the CollectedSignatures events

affirmationVars == <<affirmationsSigned, numAffirmationsSigned, affirmationsProcessed, minted>>
messageVars == <<messagesSigned, signatures, messagesProcessed, collected>>
overdrawVars == <<txAboveLimits, outOfLimitAmount, fixedAssets>>
tokenVars == <<totalSupply, userRequests>>
homeVars == <<affirmationVars, messageVars, overdrawVars, tokenVars,
              validatorVars, executionVars, spendVars>>

CollectedSignatures ==
  [authorityResponsibleForRelay : Validator, message : Message,
   NumberOfCollectedSignatures : Nat]

AffirmationTypeOK ==
  /\ affirmationsSigned \in [Affirmation -> SUBSET Validator]
  /\ numAffirmationsSigned \in [Affirmation -> Nat]
  /\ affirmationsProcessed \subseteq Affirmation
  /\ minted \in [Affirmation -> Nat]

MessageTypeOK ==
  /\ messagesSigned \in [Message -> SUBSET Validator]
  /\ signatures \in [Message -> Seq(Validator)]
  /\ messagesProcessed \subseteq Message
  /\ collected \subseteq CollectedSignatures

OverdrawTypeOK ==
  /\ txAboveLimits \in [TxHash -> Affirmation \cup {NoRecord}]
  /\ outOfLimitAmount \in Nat
  /\ fixedAssets \subseteq TxHash

TokenTypeOK ==
  /\ totalSupply \in Nat
  /\ userRequests \in [Message -> Nat]

(* The type invariant; no amount or total is ever negative.                *)
HomeTypeOK ==
  /\ ValidatorsTypeOK /\ ExecutionLimitTypeOK /\ SpendLimitTypeOK
  /\ AffirmationTypeOK /\ MessageTypeOK /\ OverdrawTypeOK /\ TokenTypeOK

HomeInit ==
  /\ ValidatorsInit /\ ExecutionLimitInit /\ SpendLimitInit
  /\ affirmationsSigned = [a \in Affirmation |-> {}]
  /\ numAffirmationsSigned = [a \in Affirmation |-> 0]
  /\ affirmationsProcessed = {}
  /\ messagesSigned = [m \in Message |-> {}]
  /\ signatures = [m \in Message |-> <<>>]
  /\ messagesProcessed = {}
  /\ txAboveLimits = [h \in TxHash |-> NoRecord]
  /\ outOfLimitAmount = 0
  /\ fixedAssets = {}
  /\ totalSupply = 0
  /\ minted = [a \in Affirmation |-> 0]
  /\ userRequests = [m \in Message |-> 0]
  /\ collected = {}

-----------------------------------------------------------------------------
(* Deposits: executeAffirmation *)

(* Mutant of OnExecuteAffirmation: a fee of 1 is minted on top.            *)
OnExecuteAffirmationPlusFee(a) ==
  /\ AddExecuted(a.value)
  /\ totalSupply' = totalSupply + a.value + 1
  /\ minted' = [minted EXCEPT ![a] = @ + 1]

OnExecuteAffirmation(a) ==
  /\ AddExecuted(a.value)
  /\ totalSupply' = totalSupply + a.value
  /\ minted' = [minted EXCEPT ![a] = @ + 1]

(* Mutant of IsQuorum: the quorum has to be exceeded.                      *)
ExceedsQuorum(signed) == signed > requiredSignatures

IsQuorum(signed) == signed >= requiredSignatures

CastVote(v, a) ==
  /\ affirmationsSigned' = [affirmationsSigned EXCEPT ![a] = @ \cup {v}]
  /\ numAffirmationsSigned' = [numAffirmationsSigned EXCEPT ![a] = @ + 1]
  /\ \/ /\ IsQuorum(numAffirmationsSigned[a] + 1)
        /\ affirmationsProcessed' = affirmationsProcessed \cup {a}
        /\ OnExecuteAffirmation(a)
     \/ /\ ~IsQuorum(numAffirmationsSigned[a] + 1)
        /\ UNCHANGED <<affirmationsProcessed, minted, totalSupply, executionVars>>
  /\ UNCHANGED overdrawVars

(* Mutants of Affirm: one of the two require statements is missing. *)
AffirmAgain(v, a)          == a \notin affirmationsProcessed /\ CastVote(v, a)
AffirmAfterExecution(v, a) == v \notin affirmationsSigned[a] /\ CastVote(v, a)

(* The branch taken within the limits. *)
Affirm(v, a) ==
  /\ v \notin affirmationsSigned[a]
  /\ a \notin affirmationsProcessed
  /\ CastVote(v, a)

RecordAboveLimits(a) ==
  /\ outOfLimitAmount' = outOfLimitAmount + a.value
  /\ txAboveLimits' = [txAboveLimits EXCEPT ![a.txHash] = a]
  /\ UNCHANGED <<affirmationVars, fixedAssets, totalSupply, executionVars>>

(* Mutant of OnFailedAffirmation: a record may be overwritten. *)
OnFailedAffirmationOverwrites(a) == RecordAboveLimits(a)

(* The branch taken above them: one call records the affirmation, whoever  *)
(* has voted for it and whether or not it has been executed.               *)
OnFailedAffirmation(a) ==
  /\ txAboveLimits[a.txHash] = NoRecord
  /\ RecordAboveLimits(a)

ExecuteAffirmation(v, a) ==
  /\ v \in validators
  /\ IF WithinExecutionLimit(a.value) THEN Affirm(v, a) ELSE OnFailedAffirmation(a)
  /\ UNCHANGED <<messageVars, userRequests, validatorVars, spendVars>>

Settle(h, unlockOnForeign) ==
  /\ txAboveLimits[h] # NoRecord
  /\ outOfLimitAmount >= txAboveLimits[h].value
  /\ outOfLimitAmount' = outOfLimitAmount - txAboveLimits[h].value
  /\ \/ /\ unlockOnForeign
        /\ \E u \in Unlock :
             /\ u.recipient = txAboveLimits[h].recipient
             /\ u.value = txAboveLimits[h].value
             /\ userRequests[u] < MaxRequests
             /\ userRequests' = [userRequests EXCEPT ![u] = @ + 1]
     \/ /\ ~unlockOnForeign
        /\ UNCHANGED userRequests
  /\ fixedAssets' = fixedAssets \cup {h}
  /\ UNCHANGED <<affirmationVars, messageVars, txAboveLimits, totalSupply,
                 validatorVars, executionVars, spendVars>>

(* Mutant of FixAssetsAboveLimits: the same transaction is settled again. *)
FixAssetsAgain(h, unlockOnForeign) == Settle(h, unlockOnForeign)

(* The owner settles what was recorded above the limits, at most once per  *)
(* foreign transaction, optionally asking to unlock it there again.        *)
FixAssetsAboveLimits(h, unlockOnForeign) ==
  /\ h \notin fixedAssets
  /\ Settle(h, unlockOnForeign)

-----------------------------------------------------------------------------
(* Withdrawals: onTokenTransfer, submitSignature *)

HoldsEnough(m) == totalSupply >= m.value

RequestSignatures(m) ==
  /\ HoldsEnough(m)
  /\ WithinLimit(m.value)
  /\ AddSpent(m.value)
  /\ userRequests[m] < MaxRequests
  /\ userRequests' = [userRequests EXCEPT ![m] = @ + 1]
  /\ UNCHANGED <<affirmationVars, messageVars, overdrawVars, validatorVars, executionVars>>

(* Mutant of OnTokenTransfer: the tokens are not burnt. *)
OnTokenTransferWithoutBurn(m) == RequestSignatures(m) /\ UNCHANGED totalSupply

(* A user sends tokens to the bridge, which burns them.  Two calls in one  *)
(* transaction are two steps with the same txHash.                         *)
OnTokenTransfer(m) ==
  /\ RequestSignatures(m)
  /\ totalSupply' = totalSupply - m.value

(* The signature goes into the slot after the last one. *)
StoreSignature(v, m, signed) ==
  /\ messagesSigned' = [messagesSigned EXCEPT ![m] = @ \cup {v}]
  /\ signatures' = [signatures EXCEPT ![m] = Append(@, v)]
  /\ \/ /\ IsQuorum(signed)
        /\ messagesProcessed' = messagesProcessed \cup {m}
        /\ collected' = collected \cup
             {[authorityResponsibleForRelay |-> v, message |-> m,
               NumberOfCollectedSignatures |-> requiredSignatures]}
     \/ /\ ~IsQuorum(signed)
        /\ UNCHANGED <<messagesProcessed, collected>>
  /\ UNCHANGED <<affirmationVars, overdrawVars, tokenVars,
                 validatorVars, executionVars, spendVars>>

(* Mutant of SubmitSignature: the duplicate check starts one vote late. *)
SubmitSignatureTwice(v, m) ==
  LET signed == Len(signatures[m]) + 1
  IN  /\ v \in validators
      /\ m \notin messagesProcessed
      /\ signed > 2 => v \notin messagesSigned[m]
      /\ StoreSignature(v, m, signed)

SubmitSignature(v, m) ==
  LET signed == Len(signatures[m]) + 1
  IN  /\ v \in validators
      /\ m \notin messagesProcessed
      /\ signed > 1 => v \notin messagesSigned[m]
      /\ StoreSignature(v, m, signed)

-----------------------------------------------------------------------------
bridgeVars == <<affirmationVars, messageVars, overdrawVars, tokenVars>>

HomeOwnerNext ==
  \/ ValidatorsNext /\ UNCHANGED <<bridgeVars, executionVars, spendVars>>
  \/ SetExecutionLimits /\ UNCHANGED <<bridgeVars, validatorVars, spendVars>>
  \/ SetSpendLimits /\ UNCHANGED <<bridgeVars, validatorVars, executionVars>>

(* getCurrentDay() returns another number than before. *)
HomeNewDay ==
  /\ NewExecutionDay
  /\ NewSpendDay
  /\ UNCHANGED <<bridgeVars, validatorVars>>

HomeNext ==
  \/ \E v \in Validator, a \in Affirmation : ExecuteAffirmation(v, a)
  \/ \E v \in Validator, m \in Message : SubmitSignature(v, m)
  \/ \E m \in Withdrawal : OnTokenTransfer(m)
  \/ \E h \in TxHash, unlock \in BOOLEAN : FixAssetsAboveLimits(h, unlock)
  \/ HomeOwnerNext
  \/ HomeNewDay

HomeSpec == HomeInit /\ [][HomeNext]_homeVars

-----------------------------------------------------------------------------
(* An affirmation is executed once, and only by a vote after which at      *)
(* least requiredSignatures different addresses, each a validator when it  *)
(* voted, have voted for it: whatever the owner adds, removes or resets    *)
(* while the votes come in, and however often a validator calls again.     *)
MintNeedsQuorum ==
  [][ \A a \in Affirmation : minted'[a] # minted[a] =>
        /\ minted[a] = 0 /\ minted'[a] = 1
        /\ Cardinality(affirmationsSigned'[a]) >= requiredSignatures ]_homeVars

(* The counter of votes is the number of voters, and an affirmation is     *)
(* marked processed exactly when its tokens were minted, once.             *)
VotesCounted ==
  \A a \in Affirmation :
    /\ numAffirmationsSigned[a] = Cardinality(affirmationsSigned[a])
    /\ minted[a] = IF a \in affirmationsProcessed THEN 1 ELSE 0

(* A message is announced as collected at most once, and the slots the     *)
(* announced relayer is going to read hold signatures of that many         *)
(* different validators: what executeSignatures will insist on.            *)
CollectedOnceAndDistinct ==
  /\ \A e, f \in collected : e.message = f.message => e = f
  /\ \A e \in collected :
       /\ e.NumberOfCollectedSignatures >= 1
       /\ e.NumberOfCollectedSignatures <= Len(signatures[e.message])
       /\ NoRepetition(signatures[e.message])

(* What is recorded per foreign transaction, what is requested per message *)
(* and what one request or execution of a transfer is worth.               *)
RecordedValue ==
  [h \in TxHash |-> IF txAboveLimits[h] = NoRecord THEN 0 ELSE txAboveLimits[h].value]
RequestedValue == [m \in Message |-> userRequests[m] * m.value]
ValueOf == [t \in Transfer |-> t.value]

(* The owner's view of what is left to settle is exact: outOfLimitAmount   *)
(* is the sum of the recorded and not yet fixed amounts, so that the       *)
(* subtraction in fixAssetsAboveLimits never reverts.                      *)
OutOfLimitAccounting ==
  outOfLimitAmount = SumFunctionOnSet(RecordedValue, TxHash \ fixedAssets)

(* What the owner asks to unlock on the foreign chain never exceeds what   *)
(* was recorded above the limits and settled.                              *)
UnlockedWithinRecorded ==
  SumFunctionOnSet(RequestedValue, Unlock) <= SumFunctionOnSet(RecordedValue, fixedAssets)

(* Tokens are made by executed affirmations and destroyed by withdrawals,  *)
(* one unit each: nothing is minted or burnt without its event.            *)
SupplyMatchesEvents ==
  totalSupply + SumFunctionOnSet(RequestedValue, Withdrawal)
    = SumFunctionOnSet(ValueOf, affirmationsProcessed)

(* What two tests say of the limits: a deposit whose transaction is        *)
(* recorded as above the limits is not executed any more ("should fail if  *)
(* txHash already set as above of limits"), and a late vote for one that   *)
(* was executed is rejected ("doesnt allow to deposit if                   *)
(* requiredSignatures has changed"): it is executed or recorded, not both. *)
ExecutedOrRecorded ==
  \A a \in affirmationsProcessed : txAboveLimits[a.txHash] # a
=============================================================================

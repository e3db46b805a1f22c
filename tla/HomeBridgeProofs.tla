-------------------------- MODULE HomeBridgeProofs --------------------------
(***************************************************************************)
(* Proofs about HomeBridge for every set of validators, transfers and      *)
(* limits.  The inductive invariant has four parts: the types, what the    *)
(* owner's changes leave true of the validators (BridgeValidatorsProofs),  *)
(* the agreement of votes, counter, mark and minting, and the agreement of *)
(* the slots of signatures with who has signed.  The two halves of the     *)
(* contract touch disjoint variables, so that each action has to be shown  *)
(* to preserve one half and to leave the other alone.                      *)
(***************************************************************************)
EXTENDS HomeBridge, BridgeValidatorsProofs, SumLemmas

(* The slots of a message hold each signer once, and what was announced as *)
(* collected is a part of them that does not change any more.              *)
SignaturesInv ==
  /\ \A m \in Message : NoRepetition(signatures[m]) /\ Members(signatures[m]) = messagesSigned[m]
  /\ \A e \in collected :
       /\ e.message \in messagesProcessed
       /\ e.NumberOfCollectedSignatures >= 1
       /\ e.NumberOfCollectedSignatures <= Len(signatures[e.message])
  /\ \A e, f \in collected : e.message = f.message => e = f

HomeInv == HomeTypeOK /\ ValidatorsInv /\ VotesCounted /\ SignaturesInv

(* initialize leaves the home bridge in a state of the invariant.          *)
LEMMA HomeInitEstablishes == HomeInit => HomeInv
<1> SUFFICES ASSUME HomeInit PROVE HomeInv
  OBVIOUS
<1>1. ValidatorsInv
  BY ValidatorsInitEstablishes DEF HomeInit
<1>2. ExecutionLimitTypeOK /\ SpendLimitTypeOK
  BY DEF HomeInit, ExecutionLimitInit, SpendLimitInit, ExecutionLimitTypeOK, SpendLimitTypeOK
<1>3. AffirmationTypeOK /\ OverdrawTypeOK /\ TokenTypeOK
  BY DEF HomeInit, AffirmationTypeOK, OverdrawTypeOK, TokenTypeOK
<1>4. MessageTypeOK
  BY EmptySeq DEF HomeInit, MessageTypeOK
<1>5. VotesCounted
  BY FS_EmptySet DEF HomeInit, VotesCounted
<1>6. SignaturesInv
  BY EmptySeq DEF HomeInit, SignaturesInv, NoRepetition, Members
<1> QED
  BY <1>1, <1>2, <1>3, <1>4, <1>5, <1>6 DEF HomeInv, HomeTypeOK, ValidatorsInv

-----------------------------------------------------------------------------
(* What an action leaves alone stays true. *)

(* The affirmations, for an action that casts no vote.                     *)
LEMMA AffirmationFrame ==
  ASSUME AffirmationTypeOK, VotesCounted, UNCHANGED affirmationVars
  PROVE  AffirmationTypeOK' /\ VotesCounted'
  BY DEF AffirmationTypeOK, VotesCounted, affirmationVars

(* The messages and signatures, for an action that signs nothing.          *)
LEMMA MessageFrame ==
  ASSUME MessageTypeOK, SignaturesInv, UNCHANGED messageVars
  PROVE  MessageTypeOK' /\ SignaturesInv'
<1>1. UNCHANGED <<messagesSigned, signatures, messagesProcessed, collected>>
  BY DEF messageVars
<1>2. MessageTypeOK'
  BY <1>1 DEF MessageTypeOK
<1>3. \A m \in Message : /\ NoRepetition(signatures[m])'
                         /\ Members(signatures[m])' = messagesSigned'[m]
  <2>1. \A m \in Message : /\ NoRepetition(signatures[m])
                           /\ Members(signatures[m]) = messagesSigned[m]
    BY DEF SignaturesInv
  <2> QED
    BY <1>1, <2>1 DEF NoRepetition, Members
<1>4. SignaturesInv'
  BY <1>1, <1>3 DEF SignaturesInv
<1> QED
  BY <1>2, <1>4

(* The validators, for an action of another contract.                      *)
LEMMA ValidatorsFrame ==
  ASSUME ValidatorsInv, UNCHANGED validatorVars
  PROVE  ValidatorsInv'
  BY ValidatorsNextPreserves

(* The execution limits, for an action that leaves them and the day alone. *)
LEMMA ExecutionFrame ==
  ASSUME ExecutionLimitTypeOK, UNCHANGED executionVars
  PROVE  ExecutionLimitTypeOK'
  BY DEF ExecutionLimitTypeOK, executionVars

(* The limits of users, likewise.                                          *)
LEMMA SpendFrame ==
  ASSUME SpendLimitTypeOK, UNCHANGED spendVars
  PROVE  SpendLimitTypeOK'
  BY DEF SpendLimitTypeOK, spendVars

-----------------------------------------------------------------------------
(* Votes are counted: the voter is a new one, so that the number of voters *)
(* and the counter both grow by one, and the affirmation was not processed *)
(* before, so that nothing had been minted for it.                         *)

(* The facts about one counted vote.                                       *)
LEMMA VoteIsCounted ==
  ASSUME HomeInv, NEW v \in Validator, NEW a \in Affirmation, Affirm(v, a)
  PROVE  Cardinality(affirmationsSigned'[a]) = numAffirmationsSigned'[a]
<1>1. /\ affirmationsSigned[a] \in SUBSET Validator
      /\ affirmationsSigned'[a] = affirmationsSigned[a] \cup {v}
      /\ numAffirmationsSigned'[a] = numAffirmationsSigned[a] + 1
      /\ v \notin affirmationsSigned[a]
  BY DEF HomeInv, HomeTypeOK, AffirmationTypeOK, Affirm, CastVote
<1>2. IsFiniteSet(affirmationsSigned[a])
  BY <1>1, ValidatorAssumption, FS_Subset
<1>3. Cardinality(affirmationsSigned[a] \cup {v}) = Cardinality(affirmationsSigned[a]) + 1
  BY <1>1, <1>2, FS_AddElement
<1>4. Cardinality(affirmationsSigned[a]) = numAffirmationsSigned[a]
  BY DEF HomeInv, VotesCounted
<1> QED
  BY <1>1, <1>3, <1>4

(* A vote within the limits keeps the invariant, with or without a mint.   *)
LEMMA AffirmPreserves ==
  ASSUME HomeInv, NEW v \in Validator, NEW a \in Affirmation, Affirm(v, a)
  PROVE  /\ AffirmationTypeOK' /\ VotesCounted'
         /\ OverdrawTypeOK' /\ ExecutionLimitTypeOK' /\ totalSupply' \in Nat
<1> USE DEF HomeInv, HomeTypeOK
<1>1. a.value \in Nat
  BY TransferAssumption DEF Transfer
<1>2. AffirmationTypeOK'
  BY DEF AffirmationTypeOK, Affirm, CastVote, OnExecuteAffirmation
<1>3. VotesCounted'
  <2> SUFFICES ASSUME NEW b \in Affirmation
               PROVE  /\ numAffirmationsSigned'[b] = Cardinality(affirmationsSigned'[b])
                      /\ minted'[b] = IF b \in affirmationsProcessed' THEN 1 ELSE 0
    BY DEF VotesCounted
  <2>1. CASE b = a
    <3>1. minted[a] = 0 /\ a \notin affirmationsProcessed
      BY DEF VotesCounted, Affirm
    <3>2. minted'[a] = IF a \in affirmationsProcessed' THEN 1 ELSE 0
      BY <3>1 DEF AffirmationTypeOK, Affirm, CastVote, OnExecuteAffirmation
    <3> QED
      BY <2>1, <3>2, VoteIsCounted
  <2>2. CASE b # a
    BY <2>2 DEF VotesCounted, AffirmationTypeOK, Affirm, CastVote, OnExecuteAffirmation
  <2> QED
    BY <2>1, <2>2
<1>4. OverdrawTypeOK'
  BY DEF OverdrawTypeOK, Affirm, CastVote, overdrawVars
<1>5. ExecutionLimitTypeOK' /\ totalSupply' \in Nat
  BY <1>1 DEF ExecutionLimitTypeOK, TokenTypeOK, Affirm, CastVote, OnExecuteAffirmation,
              AddExecuted, executionVars
<1> QED
  BY <1>2, <1>3, <1>4, <1>5

(* So does a vote above them, which only records.                          *)
LEMMA OnFailedAffirmationPreserves ==
  ASSUME HomeInv, NEW a \in Affirmation, OnFailedAffirmation(a)
  PROVE  /\ AffirmationTypeOK' /\ VotesCounted'
         /\ OverdrawTypeOK' /\ ExecutionLimitTypeOK' /\ totalSupply' \in Nat
<1> USE DEF HomeInv, HomeTypeOK, OnFailedAffirmation, RecordAboveLimits
<1>1. a.value \in Nat /\ a.txHash \in TxHash
  BY TransferAssumption DEF Transfer, TxHash
<1>2. AffirmationTypeOK' /\ VotesCounted'
  BY AffirmationFrame
<1>3. OverdrawTypeOK'
  BY <1>1 DEF OverdrawTypeOK
<1> QED
  BY <1>2, <1>3, ExecutionFrame DEF TokenTypeOK

(* executeAffirmation is one or the other, by a validator.                 *)
LEMMA ExecuteAffirmationPreserves ==
  ASSUME HomeInv, NEW v \in Validator, NEW a \in Affirmation, ExecuteAffirmation(v, a)
  PROVE  HomeInv'
<1>1. /\ AffirmationTypeOK' /\ VotesCounted'
      /\ OverdrawTypeOK' /\ ExecutionLimitTypeOK' /\ totalSupply' \in Nat
  BY AffirmPreserves, OnFailedAffirmationPreserves DEF ExecuteAffirmation
<1>2. ValidatorsInv' /\ MessageTypeOK' /\ SignaturesInv' /\ SpendLimitTypeOK'
  BY ValidatorsFrame, MessageFrame, SpendFrame DEF ExecuteAffirmation, HomeInv, HomeTypeOK
<1>3. TokenTypeOK'
  BY <1>1 DEF ExecuteAffirmation, HomeInv, HomeTypeOK, TokenTypeOK
<1> QED
  BY <1>1, <1>2, <1>3 DEF HomeInv, HomeTypeOK, ValidatorsInv

-----------------------------------------------------------------------------
(* Signatures: the signer is a new one also where the code does not ask,   *)
(* for the first slot, and a message that is announced was not announced   *)
(* before.                                                                 *)

(* submitSignature keeps the invariant, with or without the announcement.  *)
LEMMA SubmitSignaturePreserves ==
  ASSUME HomeInv, NEW v \in Validator, NEW m \in Message, SubmitSignature(v, m)
  PROVE  HomeInv'
<1> DEFINE signed == Len(signatures[m]) + 1
           event  == [authorityResponsibleForRelay |-> v, message |-> m,
                      NumberOfCollectedSignatures |-> requiredSignatures]
<1> USE DEF HomeInv, HomeTypeOK, MessageTypeOK
<1>1. /\ signatures[m] \in Seq(Validator)
      /\ NoRepetition(signatures[m])
      /\ Members(signatures[m]) = messagesSigned[m]
      /\ messagesSigned[m] \in SUBSET Validator
  BY DEF SignaturesInv
<1>2. Len(signatures[m]) \in Nat
  BY <1>1, LenProperties
<1>3. v \notin Members(signatures[m])
  <2>1. CASE signed > 1
    BY <1>1, <2>1 DEF SubmitSignature
  <2>2. CASE Len(signatures[m]) = 0
    BY <2>2 DEF Members
  <2> QED
    BY <1>2, <2>1, <2>2
<1>4. StoreSignature(v, m, signed) /\ m \notin messagesProcessed
  BY DEF SubmitSignature
<1>5. /\ signatures'[m] = Append(signatures[m], v)
      /\ messagesSigned'[m] = messagesSigned[m] \cup {v}
      /\ \A n \in Message \ {m} : signatures'[n] = signatures[n]
                                 /\ messagesSigned'[n] = messagesSigned[n]
      /\ signatures' = [signatures EXCEPT ![m] = Append(signatures[m], v)]
      /\ messagesSigned' = [messagesSigned EXCEPT ![m] = messagesSigned[m] \cup {v}]
  BY <1>4 DEF StoreSignature
<1>6. /\ signatures'[m] \in Seq(Validator)
      /\ Len(signatures'[m]) = signed
      /\ NoRepetition(signatures'[m])
      /\ Members(signatures'[m]) = messagesSigned'[m]
  BY <1>1, <1>3, <1>5, AppendKeepsMembers
<1>7. \/ IsQuorum(signed) /\ messagesProcessed' = messagesProcessed \cup {m}
                         /\ collected' = collected \cup {event}
      \/ messagesProcessed' = messagesProcessed /\ collected' = collected
  BY <1>4 DEF StoreSignature
<1>8. requiredSignatures \in Nat \ {0}
  BY DEF ValidatorsInv, ValidatorsTypeOK
<1>9. MessageTypeOK'
  <2>1. event \in CollectedSignatures
    BY <1>8 DEF CollectedSignatures
  <2> QED
    BY <1>1, <1>5, <1>6, <1>7, <2>1
<1>10. \A n \in Message : NoRepetition(signatures'[n]) /\ Members(signatures'[n]) = messagesSigned'[n]
  BY <1>5, <1>6 DEF SignaturesInv
<1>11. ASSUME NEW e \in collected
       PROVE  /\ e.message \in messagesProcessed'
              /\ e.NumberOfCollectedSignatures >= 1
              /\ e.NumberOfCollectedSignatures <= Len(signatures'[e.message])
  <2>1. /\ e.message \in messagesProcessed
        /\ e.NumberOfCollectedSignatures >= 1
        /\ e.NumberOfCollectedSignatures <= Len(signatures[e.message])
    BY <1>11 DEF SignaturesInv
  <2>2. e.message \in Message \ {m}
    BY <1>4, <2>1
  <2> QED
    BY <1>5, <1>7, <2>1, <2>2
<1>12. ASSUME NEW e \in collected PROVE e.message # m
  BY <1>4, <1>12 DEF SignaturesInv
<1>13. SignaturesInv'
  <2>1. CASE collected' = collected
    BY <1>10, <1>11, <2>1 DEF SignaturesInv
  <2>2. CASE IsQuorum(signed) /\ messagesProcessed' = messagesProcessed \cup {m}
               /\ collected' = collected \cup {event}
    <3>1. /\ event.message \in messagesProcessed'
          /\ event.NumberOfCollectedSignatures >= 1
          /\ event.NumberOfCollectedSignatures <= Len(signatures'[event.message])
      BY <1>6, <1>8, <2>2 DEF IsQuorum
    <3>2. \A e \in collected' : e \in collected \/ e = event
      BY <2>2
    <3>3. \A e, f \in collected' : e.message = f.message => e = f
      BY <1>12, <3>2 DEF SignaturesInv
    <3> HIDE DEF event
    <3>4. \A e \in collected' :
            /\ e.message \in messagesProcessed'
            /\ e.NumberOfCollectedSignatures >= 1
            /\ e.NumberOfCollectedSignatures <= Len(signatures'[e.message])
      BY <1>11, <3>1, <3>2
    <3> QED
      BY <1>10, <3>3, <3>4 DEF SignaturesInv
  <2> QED
    BY <1>7, <2>1, <2>2
<1>14. /\ AffirmationTypeOK' /\ VotesCounted' /\ ValidatorsInv'
       /\ ExecutionLimitTypeOK' /\ SpendLimitTypeOK'
  BY <1>4, AffirmationFrame, ValidatorsFrame, ExecutionFrame, SpendFrame DEF StoreSignature
<1>15. OverdrawTypeOK' /\ TokenTypeOK'
  BY <1>4 DEF StoreSignature, OverdrawTypeOK, TokenTypeOK, overdrawVars, tokenVars
<1> QED
  BY <1>9, <1>13, <1>14, <1>15 DEF ValidatorsInv

-----------------------------------------------------------------------------
(* The other actions change amounts only. *)

(* onTokenTransfer burns what the holder has, so the supply stays a number. *)
LEMMA OnTokenTransferPreserves ==
  ASSUME HomeInv, NEW m \in Withdrawal, OnTokenTransfer(m)
  PROVE  HomeInv'
<1> USE DEF HomeInv, HomeTypeOK, OnTokenTransfer, RequestSignatures
<1>1. m.value \in Nat /\ m \in Message
  BY TransferAssumption DEF Transfer, Message
<1>2. AffirmationTypeOK' /\ VotesCounted' /\ MessageTypeOK' /\ SignaturesInv'
  BY AffirmationFrame, MessageFrame
<1>3. ValidatorsInv' /\ ExecutionLimitTypeOK'
  BY ValidatorsFrame, ExecutionFrame
<1>4. OverdrawTypeOK'
  BY DEF OverdrawTypeOK, overdrawVars
<1>5. SpendLimitTypeOK'
  BY <1>1 DEF SpendLimitTypeOK, AddSpent
<1>6. TokenTypeOK'
  BY <1>1 DEF TokenTypeOK, HoldsEnough
<1> QED
  BY <1>2, <1>3, <1>4, <1>5, <1>6 DEF ValidatorsInv

(* fixAssetsAboveLimits subtracts only what is there.                      *)
LEMMA FixAssetsPreserves ==
  ASSUME HomeInv, NEW h \in TxHash, NEW unlock \in BOOLEAN, FixAssetsAboveLimits(h, unlock)
  PROVE  HomeInv'
<1> USE DEF HomeInv, HomeTypeOK, FixAssetsAboveLimits, Settle
<1>1. txAboveLimits[h].value \in Nat
  BY TransferAssumption DEF OverdrawTypeOK, Transfer
<1>2. AffirmationTypeOK' /\ VotesCounted' /\ MessageTypeOK' /\ SignaturesInv'
  BY AffirmationFrame, MessageFrame
<1>3. ValidatorsInv' /\ ExecutionLimitTypeOK' /\ SpendLimitTypeOK'
  BY ValidatorsFrame, ExecutionFrame, SpendFrame
<1>4. OverdrawTypeOK'
  BY <1>1 DEF OverdrawTypeOK
<1>5. TokenTypeOK'
  BY DEF TokenTypeOK, Message
<1> QED
  BY <1>2, <1>3, <1>4, <1>5 DEF ValidatorsInv

(* The setters of the owner keep the invariant.                            *)
LEMMA HomeOwnerPreserves ==
  ASSUME HomeInv, HomeOwnerNext
  PROVE  HomeInv'
<1> USE DEF HomeInv, HomeTypeOK
<1>1. UNCHANGED bridgeVars
  BY DEF HomeOwnerNext
<1>2. AffirmationTypeOK' /\ VotesCounted' /\ MessageTypeOK' /\ SignaturesInv'
  BY <1>1, AffirmationFrame, MessageFrame DEF bridgeVars
<1>3. OverdrawTypeOK' /\ TokenTypeOK'
  BY <1>1 DEF OverdrawTypeOK, TokenTypeOK, bridgeVars, overdrawVars, tokenVars
<1>4. ValidatorsInv'
  BY ValidatorsNextPreserves DEF HomeOwnerNext
<1>5. ExecutionLimitTypeOK'
  BY ExecutionFrame, ExecutionLimitsAssumption
     DEF HomeOwnerNext, SetExecutionLimits, SetExecutionDailyLimit, SetExecutionMaxPerTx,
         ExecutionLimitTypeOK
<1>6. SpendLimitTypeOK'
  BY SpendFrame, SpendLimitsAssumption
     DEF HomeOwnerNext, SetSpendLimits, SetDailyLimit, SetMaxPerTx, SetMinPerTx, SpendLimitTypeOK
<1> QED
  BY <1>2, <1>3, <1>4, <1>5, <1>6 DEF ValidatorsInv

(* A new day keeps the invariant.                                          *)
LEMMA HomeNewDayPreserves ==
  ASSUME HomeInv, HomeNewDay
  PROVE  HomeInv'
<1> USE DEF HomeInv, HomeTypeOK, HomeNewDay, bridgeVars
<1>1. AffirmationTypeOK' /\ VotesCounted' /\ MessageTypeOK' /\ SignaturesInv'
  BY AffirmationFrame, MessageFrame
<1>2. OverdrawTypeOK' /\ TokenTypeOK'
  BY DEF OverdrawTypeOK, TokenTypeOK, overdrawVars, tokenVars
<1>3. ValidatorsInv'
  BY ValidatorsFrame
<1>4. ExecutionLimitTypeOK' /\ SpendLimitTypeOK'
  BY DEF NewExecutionDay, NewSpendDay, ExecutionLimitTypeOK, SpendLimitTypeOK
<1> QED
  BY <1>1, <1>2, <1>3, <1>4 DEF ValidatorsInv

(* Every step of the home bridge keeps the invariant.                      *)
LEMMA HomeNextPreserves ==
  ASSUME HomeInv, [HomeNext]_homeVars
  PROVE  HomeInv'
<1>1. CASE UNCHANGED homeVars
  <2>1. HomeNewDay \/ HomeInv'
    BY <1>1, AffirmationFrame, MessageFrame, ValidatorsFrame, ExecutionFrame, SpendFrame
       DEF homeVars, HomeInv, HomeTypeOK, OverdrawTypeOK, TokenTypeOK, overdrawVars, tokenVars,
           ValidatorsInv
  <2> QED
    BY <2>1, HomeNewDayPreserves
<1>2. CASE \E v \in Validator, a \in Affirmation : ExecuteAffirmation(v, a)
  BY <1>2, ExecuteAffirmationPreserves
<1>3. CASE \E v \in Validator, m \in Message : SubmitSignature(v, m)
  BY <1>3, SubmitSignaturePreserves
<1>4. CASE \E m \in Withdrawal : OnTokenTransfer(m)
  BY <1>4, OnTokenTransferPreserves
<1>5. CASE \E h \in TxHash, unlock \in BOOLEAN : FixAssetsAboveLimits(h, unlock)
  BY <1>5, FixAssetsPreserves
<1> QED
  BY <1>1, <1>2, <1>3, <1>4, <1>5, HomeOwnerPreserves, HomeNewDayPreserves DEF HomeNext

-----------------------------------------------------------------------------
(* The invariant holds in every state of the home bridge.                  *)
THEOREM HomeInvariant == HomeSpec => []HomeInv
<1>1. HomeInit => HomeInv
  BY HomeInitEstablishes
<1>2. HomeInv /\ [HomeNext]_homeVars => HomeInv'
  BY HomeNextPreserves
<1> QED
  BY <1>1, <1>2, PTL DEF HomeSpec

(* The home bridge is type correct: in particular neither a counter nor an *)
(* amount ever falls below zero.                                           *)
THEOREM HomeTypeCorrect == HomeSpec => []HomeTypeOK
<1>1. HomeInv => HomeTypeOK
  BY DEF HomeInv
<1> QED
  BY <1>1, HomeInvariant, PTL

(* The counter of an affirmation is the number of its voters, and it is    *)
(* marked processed exactly when it was minted, once.                      *)
THEOREM VotesAlwaysCounted == HomeSpec => []VotesCounted
<1>1. HomeInv => VotesCounted
  BY DEF HomeInv
<1> QED
  BY <1>1, HomeInvariant, PTL

(* A message is announced once, and what is announced are signatures of as *)
(* many different validators.                                              *)
THEOREM AlwaysCollectedOnce == HomeSpec => []CollectedOnceAndDistinct
<1>1. HomeInv => CollectedOnceAndDistinct
  BY DEF HomeInv, HomeTypeOK, MessageTypeOK, SignaturesInv, CollectedOnceAndDistinct
<1> QED
  BY <1>1, HomeInvariant, PTL

-----------------------------------------------------------------------------
(* Only a vote mints, and only for the affirmation it is for.              *)
LEMMA OnlyVotesMint ==
  ASSUME HomeInv, [HomeNext]_homeVars, NEW a \in Affirmation, minted'[a] # minted[a]
  PROVE  \E v \in Validator : Affirm(v, a) /\ OnExecuteAffirmation(a)
                             /\ IsQuorum(numAffirmationsSigned[a] + 1)
<1>1. CASE \E v \in Validator, b \in Affirmation : ExecuteAffirmation(v, b)
  <2>1. PICK v \in Validator, b \in Affirmation : ExecuteAffirmation(v, b)
    BY <1>1
  <2>2. Affirm(v, b)
    BY <2>1 DEF ExecuteAffirmation, OnFailedAffirmation, RecordAboveLimits, affirmationVars
  <2>3. OnExecuteAffirmation(b) /\ IsQuorum(numAffirmationsSigned[b] + 1)
    BY <2>2 DEF Affirm, CastVote
  <2>4. b = a
    BY <2>3 DEF OnExecuteAffirmation, HomeInv, HomeTypeOK, AffirmationTypeOK
  <2> QED
    BY <2>2, <2>3, <2>4
<1>2. CASE UNCHANGED minted
  BY <1>2
<1> QED
  BY <1>1, <1>2
     DEF HomeNext, homeVars, affirmationVars, bridgeVars, SubmitSignature, StoreSignature,
         OnTokenTransfer, RequestSignatures, FixAssetsAboveLimits, Settle, HomeOwnerNext,
         HomeNewDay

(* An affirmation is executed once, by a vote with which a quorum of       *)
(* different validators has voted for it.                                  *)
THEOREM MintAlwaysNeedsQuorum == HomeSpec => MintNeedsQuorum
<1>1. ASSUME HomeInv, [HomeNext]_homeVars, NEW a \in Affirmation, minted'[a] # minted[a]
      PROVE  /\ minted[a] = 0 /\ minted'[a] = 1
             /\ Cardinality(affirmationsSigned'[a]) >= requiredSignatures
  <2>1. PICK v \in Validator : Affirm(v, a) /\ OnExecuteAffirmation(a)
                               /\ IsQuorum(numAffirmationsSigned[a] + 1)
    BY <1>1, OnlyVotesMint
  <2>2. minted[a] = 0 /\ minted'[a] = 1
    BY <1>1, <2>1 DEF HomeInv, HomeTypeOK, AffirmationTypeOK, VotesCounted, Affirm,
                      OnExecuteAffirmation
  <2>3. Cardinality(affirmationsSigned'[a]) = numAffirmationsSigned[a] + 1
    BY <1>1, <2>1, VoteIsCounted DEF HomeInv, HomeTypeOK, AffirmationTypeOK, Affirm, CastVote
  <2> QED
    BY <2>1, <2>2, <2>3 DEF IsQuorum
<1>2. HomeInv /\ [HomeNext]_homeVars
        => [ \A a \in Affirmation : minted'[a] # minted[a] =>
               /\ minted[a] = 0 /\ minted'[a] = 1
               /\ Cardinality(affirmationsSigned'[a]) >= requiredSignatures ]_homeVars
  BY <1>1
<1> QED
  BY <1>2, HomeInvariant, PTL DEF HomeSpec, MintNeedsQuorum

-----------------------------------------------------------------------------
(* Amounts.  The sums of the three properties about them change by what    *)
(* the step writes at one index: a record, a request or an execution.      *)

(* What was settled had been recorded; the rest is what the properties say *)
(* of the totals.                                                          *)
SettledIsRecorded == \A h \in fixedAssets : txAboveLimits[h] # NoRecord

AmountsInv ==
  SettledIsRecorded /\ OutOfLimitAccounting /\ UnlockedWithinRecorded /\ SupplyMatchesEvents

(* The values summed up are natural numbers, and there are finitely many.  *)
Numbers ==
  /\ RecordedValue \in [TxHash -> Nat]
  /\ RequestedValue \in [Message -> Nat]
  /\ ValueOf \in [Transfer -> Nat]
  /\ fixedAssets \subseteq TxHash /\ affirmationsProcessed \subseteq Affirmation

(* They are finitely many.                                                 *)
LEMMA TransfersAreFinite ==
  /\ IsFiniteSet(TxHash) /\ IsFiniteSet(Affirmation)
  /\ IsFiniteSet(Withdrawal) /\ IsFiniteSet(Unlock)
  /\ Withdrawal \cap Unlock = {}
<1>1. IsFiniteSet(Affirmation) /\ IsFiniteSet(Withdrawal) /\ IsFiniteSet(Unlock)
  BY TransferAssumption, FS_Subset DEF Transfer
<1>2. IsFiniteSet(TxHash)
  <2> DEFINE f == [a \in Affirmation |-> a.txHash]
  <2>1. IsFiniteSet({f[a] : a \in Affirmation})
    BY <1>1, FiniteImage
  <2>2. {f[a] : a \in Affirmation} = TxHash
    BY DEF TxHash
  <2> QED
    BY <2>1, <2>2
<1>3. Withdrawal \cap Unlock = {}
  BY TransferAssumption
<1> QED
  BY <1>1, <1>2, <1>3

(* They are natural numbers.                                               *)
LEMMA AmountsAreNumbers == HomeInv => Numbers
<1> SUFFICES ASSUME HomeInv PROVE Numbers
  OBVIOUS
<1> USE DEF HomeInv, HomeTypeOK, Numbers
<1>1. \A t \in Transfer : t.value \in Nat
  BY TransferAssumption
<1>2. RecordedValue \in [TxHash -> Nat]
  BY <1>1 DEF RecordedValue, OverdrawTypeOK, Transfer
<1>3. RequestedValue \in [Message -> Nat]
  <2>1. ASSUME NEW m \in Message PROVE userRequests[m] * m.value \in Nat
    <3>1. userRequests[m] \in Nat /\ m.value \in Nat
      BY <1>1 DEF TokenTypeOK, Transfer, Message
    <3> QED
      BY <3>1
  <2> QED
    BY <2>1 DEF RequestedValue
<1>4. ValueOf \in [Transfer -> Nat]
  BY <1>1 DEF ValueOf
<1> QED
  BY <1>2, <1>3, <1>4 DEF OverdrawTypeOK, AffirmationTypeOK

(* After a step, too.                                                      *)
LEMMA AmountsStayNumbers == HomeInv' => Numbers'
BY AmountsAreNumbers, PTL

(* A step that records, settles, requests and executes nothing.            *)
LEMMA AmountsFrame ==
  ASSUME AmountsInv, UNCHANGED <<overdrawVars, tokenVars, affirmationsProcessed>>
  PROVE  AmountsInv'
<1>1. UNCHANGED <<txAboveLimits, outOfLimitAmount, fixedAssets, totalSupply, userRequests,
                 affirmationsProcessed>>
  BY DEF overdrawVars, tokenVars
<1>2. RecordedValue' = RecordedValue /\ RequestedValue' = RequestedValue /\ ValueOf' = ValueOf
  BY <1>1 DEF RecordedValue, RequestedValue, ValueOf
<1> QED
  BY <1>1, <1>2 DEF AmountsInv, SettledIsRecorded, OutOfLimitAccounting, UnlockedWithinRecorded,
                    SupplyMatchesEvents

(* One request more of m adds its value to those of its kind.              *)
LEMMA RequestAdds ==
  ASSUME HomeInv, NEW m \in Message, NEW Kind \in {Withdrawal, Unlock},
         OneMore(userRequests', userRequests, m)
  PROVE  SumFunctionOnSet(RequestedValue', Kind) =
           SumFunctionOnSet(RequestedValue, Kind) + (IF m \in Kind THEN m.value ELSE 0)
<1> DEFINE worth == [n \in Message |-> n.value]
<1>1. userRequests \in [Message -> Nat] /\ worth \in [Message -> Nat] /\ worth[m] = m.value
  BY TransferAssumption DEF HomeInv, HomeTypeOK, TokenTypeOK, Transfer, Message
<1>2. /\ RequestedValue = Worth(userRequests, worth, Message)
      /\ RequestedValue' = Worth(userRequests', worth, Message)
  BY DEF RequestedValue, Worth
<1>3. Kind \in SUBSET Message /\ IsFiniteSet(Kind)
  BY TransfersAreFinite DEF Message
<1> HIDE DEF worth
<1>4. SumFunctionOnSet(RequestedValue, Kind) \in Nat
  BY <1>1, <1>2, <1>3, SumOfWorth
<1>5. CASE m \in Kind
  BY <1>1, <1>2, <1>3, <1>5, SumCountsOneMore
<1>6. CASE m \notin Kind
  <2>1. SumFunctionOnSet(RequestedValue', Kind) = SumFunctionOnSet(RequestedValue, Kind)
    BY <1>1, <1>2, <1>3, <1>6, SumCountsElsewhere
  <2> QED
    BY <1>4, <1>6, <2>1
<1> QED
  BY <1>5, <1>6

(* A vote that executes the affirmation adds its value to both sides.      *)
LEMMA AffirmKeepsAmounts ==
  ASSUME HomeInv, AmountsInv, NEW v \in Validator, NEW a \in Affirmation, Affirm(v, a),
         UNCHANGED userRequests
  PROVE  AmountsInv'
<1>1. CASE UNCHANGED <<affirmationsProcessed, totalSupply>>
  BY <1>1, AmountsFrame DEF Affirm, CastVote, overdrawVars, tokenVars
<1>2. CASE affirmationsProcessed' = affirmationsProcessed \cup {a} /\ OnExecuteAffirmation(a)
  <2>1. UNCHANGED <<txAboveLimits, outOfLimitAmount, fixedAssets, userRequests>>
    BY DEF Affirm, CastVote, overdrawVars
  <2>2. RecordedValue' = RecordedValue /\ RequestedValue' = RequestedValue /\ ValueOf' = ValueOf
    BY <2>1 DEF RecordedValue, RequestedValue, ValueOf
  <2>3. a \notin affirmationsProcessed /\ IsFiniteSet(affirmationsProcessed) /\ ValueOf[a] = a.value
        /\ a.value \in Nat /\ \A b \in affirmationsProcessed : ValueOf[b] \in Int
    BY AmountsAreNumbers, TransfersAreFinite, FS_Subset, TransferAssumption
       DEF Numbers, Affirm, ValueOf, Transfer
  <2>4. SumFunctionOnSet(ValueOf, affirmationsProcessed')
          = SumFunctionOnSet(ValueOf, affirmationsProcessed) + a.value
    BY <1>2, <2>3, SumAdds
  <2>5. \A m \in Withdrawal : RequestedValue[m] \in Int
    BY AmountsAreNumbers, TransfersAreFinite DEF Numbers, Message
  <2>6. /\ SumFunctionOnSet(RequestedValue, Withdrawal) \in Int
        /\ SumFunctionOnSet(ValueOf, affirmationsProcessed) \in Int
        /\ totalSupply \in Nat
    BY <2>3, <2>5, TransfersAreFinite, SumIsInt DEF HomeInv, HomeTypeOK, TokenTypeOK
  <2>7. SupplyMatchesEvents'
    BY <1>2, <2>2, <2>3, <2>4, <2>6 DEF AmountsInv, SupplyMatchesEvents, OnExecuteAffirmation
  <2> QED
    BY <2>1, <2>2, <2>7 DEF AmountsInv, SettledIsRecorded, OutOfLimitAccounting,
                            UnlockedWithinRecorded
<1> QED
  BY <1>1, <1>2 DEF Affirm, CastVote

(* A record adds its value to what is left to settle: nothing was recorded *)
(* for the transaction, so that nothing of it was settled.                 *)
LEMMA RecordKeepsAmounts ==
  ASSUME HomeInv, HomeInv', AmountsInv, NEW a \in Affirmation, OnFailedAffirmation(a),
         UNCHANGED userRequests
  PROVE  AmountsInv'
<1> DEFINE h == a.txHash
           open == TxHash \ fixedAssets
<1>1. /\ txAboveLimits[h] = NoRecord /\ h \in TxHash
      /\ txAboveLimits' = [txAboveLimits EXCEPT ![h] = a]
      /\ outOfLimitAmount' = outOfLimitAmount + a.value
      /\ UNCHANGED <<fixedAssets, totalSupply, affirmationsProcessed, userRequests>>
  BY DEF OnFailedAffirmation, RecordAboveLimits, affirmationVars, TxHash
<1>2. /\ RequestedValue' = RequestedValue /\ ValueOf' = ValueOf
      /\ \A k \in TxHash \ {h} : RecordedValue'[k] = RecordedValue[k]
      /\ RecordedValue[h] = 0 /\ RecordedValue'[h] = a.value
  BY <1>1, TransferAssumption
     DEF RequestedValue, ValueOf, RecordedValue, HomeInv, HomeTypeOK, OverdrawTypeOK
<1>3. h \in open /\ h \notin fixedAssets
  BY <1>1 DEF AmountsInv, SettledIsRecorded
<1>4. /\ \A k \in TxHash : RecordedValue[k] \in Nat /\ RecordedValue'[k] \in Nat
      /\ IsFiniteSet(open) /\ IsFiniteSet(fixedAssets) /\ fixedAssets \subseteq TxHash
  BY AmountsAreNumbers, AmountsStayNumbers, TransfersAreFinite, FS_Subset DEF Numbers
<1> HIDE DEF h, open
<1>5. SumFunctionOnSet(RecordedValue', open) = SumFunctionOnSet(RecordedValue, open) + a.value
  <2>1. open \subseteq TxHash
    BY DEF open
  <2>2. SumFunctionOnSet(RecordedValue', open)
          = SumFunctionOnSet(RecordedValue, open) - RecordedValue[h] + RecordedValue'[h]
    BY <1>2, <1>3, <1>4, <2>1, SumUpdates
  <2>3. SumFunctionOnSet(RecordedValue, open) \in Int /\ a.value \in Int
    BY <1>4, <2>1, SumIsInt, TransferAssumption DEF Transfer
  <2> QED
    BY <1>2, <2>2, <2>3
<1>6. SumFunctionOnSet(RecordedValue', fixedAssets) = SumFunctionOnSet(RecordedValue, fixedAssets)
  <2>1. \A k \in fixedAssets : RecordedValue[k] \in Int /\ RecordedValue'[k] = RecordedValue[k]
    BY <1>2, <1>3, <1>4
  <2> QED
    BY <1>4, <2>1, SumSame
<1>7. OutOfLimitAccounting'
  BY <1>1, <1>5 DEF AmountsInv, OutOfLimitAccounting, open
<1>8. SettledIsRecorded'
  BY <1>1, <1>3 DEF AmountsInv, SettledIsRecorded, HomeInv, HomeTypeOK, OverdrawTypeOK
<1> QED
  BY <1>1, <1>2, <1>6, <1>7, <1>8 DEF AmountsInv, UnlockedWithinRecorded, SupplyMatchesEvents

(* Settling moves the recorded value from what is left to what is settled, *)
(* and asks to unlock no more than that.                                   *)
LEMMA SettleKeepsAmounts ==
  ASSUME HomeInv, HomeInv', AmountsInv, NEW h \in TxHash, NEW unlock \in BOOLEAN,
         FixAssetsAboveLimits(h, unlock)
  PROVE  AmountsInv'
<1> DEFINE open == TxHash \ fixedAssets
           r == RecordedValue[h]
<1>1. /\ txAboveLimits[h] # NoRecord /\ h \in open /\ h \notin fixedAssets
      /\ outOfLimitAmount' = outOfLimitAmount - r
      /\ fixedAssets' = fixedAssets \cup {h}
      /\ TxHash \ fixedAssets' = open \ {h}
      /\ UNCHANGED <<txAboveLimits, totalSupply, affirmationsProcessed>>
  BY DEF FixAssetsAboveLimits, Settle, RecordedValue, affirmationVars
<1>2. RecordedValue' = RecordedValue /\ ValueOf' = ValueOf
  BY <1>1 DEF RecordedValue, ValueOf
<1>3. /\ \A k \in TxHash : RecordedValue[k] \in Int
      /\ IsFiniteSet(open) /\ IsFiniteSet(fixedAssets) /\ fixedAssets \subseteq TxHash
      /\ open \subseteq TxHash
  BY AmountsAreNumbers, TransfersAreFinite, FS_Subset DEF Numbers
<1> HIDE DEF open, r
<1>4. SumFunctionOnSet(RecordedValue, open) = r + SumFunctionOnSet(RecordedValue, open \ {h})
  BY <1>1, <1>3, SumTakesOut DEF r
<1>5. SumFunctionOnSet(RecordedValue, fixedAssets') = SumFunctionOnSet(RecordedValue, fixedAssets) + r
  BY <1>1, <1>3, SumAdds DEF r
<1>6. /\ r \in Int
      /\ SumFunctionOnSet(RecordedValue, open \ {h}) \in Int
      /\ SumFunctionOnSet(RecordedValue, fixedAssets) \in Int
  BY <1>3, FS_Subset, SumIsInt DEF r
<1>7. OutOfLimitAccounting'
  <2>1. outOfLimitAmount = SumFunctionOnSet(RecordedValue, open)
    BY DEF AmountsInv, OutOfLimitAccounting, open
  <2>2. outOfLimitAmount' = SumFunctionOnSet(RecordedValue, open \ {h})
    BY <1>1, <1>4, <1>6, <2>1
  <2> QED
    BY <1>1, <1>2, <2>2 DEF OutOfLimitAccounting
<1>8. SettledIsRecorded'
  BY <1>1 DEF AmountsInv, SettledIsRecorded
<1>9. /\ SumFunctionOnSet(RequestedValue, Unlock) \in Int
      /\ SumFunctionOnSet(RequestedValue, Withdrawal) \in Int
  <2>1. ASSUME NEW Kind \in {Withdrawal, Unlock} PROVE \A m \in Kind : RequestedValue[m] \in Int
    BY AmountsAreNumbers, TransfersAreFinite DEF Numbers, Message
  <2> QED
    BY <2>1, AmountsAreNumbers, TransfersAreFinite, SumIsInt DEF Numbers
<1>10. \/ RequestedValue' = RequestedValue
       \/ /\ SumFunctionOnSet(RequestedValue', Unlock) = SumFunctionOnSet(RequestedValue, Unlock) + r
          /\ SumFunctionOnSet(RequestedValue', Withdrawal)
               = SumFunctionOnSet(RequestedValue, Withdrawal)
  <2>1. CASE UNCHANGED userRequests
    BY <2>1 DEF RequestedValue
  <2>2. CASE ~UNCHANGED userRequests
    <3>1. PICK u \in Unlock : u.value = r /\ OneMore(userRequests', userRequests, u)
      BY <1>1, <2>2 DEF FixAssetsAboveLimits, Settle, RecordedValue, r, OneMore
    <3>2. u \in Message /\ u \notin Withdrawal
      BY AmountsAreNumbers, TransfersAreFinite DEF Numbers, Message
    <3>3. SumFunctionOnSet(RequestedValue', Unlock) = SumFunctionOnSet(RequestedValue, Unlock) + r
      BY <3>1, <3>2, RequestAdds
    <3>4. SumFunctionOnSet(RequestedValue', Withdrawal)
            = SumFunctionOnSet(RequestedValue, Withdrawal) + 0
      BY <3>1, <3>2, RequestAdds
    <3> QED
      BY <1>9, <3>3, <3>4
  <2> QED
    BY <2>1, <2>2
<1>11. r >= 0
  BY AmountsAreNumbers, TransfersAreFinite DEF Numbers, r
<1>12. UnlockedWithinRecorded'
  BY <1>2, <1>5, <1>6, <1>9, <1>10, <1>11 DEF AmountsInv, UnlockedWithinRecorded
<1>13. SupplyMatchesEvents'
  BY <1>1, <1>2, <1>10 DEF AmountsInv, SupplyMatchesEvents
<1> QED
  BY <1>7, <1>8, <1>12, <1>13 DEF AmountsInv

(* A withdrawal burns what it requests.                                    *)
LEMMA WithdrawKeepsAmounts ==
  ASSUME HomeInv, HomeInv', AmountsInv, NEW m \in Withdrawal, OnTokenTransfer(m)
  PROVE  AmountsInv'
<1>1. /\ OneMore(userRequests', userRequests, m)
      /\ totalSupply' = totalSupply - m.value
      /\ UNCHANGED <<txAboveLimits, outOfLimitAmount, fixedAssets, affirmationsProcessed>>
  BY DEF OnTokenTransfer, RequestSignatures, overdrawVars, affirmationVars, OneMore
<1>2. RecordedValue' = RecordedValue /\ ValueOf' = ValueOf
  BY <1>1 DEF RecordedValue, ValueOf
<1>3. m \in Message /\ m \notin Unlock /\ m.value \in Nat
  BY AmountsAreNumbers, TransfersAreFinite, TransferAssumption DEF Numbers, Message, Transfer
<1>4. /\ SumFunctionOnSet(RequestedValue, Unlock) \in Int
      /\ SumFunctionOnSet(RequestedValue, Withdrawal) \in Int
  <2>1. ASSUME NEW Kind \in {Withdrawal, Unlock} PROVE \A n \in Kind : RequestedValue[n] \in Int
    BY AmountsAreNumbers, TransfersAreFinite DEF Numbers, Message
  <2> QED
    BY <2>1, AmountsAreNumbers, TransfersAreFinite, SumIsInt DEF Numbers
<1>5. SumFunctionOnSet(RequestedValue', Unlock) = SumFunctionOnSet(RequestedValue, Unlock)
  <2>1. SumFunctionOnSet(RequestedValue', Unlock) = SumFunctionOnSet(RequestedValue, Unlock) + 0
    BY <1>1, <1>3, RequestAdds
  <2> QED
    BY <1>4, <2>1
<1>6. SumFunctionOnSet(RequestedValue', Withdrawal)
        = SumFunctionOnSet(RequestedValue, Withdrawal) + m.value
  BY <1>1, <1>3, RequestAdds
<1>7. totalSupply \in Nat /\ SumFunctionOnSet(RequestedValue, Withdrawal) \in Int
  BY <1>4 DEF HomeInv, HomeTypeOK, TokenTypeOK
<1>8. SupplyMatchesEvents'
  BY <1>1, <1>2, <1>3, <1>6, <1>7 DEF AmountsInv, SupplyMatchesEvents
<1> QED
  BY <1>1, <1>2, <1>5, <1>8 DEF AmountsInv, SettledIsRecorded, OutOfLimitAccounting,
                                UnlockedWithinRecorded

(* At the start every sum is zero.                                         *)
LEMMA AmountsInit == HomeInit => AmountsInv
<1> SUFFICES ASSUME HomeInit PROVE AmountsInv
  OBVIOUS
<1>0. HomeInv
  BY HomeInitEstablishes
<1>1. /\ \A h \in TxHash : RecordedValue[h] = 0
      /\ \A m \in Message : RequestedValue[m] = 0
  BY TransferAssumption DEF HomeInit, RecordedValue, RequestedValue, Message, Transfer
<1>2. SumFunctionOnSet(RecordedValue, TxHash \ fixedAssets) = 0
  BY <1>0, <1>1, AmountsAreNumbers, TransfersAreFinite, FS_Subset, SumIsZero DEF Numbers
<1>3. /\ SumFunctionOnSet(RecordedValue, fixedAssets) = 0
      /\ SumFunctionOnSet(ValueOf, affirmationsProcessed) = 0
  BY SumOfNone DEF HomeInit
<1>4. /\ SumFunctionOnSet(RequestedValue, Unlock) = 0
      /\ SumFunctionOnSet(RequestedValue, Withdrawal) = 0
  BY <1>0, <1>1, AmountsAreNumbers, TransfersAreFinite, SumIsZero DEF Numbers, Message
<1>5. outOfLimitAmount = 0 /\ totalSupply = 0 /\ fixedAssets = {}
  BY DEF HomeInit
<1> QED
  BY <1>2, <1>3, <1>4, <1>5 DEF AmountsInv, SettledIsRecorded, OutOfLimitAccounting,
                                UnlockedWithinRecorded, SupplyMatchesEvents

(* Every step of the home bridge keeps the amounts right.                  *)
LEMMA HomeNextKeepsAmounts ==
  ASSUME HomeInv, AmountsInv, [HomeNext]_homeVars
  PROVE  AmountsInv'
<1>0. HomeInv'
  BY HomeNextPreserves
<1>1. ASSUME NEW v \in Validator, NEW a \in Affirmation, ExecuteAffirmation(v, a) PROVE AmountsInv'
  BY <1>0, <1>1, AffirmKeepsAmounts, RecordKeepsAmounts DEF ExecuteAffirmation
<1>2. ASSUME NEW v \in Validator, NEW m \in Message, SubmitSignature(v, m) PROVE AmountsInv'
  BY <1>2, AmountsFrame DEF SubmitSignature, StoreSignature, affirmationVars
<1>3. CASE HomeOwnerNext \/ HomeNewDay \/ UNCHANGED homeVars
  BY <1>3, AmountsFrame DEF HomeOwnerNext, HomeNewDay, homeVars, bridgeVars, affirmationVars
<1> QED
  BY <1>0, <1>1, <1>2, <1>3, SettleKeepsAmounts, WithdrawKeepsAmounts DEF HomeNext

(* The totals are right in every state of the home bridge.                 *)
THEOREM AmountsInvariant == HomeSpec => []AmountsInv
<1>1. HomeInv /\ AmountsInv /\ [HomeNext]_homeVars => AmountsInv'
  BY HomeNextKeepsAmounts
<1> QED
  BY AmountsInit, HomeInvariant, <1>1, PTL DEF HomeSpec

(* outOfLimitAmount is what was recorded above the limits and not settled  *)
(* yet, so that fixAssetsAboveLimits never fails for lack of it.           *)
THEOREM OutOfLimitAlwaysExact == HomeSpec => []OutOfLimitAccounting
<1>1. AmountsInv => OutOfLimitAccounting
  BY DEF AmountsInv
<1> QED
  BY <1>1, AmountsInvariant, PTL

(* The owner never asks to unlock more than was recorded and settled.      *)
THEOREM AlwaysUnlockedWithinRecorded == HomeSpec => []UnlockedWithinRecorded
<1>1. AmountsInv => UnlockedWithinRecorded
  BY DEF AmountsInv
<1> QED
  BY <1>1, AmountsInvariant, PTL

(* The supply of the token is what executed affirmations minted less what  *)
(* withdrawals burnt.                                                      *)
THEOREM SupplyAlwaysMatchesEvents == HomeSpec => []SupplyMatchesEvents
<1>1. AmountsInv => SupplyMatchesEvents
  BY DEF AmountsInv
<1> QED
  BY <1>1, AmountsInvariant, PTL
=============================================================================

--------------------------- MODULE TokenBridgeProofs ---------------------------
(***************************************************************************)
(* The proof that both contracts and the validator processes implement     *)
(* TwoWayPeg, for any number of validators and transfers, any limits and   *)
(* versions, and whatever the owner and the token do.  Every step is one   *)
(* of the home bridge or leaves it alone, so that HomeInv holds here too;  *)
(* what is added ties one chain to the other.                              *)
(***************************************************************************)
EXTENDS TokenBridge, HomeBridgeProofs

ForeignCountsOK ==
  deposits \in [Affirmation -> Nat] /\ paid \in [RelayMessages -> Nat]

(* A record above the limits is of a deposit that was made.                *)
RecordsOfDeposits ==
  \A h \in TxHash : txAboveLimits[h] # NoRecord => deposits[txAboveLimits[h]] > 0

(* What is signed was requested.                                           *)
SignedWasRequested == \A m \in Message : messagesSigned[m] # {} => userRequests[m] > 0

(* What is paid is marked as relayed.                                      *)
PaidIsRelayed == \A r \in RelayMessages : paid[r] > 0 => r.txHash \in relayedMessages

PegInv == HomeInv /\ ForeignCountsOK /\ RecordsOfDeposits /\ SignedWasRequested /\ PaidIsRelayed

-----------------------------------------------------------------------------
(* The invariant holds at first.                                           *)
LEMMA PegInvInit == TokenBridgeInit => PegInv
<1> SUFFICES ASSUME TokenBridgeInit PROVE PegInv
  OBVIOUS
<1>1. HomeInv
  BY HomeInitEstablishes DEF TokenBridgeInit
<1>2. ForeignCountsOK /\ PaidIsRelayed
  BY DEF TokenBridgeInit, Foreign!ForeignInit, ForeignCountsOK, PaidIsRelayed
<1>3. RecordsOfDeposits /\ SignedWasRequested
  BY DEF TokenBridgeInit, HomeInit, RecordsOfDeposits, SignedWasRequested
<1> QED
  BY <1>1, <1>2, <1>3 DEF PegInv

(* A message and what is signed for it are the same.                       *)
LEMMA CreateMessageIsInjective ==
  ASSUME NEW m \in Message, NEW n \in Message, createMessage(m) = createMessage(n)
  PROVE  m = n
BY TransferAssumption DEF createMessage, Transfer, Message

(* Who has signatures of a message to present can only pay this message,   *)
(* once, and only after it was requested.                                  *)
LEMMA RelayEffectHere ==
  ASSUME PegInv, NEW m \in Message, NEW sigs, Foreign!ExecuteSignatures(sigs, createMessage(m))
  PROVE  /\ createMessage(m).txHash \notin relayedMessages
         /\ relayedMessages' = relayedMessages \cup {createMessage(m).txHash}
         /\ paid' = paid \/ paid' = [paid EXCEPT ![createMessage(m)] = @ + 1]
         /\ UNCHANGED deposits
BY DEF Foreign!ExecuteSignatures, Foreign!Relay, Foreign!OnExecuteMessage, Foreign!PayFallback,
   Foreign!Pay

(* Whoever executes signatures has one: a validator that was told of the   *)
(* collected signatures, or anyone who read them.                          *)
ExecutesSigned(m) ==
  /\ UNCHANGED homeVars /\ messagesSigned[m] # {}
  /\ \E sigs : Foreign!ExecuteSignatures(sigs, createMessage(m))

(* A validator presents signatures that were collected.                    *)
LEMMA CollectedWasSigned ==
  ASSUME PegInv, NEW v \in Validator, NEW e \in collected, ProcessCollectedSignatures(v, e)
  PROVE  \E m \in Message : ExecutesSigned(m)
<1> DEFINE m == e.message
<1>1. m \in Message /\ signatures[m] \in Seq(Validator)
  BY DEF PegInv, HomeInv, HomeTypeOK, MessageTypeOK, CollectedSignatures
<1>2. 1 \in 1..Len(signatures[m])
  <2>1. e.NumberOfCollectedSignatures >= 1 /\ e.NumberOfCollectedSignatures <= Len(signatures[m])
    BY DEF PegInv, HomeInv, SignaturesInv
  <2>2. e.NumberOfCollectedSignatures \in Nat /\ Len(signatures[m]) \in Nat
    BY <1>1, LenProperties DEF PegInv, HomeInv, HomeTypeOK, MessageTypeOK, CollectedSignatures
  <2> QED
    BY <2>1, <2>2
<1>3. messagesSigned[m] # {}
  <2>1. signatures[m][1] \in Members(signatures[m])
    BY <1>2 DEF Members
  <2> QED
    BY <1>1, <2>1 DEF PegInv, HomeInv, SignaturesInv
<1>4. \E sigs : Foreign!ExecuteSignatures(sigs, createMessage(m))
  BY DEF ProcessCollectedSignatures
<1>5. UNCHANGED homeVars
  BY DEF ProcessCollectedSignatures
<1>6. ExecutesSigned(m)
  BY <1>3, <1>4, <1>5 DEF ExecutesSigned
<1> QED
  BY <1>1, <1>6

(* Anyone else presents signatures found on the home chain.                *)
LEMMA PresentedWasSigned ==
  ASSUME NEW m \in Message, AnyoneExecutesSignatures(m)
  PROVE  ExecutesSigned(m)
<1>1. PICK sigs \in Foreign!Presentable(messagesSigned[m]) :
        Foreign!ExecuteSignatures(sigs, createMessage(m))
  BY DEF AnyoneExecutesSignatures
<1>2. PICK n \in 1..Foreign!Cardinality(Validator) : sigs \in [1..n -> messagesSigned[m]]
  BY <1>1 DEF Foreign!Presentable
<1>3. n \in Nat /\ 1 \in 1..n
  BY <1>2
<1>4. sigs[1] \in messagesSigned[m]
  BY <1>2, <1>3
<1>5. \E s : Foreign!ExecuteSignatures(s, createMessage(m))
  BY <1>1
<1>6. UNCHANGED homeVars /\ messagesSigned[m] # {}
  BY <1>4 DEF AnyoneExecutesSignatures
<1> QED
  BY <1>5, <1>6 DEF ExecutesSigned

(* What of both contracts the peg sees.                                    *)
seenVars == <<deposits, paid, relayedMessages, tokenBalance, minted, affirmationsProcessed,
              totalSupply, userRequests, messagesSigned, txAboveLimits>>

(* The steps of the bridge, by what they change of it.                     *)
LEMMA StepsOfTheBridge ==
  ASSUME PegInv, [TokenBridgeNext]_vars
  PROVE  /\ [HomeNext]_homeVars
         /\ \/ UNCHANGED seenVars
            \/ \E v \in Validator, a \in Affirmation : ProcessTransfer(v, a)
            \/ \E v \in Validator, m \in Message : ProcessSignatureRequest(v, m)
            \/ \E m \in Message : ExecutesSigned(m)
            \/ \E a \in Affirmation : UNCHANGED homeVars /\ Foreign!MakeDeposit(a)
            \/ \E m \in Withdrawal : OnTokenTransfer(m) /\ UNCHANGED foreignChainVars
            \/ \E h \in TxHash, unlock \in BOOLEAN :
                 FixAssetsAboveLimits(h, unlock) /\ UNCHANGED foreignChainVars
<1> DEFINE Kinds ==
            \/ UNCHANGED seenVars
            \/ \E v \in Validator, a \in Affirmation : ProcessTransfer(v, a)
            \/ \E v \in Validator, m \in Message : ProcessSignatureRequest(v, m)
            \/ \E m \in Message : ExecutesSigned(m)
            \/ \E a \in Affirmation : UNCHANGED homeVars /\ Foreign!MakeDeposit(a)
            \/ \E m \in Withdrawal : OnTokenTransfer(m) /\ UNCHANGED foreignChainVars
            \/ \E h \in TxHash, unlock \in BOOLEAN :
                 FixAssetsAboveLimits(h, unlock) /\ UNCHANGED foreignChainVars
<1>1. ASSUME NEW v \in Validator, ValidatorNext(v) PROVE [HomeNext]_homeVars /\ Kinds
  <2>1. ASSUME NEW a \in Affirmation, ProcessTransfer(v, a) PROVE [HomeNext]_homeVars /\ Kinds
    BY <2>1 DEF ProcessTransfer, HomeNext
  <2>2. ASSUME NEW m \in Message, ProcessSignatureRequest(v, m) PROVE [HomeNext]_homeVars /\ Kinds
    BY <2>2 DEF ProcessSignatureRequest, HomeNext
  <2>3. ASSUME NEW e \in collected, ProcessCollectedSignatures(v, e)
        PROVE  [HomeNext]_homeVars /\ Kinds
    BY <2>3, CollectedWasSigned DEF ExecutesSigned
  <2> QED
    BY <1>1, <2>1, <2>2, <2>3 DEF ValidatorNext
<1>2. CASE UserNext
  <2>1. ASSUME NEW m \in Message, AnyoneExecutesSignatures(m) PROVE [HomeNext]_homeVars /\ Kinds
    BY <2>1, PresentedWasSigned DEF ExecutesSigned
  <2>2. ASSUME NEW m \in Withdrawal, OnTokenTransfer(m) /\ UNCHANGED foreignChainVars
        PROVE  [HomeNext]_homeVars /\ Kinds
    BY <2>2 DEF HomeNext
  <2>3. ASSUME NEW a \in Affirmation, UNCHANGED homeVars /\ Foreign!MakeDeposit(a)
        PROVE  [HomeNext]_homeVars /\ Kinds
    BY <2>3
  <2> QED
    BY <1>2, <2>1, <2>2, <2>3 DEF UserNext
<1>3. CASE (HomeNewDay \/ HomeOwnerNext) /\ UNCHANGED foreignChainVars
  <2>1. UNCHANGED seenVars
    BY <1>3 DEF HomeNewDay, HomeOwnerNext, foreignChainVars, seenVars, bridgeVars, affirmationVars,
       messageVars, overdrawVars, tokenVars
  <2> QED
    BY <1>3, <2>1 DEF HomeNext
<1>4. CASE UNCHANGED homeVars /\ (Foreign!ForeignNewDay \/ Foreign!ForeignOwnerNext \/ Foreign!PauseToken)
  <2>1. UNCHANGED <<deposits, paid, relayedMessages, tokenBalance>>
    BY <1>4 DEF Foreign!ForeignNewDay, Foreign!ForeignOwnerNext, Foreign!PauseToken,
       Foreign!UpgradeTo, Foreign!SetFallbackRecipient, Foreign!foreignBridgeVars, Foreign!relayVars,
       Foreign!erc20Vars
  <2> QED
    BY <1>4, <2>1 DEF seenVars, homeVars, affirmationVars, messageVars, overdrawVars, tokenVars
<1>5. ASSUME NEW h \in TxHash, NEW unlock \in BOOLEAN,
             FixAssetsAboveLimits(h, unlock) /\ UNCHANGED foreignChainVars
      PROVE  [HomeNext]_homeVars /\ Kinds
  BY <1>5 DEF HomeNext
<1>6. CASE UNCHANGED vars
  BY <1>6 DEF vars, foreignChainVars, seenVars, homeVars, affirmationVars, messageVars, overdrawVars,
     tokenVars
<1> QED
  BY <1>1, <1>2, <1>3, <1>4, <1>5, <1>6
  DEF TokenBridgeNext, BridgeNext, DayNext, OwnerNext, TokenNext

-----------------------------------------------------------------------------
(* Every step of the two bridges and the validators keeps the invariant.   *)
LEMMA PegInvStep ==
  ASSUME PegInv, [TokenBridgeNext]_vars
  PROVE  PegInv'
<1> USE DEF ForeignCountsOK, RecordsOfDeposits, SignedWasRequested, PaidIsRelayed
<1>0. HomeInv /\ ForeignCountsOK /\ RecordsOfDeposits /\ SignedWasRequested /\ PaidIsRelayed
  BY DEF PegInv
<1>1. HomeInv'
  BY <1>0, StepsOfTheBridge, HomeNextPreserves
<1>2. CASE UNCHANGED seenVars
  BY <1>0, <1>1, <1>2 DEF seenVars, PegInv
<1>3. ASSUME NEW v \in Validator, NEW a \in Affirmation, ProcessTransfer(v, a) PROVE PegInv'
  <2>1. UNCHANGED <<deposits, paid, relayedMessages, messagesSigned, userRequests>> /\ deposits[a] > 0
    BY <1>3 DEF ProcessTransfer, ExecuteAffirmation, foreignChainVars, messageVars
  <2>2. txAboveLimits' = txAboveLimits \/ txAboveLimits' = [txAboveLimits EXCEPT ![a.txHash] = a]
    BY <1>3 DEF ProcessTransfer, ExecuteAffirmation, Affirm, CastVote, OnFailedAffirmation,
       RecordAboveLimits, overdrawVars
  <2>3. txAboveLimits \in [TxHash -> Affirmation \cup {NoRecord}]
    BY <1>0 DEF HomeInv, HomeTypeOK, OverdrawTypeOK
  <2> QED
    BY <1>0, <1>1, <2>1, <2>2, <2>3 DEF PegInv
<1>4. ASSUME NEW v \in Validator, NEW m \in Message, ProcessSignatureRequest(v, m) PROVE PegInv'
  <2>1. UNCHANGED <<deposits, paid, relayedMessages, txAboveLimits, userRequests>>
        /\ userRequests[m] > 0
        /\ messagesSigned' = [messagesSigned EXCEPT ![m] = @ \cup {v}]
    BY <1>4 DEF ProcessSignatureRequest, SubmitSignature, StoreSignature, foreignChainVars,
       overdrawVars, tokenVars
  <2>2. messagesSigned \in [Message -> SUBSET Validator]
    BY <1>0 DEF HomeInv, HomeTypeOK, MessageTypeOK
  <2> QED
    BY <1>0, <1>1, <2>1, <2>2 DEF PegInv
<1>5. ASSUME NEW m \in Message, ExecutesSigned(m) PROVE PegInv'
  <2> DEFINE r == createMessage(m)
  <2>1. /\ UNCHANGED deposits /\ relayedMessages' = relayedMessages \cup {r.txHash}
        /\ paid' = paid \/ paid' = [paid EXCEPT ![r] = @ + 1]
    BY <1>5, RelayEffectHere DEF ExecutesSigned
  <2>2. r \in RelayMessages
    BY DEF RelayMessages
  <2>3. UNCHANGED <<messagesSigned, txAboveLimits, userRequests>>
    BY <1>5 DEF ExecutesSigned, homeVars, messageVars, overdrawVars, tokenVars
  <2> HIDE DEF r
  <2> QED
    BY <1>0, <1>1, <2>1, <2>2, <2>3 DEF PegInv
<1>6. ASSUME NEW a \in Affirmation, UNCHANGED homeVars, Foreign!MakeDeposit(a) PROVE PegInv'
  <2>1. UNCHANGED <<paid, relayedMessages>> /\ deposits' = [deposits EXCEPT ![a] = @ + 1]
    BY <1>6 DEF Foreign!MakeDeposit, Foreign!relayVars
  <2>2. UNCHANGED <<messagesSigned, txAboveLimits, userRequests>>
    BY <1>6 DEF homeVars, messageVars, overdrawVars, tokenVars
  <2>3. txAboveLimits \in [TxHash -> Affirmation \cup {NoRecord}]
    BY <1>0 DEF HomeInv, HomeTypeOK, OverdrawTypeOK
  <2> QED
    BY <1>0, <1>1, <2>1, <2>2, <2>3 DEF PegInv
<1>7. ASSUME NEW m \in Withdrawal, OnTokenTransfer(m), UNCHANGED foreignChainVars PROVE PegInv'
  <2>1. UNCHANGED <<deposits, paid, relayedMessages, txAboveLimits, messagesSigned>>
        /\ userRequests' = [userRequests EXCEPT ![m] = @ + 1]
    BY <1>7 DEF OnTokenTransfer, RequestSignatures, foreignChainVars, messageVars, overdrawVars
  <2>2. userRequests \in [Message -> Nat]
    BY <1>0 DEF HomeInv, HomeTypeOK, TokenTypeOK
  <2> QED
    BY <1>0, <1>1, <2>1, <2>2 DEF PegInv
<1>8. ASSUME NEW h \in TxHash, NEW unlock \in BOOLEAN, FixAssetsAboveLimits(h, unlock),
             UNCHANGED foreignChainVars
      PROVE  PegInv'
  <2>1. UNCHANGED <<deposits, paid, relayedMessages, txAboveLimits, messagesSigned>>
    BY <1>8 DEF FixAssetsAboveLimits, Settle, foreignChainVars, messageVars
  <2>2. userRequests' = userRequests
        \/ \E u \in Unlock : userRequests' = [userRequests EXCEPT ![u] = @ + 1]
    BY <1>8 DEF FixAssetsAboveLimits, Settle
  <2>3. userRequests \in [Message -> Nat]
    BY <1>0 DEF HomeInv, HomeTypeOK, TokenTypeOK
  <2> QED
    BY <1>0, <1>1, <2>1, <2>2, <2>3 DEF PegInv, Message
<1> QED
  BY <1>2, <1>3, <1>4, <1>5, <1>6, <1>7, <1>8, StepsOfTheBridge

-----------------------------------------------------------------------------
(* The peg *)

(* The bridge starts as the peg does.                                      *)
LEMMA PegInitHolds == TokenBridgeInit => Peg!PegInit
<1> SUFFICES ASSUME TokenBridgeInit PROVE Peg!PegInit
  OBVIOUS
<1>1. deposits = [a \in Affirmation |-> 0] /\ paid = [r \in RelayMessages |-> 0]
  BY DEF TokenBridgeInit, Foreign!ForeignInit
<1>2. \A m \in Message : paid[createMessage(m)] = 0
  BY <1>1 DEF RelayMessages
<1> QED
  BY <1>1, <1>2 DEF Peg!PegInit, Peg!Request, TokenBridgeInit, HomeInit, Message

(* A step of the bridge is one of the peg, or nothing to it.               *)
LEMMA PegStep ==
  ASSUME PegInv, [TokenBridgeNext]_vars
  PROVE  [Peg!PegNext]_(Peg!pegVars)
<1>0. HomeInv /\ ForeignCountsOK /\ RecordsOfDeposits /\ SignedWasRequested /\ PaidIsRelayed
  BY DEF PegInv
<1>1. minted \in [Affirmation -> Nat] /\ VotesCounted
  BY <1>0 DEF HomeInv, HomeTypeOK, AffirmationTypeOK
<1>2. CASE UNCHANGED seenVars
  BY <1>2 DEF seenVars, Peg!pegVars
<1>3. ASSUME NEW v \in Validator, NEW a \in Affirmation, ProcessTransfer(v, a)
      PROVE  [Peg!PegNext]_(Peg!pegVars)
  <2>1. UNCHANGED <<deposits, paid, userRequests>> /\ deposits[a] > 0
    BY <1>3 DEF ProcessTransfer, ExecuteAffirmation, foreignChainVars
  <2>2. CASE UNCHANGED <<minted, totalSupply>>
    BY <2>1, <2>2 DEF Peg!pegVars
  <2>3. CASE a \notin affirmationsProcessed /\ OnExecuteAffirmation(a)
    <3>1. minted[a] = 0
      BY <1>1, <2>3 DEF VotesCounted
    <3>2. minted' = [minted EXCEPT ![a] = 1] /\ totalSupply' = totalSupply + a.value
      BY <2>3, <3>1 DEF OnExecuteAffirmation
    <3>3. {b \in Affirmation : minted'[b] > 0} = {b \in Affirmation : minted[b] > 0} \cup {a}
      BY <1>1, <3>2
    <3>4. a \notin {b \in Affirmation : minted[b] > 0}
      BY <3>1
    <3>5. Peg!Issue(a)
      BY <2>1, <3>2, <3>3, <3>4 DEF Peg!Issue
    <3> QED
      BY <3>5 DEF Peg!PegNext
  <2> QED
    BY <1>3, <2>2, <2>3 DEF ProcessTransfer, ExecuteAffirmation, Affirm, CastVote,
       OnFailedAffirmation, RecordAboveLimits, affirmationVars
<1>4. ASSUME NEW v \in Validator, NEW m \in Message, ProcessSignatureRequest(v, m)
      PROVE  UNCHANGED Peg!pegVars
  BY <1>4 DEF ProcessSignatureRequest, SubmitSignature, StoreSignature, foreignChainVars,
     affirmationVars, tokenVars, Peg!pegVars
<1>5. ASSUME NEW m \in Message, ExecutesSigned(m)
      PROVE  [Peg!PegNext]_(Peg!pegVars)
  <2> DEFINE r == createMessage(m)
  <2>1. /\ UNCHANGED deposits /\ r.txHash \notin relayedMessages
        /\ paid' = paid \/ paid' = [paid EXCEPT ![r] = @ + 1]
    BY <1>5, RelayEffectHere DEF ExecutesSigned
  <2>2. UNCHANGED <<minted, totalSupply, userRequests>>
    BY <1>5 DEF ExecutesSigned, homeVars, affirmationVars, tokenVars
  <2>3. CASE paid' = paid
    BY <2>1, <2>2, <2>3 DEF Peg!pegVars
  <2>4. CASE paid' = [paid EXCEPT ![r] = @ + 1]
    <3>1. \A n \in Message : createMessage(n) \in RelayMessages
      BY DEF RelayMessages
    <3>2. \A n \in Message : createMessage(n) = r <=> n = m
      BY CreateMessageIsInjective
    <3>3. {n \in Message : paid'[createMessage(n)] > 0} =
            {n \in Message : paid[createMessage(n)] > 0} \cup {m}
      <4>1. \A n \in Message : paid[createMessage(n)] \in Nat
        BY <1>0, <3>1 DEF ForeignCountsOK
      <4>2. paid'[r] = paid[r] + 1 /\ paid[r] \in Nat
        BY <1>0, <2>4, <3>1 DEF ForeignCountsOK
      <4>3. \A n \in Message \ {m} : paid'[createMessage(n)] = paid[createMessage(n)]
        BY <1>0, <2>4, <3>1, <3>2 DEF ForeignCountsOK
      <4> QED
        BY <4>1, <4>2, <4>3
    <3>4. \A n \in {k \in Message : paid[createMessage(k)] > 0} : n.txHash # m.txHash
      BY <1>0, <2>1, <3>1 DEF PaidIsRelayed, createMessage
    <3>5. userRequests[m] > 0
      BY <1>0, <1>5 DEF ExecutesSigned, SignedWasRequested
    <3>6. Peg!PayOut(m)
      BY <2>1, <2>2, <3>3, <3>4, <3>5 DEF Peg!PayOut
    <3> QED
      BY <3>6 DEF Peg!PegNext, Peg!Request, Message
  <2> QED
    BY <2>1, <2>3, <2>4
<1>6. ASSUME NEW a \in Affirmation, UNCHANGED homeVars, Foreign!MakeDeposit(a)
      PROVE  [Peg!PegNext]_(Peg!pegVars)
  <2>1. Peg!Lock(a)
    BY <1>6 DEF Foreign!MakeDeposit, Foreign!relayVars, Peg!Lock, homeVars, affirmationVars, tokenVars
  <2> QED
    BY <2>1 DEF Peg!PegNext
<1>7. ASSUME NEW m \in Withdrawal, OnTokenTransfer(m), UNCHANGED foreignChainVars
      PROVE  [Peg!PegNext]_(Peg!pegVars)
  <2>1. Peg!Burn(m)
    BY <1>7 DEF OnTokenTransfer, RequestSignatures, HoldsEnough, foreignChainVars, affirmationVars,
       Peg!Burn
  <2> QED
    BY <2>1 DEF Peg!PegNext
<1>8. ASSUME NEW h \in TxHash, NEW unlock \in BOOLEAN, FixAssetsAboveLimits(h, unlock),
             UNCHANGED foreignChainVars
      PROVE  [Peg!PegNext]_(Peg!pegVars)
  <2>1. UNCHANGED <<deposits, paid, minted, totalSupply>>
    BY <1>8 DEF FixAssetsAboveLimits, Settle, foreignChainVars, affirmationVars
  <2>2. CASE UNCHANGED userRequests
    BY <2>1, <2>2 DEF Peg!pegVars
  <2>3. CASE ~ UNCHANGED userRequests
    <3> DEFINE a == txAboveLimits[h]
    <3>1. PICK u \in Unlock : /\ u.recipient = a.recipient /\ u.value = a.value
                              /\ userRequests' = [userRequests EXCEPT ![u] = @ + 1]
      BY <1>8, <2>3 DEF FixAssetsAboveLimits, Settle
    <3>2. a \in Affirmation /\ deposits[a] > 0
      BY <1>0, <1>8 DEF FixAssetsAboveLimits, Settle, RecordsOfDeposits, HomeInv, HomeTypeOK,
         OverdrawTypeOK
    <3>3. Peg!Return(u)
      BY <2>1, <3>1, <3>2 DEF Peg!Return
    <3> QED
      BY <3>3 DEF Peg!PegNext
  <2> QED
    BY <2>2, <2>3
<1> QED
  BY <1>2, <1>3, <1>4, <1>5, <1>6, <1>7, <1>8, StepsOfTheBridge

(* The bridge with its validators is a two-way peg: every mint answers a   *)
(* deposit, once, and every payment answers a request, once per            *)
(* transaction, whatever the owner, the token, the days and the order of   *)
(* the calls do, for any number of validators, transfers and versions.     *)
THEOREM BridgeIsTwoWayPeg == TokenBridgeSpec => IsTwoWayPeg
<1>1. PegInv /\ [TokenBridgeNext]_vars => PegInv' /\ [Peg!PegNext]_(Peg!pegVars)
  BY PegInvStep, PegStep
<1> QED
  BY PegInvInit, PegInitHolds, <1>1, PTL DEF TokenBridgeSpec, IsTwoWayPeg, Peg!PegSpec

-----------------------------------------------------------------------------
(* The peg is backed.  What is added to the invariant of the peg: the      *)
(* totals of the home bridge (AmountsInv), what the foreign bridge holds,  *)
(* that a mint answers a deposit, and that a record is kept under the      *)
(* transaction it is of.                                                   *)
PaidHere == [r \in RelayMessages |-> paid[r] * r.value]
DepositedHere == [a \in Affirmation |-> deposits[a] * a.value]

MintedWasDeposited == \A a \in affirmationsProcessed : deposits[a] > 0

RecordsByTransaction == \A h \in TxHash : txAboveLimits[h] # NoRecord => txAboveLimits[h].txHash = h

HeldForDeposits ==
  version \notin Foreign!Minting =>
    tokenBalance + SumFunctionOnSet(PaidHere, RelayMessages)
      = SumFunctionOnSet(DepositedHere, Affirmation)

(* A bridge that mints its token has nothing to take in before it paid     *)
(* something, and nothing to pay before it took something in.              *)
NothingWithoutDeposits ==
  version \in Foreign!Minting =>
    /\ \A a \in Affirmation : deposits[a] = 0
    /\ \A m \in Message : userRequests[m] = 0
    /\ tokenBalance = 0 /\ totalSupply = 0

BackedInv ==
  /\ PegInv /\ AmountsInv /\ MintedWasDeposited /\ RecordsByTransaction
  /\ tokenBalance \in Nat /\ HeldForDeposits /\ NothingWithoutDeposits

(* Values and messages are finitely many, and the values are positive.     *)
LEMMA MessagesAreFinite ==
  /\ IsFiniteSet(Message) /\ Message = Withdrawal \cup Unlock
  /\ IsFiniteSet(RelayMessages)
  /\ \A a \in Affirmation : a.value \in Nat \ {0}
  /\ \A m \in Message : m.value \in Nat \ {0}
<1>1. IsFiniteSet(Message) /\ Message = Withdrawal \cup Unlock
  BY TransfersAreFinite, FS_Union DEF Message
<1>2. IsFiniteSet(RelayMessages)
  <2> DEFINE f == [m \in Message |-> createMessage(m)]
  <2>1. IsFiniteSet({f[m] : m \in Message})
    BY <1>1, FiniteImage
  <2>2. {f[m] : m \in Message} = RelayMessages
    BY DEF RelayMessages
  <2> QED
    BY <2>1, <2>2
<1> QED
  BY <1>1, <1>2, TransferAssumption DEF Transfer, Message

(* One payment or deposit more adds its value.                             *)
LEMMA AmountsHereAdd ==
  ASSUME ForeignCountsOK
  PROVE  /\ SumFunctionOnSet(PaidHere, RelayMessages) \in Nat
         /\ SumFunctionOnSet(DepositedHere, Affirmation) \in Nat
         /\ \A m \in Message : OneMore(paid', paid, createMessage(m)) =>
              SumFunctionOnSet(PaidHere', RelayMessages)
                = SumFunctionOnSet(PaidHere, RelayMessages) + m.value
         /\ \A a \in Affirmation : OneMore(deposits', deposits, a) =>
              SumFunctionOnSet(DepositedHere', Affirmation)
                = SumFunctionOnSet(DepositedHere, Affirmation) + a.value
<1> DEFINE relayed == [r \in RelayMessages |-> r.value]
           locked  == [a \in Affirmation |-> a.value]
<1>1. /\ PaidHere = Worth(paid, relayed, RelayMessages)
      /\ PaidHere' = Worth(paid', relayed, RelayMessages)
      /\ DepositedHere = Worth(deposits, locked, Affirmation)
      /\ DepositedHere' = Worth(deposits', locked, Affirmation)
  BY DEF PaidHere, DepositedHere, Worth
<1>2. /\ relayed \in [RelayMessages -> Nat] /\ locked \in [Affirmation -> Nat]
      /\ \A m \in Message : createMessage(m) \in RelayMessages /\ relayed[createMessage(m)] = m.value
      /\ \A a \in Affirmation : locked[a] = a.value
  BY MessagesAreFinite DEF RelayMessages, createMessage
<1>3. /\ paid \in [RelayMessages -> Nat] /\ deposits \in [Affirmation -> Nat]
      /\ RelayMessages \in SUBSET RelayMessages /\ Affirmation \in SUBSET Affirmation
      /\ IsFiniteSet(RelayMessages) /\ IsFiniteSet(Affirmation)
  BY MessagesAreFinite, TransfersAreFinite DEF ForeignCountsOK
<1> HIDE DEF relayed, locked
<1>4. /\ SumFunctionOnSet(PaidHere, RelayMessages) \in Nat
      /\ SumFunctionOnSet(DepositedHere, Affirmation) \in Nat
  BY <1>1, <1>2, <1>3, SumOfWorth
<1>5. ASSUME NEW m \in Message, OneMore(paid', paid, createMessage(m))
      PROVE  SumFunctionOnSet(PaidHere', RelayMessages)
               = SumFunctionOnSet(PaidHere, RelayMessages) + m.value
  BY <1>1, <1>2, <1>3, <1>5, SumCountsOneMore
<1>6. ASSUME NEW a \in Affirmation, OneMore(deposits', deposits, a)
      PROVE  SumFunctionOnSet(DepositedHere', Affirmation)
               = SumFunctionOnSet(DepositedHere, Affirmation) + a.value
  BY <1>1, <1>2, <1>3, <1>6, SumCountsOneMore
<1> QED
  BY <1>4, <1>5, <1>6

(* The invariant holds at first.                                           *)
LEMMA BackedInvInit == TokenBridgeInit => BackedInv
<1> SUFFICES ASSUME TokenBridgeInit PROVE BackedInv
  OBVIOUS
<1>1. PegInv /\ AmountsInv
  BY PegInvInit, AmountsInit DEF TokenBridgeInit
<1>2. /\ deposits = [a \in Affirmation |-> 0] /\ paid = [r \in RelayMessages |-> 0]
      /\ tokenBalance = 0 /\ affirmationsProcessed = {} /\ totalSupply = 0
      /\ userRequests = [m \in Message |-> 0] /\ txAboveLimits = [h \in TxHash |-> NoRecord]
  BY DEF TokenBridgeInit, Foreign!ForeignInit, HomeInit
<1>3. /\ \A r \in RelayMessages : PaidHere[r] = 0
      /\ \A a \in Affirmation : DepositedHere[a] = 0
  BY <1>2, MessagesAreFinite DEF PaidHere, DepositedHere, RelayMessages, createMessage
<1>4. /\ SumFunctionOnSet(PaidHere, RelayMessages) = 0
      /\ SumFunctionOnSet(DepositedHere, Affirmation) = 0
  BY <1>3, MessagesAreFinite, TransfersAreFinite, SumIsZero
<1> QED
  BY <1>1, <1>2, <1>4 DEF BackedInv, MintedWasDeposited, RecordsByTransaction, HeldForDeposits,
     NothingWithoutDeposits

(* An upgrade does not change whether the bridge holds or mints its token. *)
LEMMA UpgradesKeepTheKindHere ==
  ASSUME [TokenBridgeNext]_vars
  PROVE  version' \in Foreign!Minting <=> version \in Foreign!Minting
<1>1. CASE version' = version
  BY <1>1
<1>2. CASE {version, version'} \subseteq Foreign!Successive
  BY <1>2 DEF Foreign!Successive, Foreign!Minting
<1> QED
  BY <1>1, <1>2 DEF TokenBridgeNext, BridgeNext, DayNext, OwnerNext, TokenNext, UserNext, ValidatorNext,
     ProcessTransfer, ProcessSignatureRequest, ProcessCollectedSignatures, AnyoneExecutesSignatures,
     Foreign!ExecuteSignatures, Foreign!Relay, Foreign!MakeDeposit, Foreign!PauseToken,
     Foreign!ForeignOwnerNext, Foreign!UpgradeTo, Foreign!SetFallbackRecipient,
     Foreign!ForeignNewDay, Foreign!foreignBridgeVars, Foreign!versionVars, foreignChainVars, vars

(* What a payment moves, if it is made.                                    *)
LEMMA PaymentHere ==
  ASSUME PegInv, tokenBalance \in Nat, NEW m \in Message, ExecutesSigned(m),
         version \notin Foreign!Minting
  PROVE  \/ UNCHANGED <<tokenBalance, paid>>
         \/ /\ OneMore(paid', paid, createMessage(m))
            /\ tokenBalance >= m.value /\ tokenBalance' = tokenBalance - m.value
<1>1. PICK recipient : Foreign!Pay(createMessage(m), recipient)
  BY DEF ExecutesSigned, Foreign!ExecuteSignatures, Foreign!Relay, Foreign!OnExecuteMessage,
         Foreign!PayFallback
<1>2. createMessage(m).value = m.value
  BY DEF createMessage
<1> QED
  BY <1>1, <1>2 DEF Foreign!Pay, Foreign!Transfers, OneMore

(* Every step keeps it.                                                    *)
LEMMA BackedInvStep ==
  ASSUME BackedInv, [TokenBridgeNext]_vars
  PROVE  BackedInv'
<1>0. /\ PegInv /\ AmountsInv /\ MintedWasDeposited /\ RecordsByTransaction
      /\ tokenBalance \in Nat /\ HeldForDeposits /\ NothingWithoutDeposits
      /\ HomeInv /\ ForeignCountsOK /\ RecordsOfDeposits /\ SignedWasRequested
  BY DEF BackedInv, PegInv
<1>a. /\ txAboveLimits \in [TxHash -> Affirmation \cup {NoRecord}] /\ NoRecord \notin Affirmation
      /\ deposits \in [Affirmation -> Nat] /\ affirmationsProcessed \subseteq Affirmation
      /\ userRequests \in [Message -> Nat] /\ totalSupply \in Nat
  BY <1>0, TransferAssumption DEF HomeInv, HomeTypeOK, OverdrawTypeOK, AffirmationTypeOK,
     TokenTypeOK, ForeignCountsOK
<1>1. PegInv' /\ AmountsInv'
  BY <1>0, PegInvStep, StepsOfTheBridge, HomeNextKeepsAmounts
<1>2. version' \in Foreign!Minting <=> version \in Foreign!Minting
  BY UpgradesKeepTheKindHere
<1> DEFINE Rest == /\ MintedWasDeposited' /\ RecordsByTransaction'
                   /\ tokenBalance' \in Nat /\ HeldForDeposits' /\ NothingWithoutDeposits'
<1>3. ASSUME UNCHANGED <<tokenBalance, paid, deposits>> PROVE HeldForDeposits'
  <2>1. PaidHere' = PaidHere /\ DepositedHere' = DepositedHere
    BY <1>3 DEF PaidHere, DepositedHere
  <2> QED
    BY <1>0, <1>2, <1>3, <2>1 DEF HeldForDeposits
<1>4. CASE UNCHANGED seenVars
  <2>1. UNCHANGED <<deposits, paid, tokenBalance, affirmationsProcessed, totalSupply, userRequests,
                    txAboveLimits>>
    BY <1>4 DEF seenVars
  <2>2. Rest
    BY <1>0, <1>2, <1>3, <2>1 DEF MintedWasDeposited, RecordsByTransaction, NothingWithoutDeposits
  <2> QED
    BY <1>1, <2>2 DEF BackedInv
<1>5. ASSUME NEW v \in Validator, NEW a \in Affirmation, ProcessTransfer(v, a) PROVE BackedInv'
  <2>1. UNCHANGED <<deposits, paid, tokenBalance, version>> /\ deposits[a] > 0
    BY <1>5 DEF ProcessTransfer, foreignChainVars
  <2>2. version \notin Foreign!Minting
    BY <1>0, <2>1 DEF NothingWithoutDeposits
  <2>3. /\ affirmationsProcessed' = affirmationsProcessed \/ affirmationsProcessed' = affirmationsProcessed \cup {a}
        /\ txAboveLimits' = txAboveLimits \/ txAboveLimits' = [txAboveLimits EXCEPT ![a.txHash] = a]
    BY <1>5 DEF ProcessTransfer, ExecuteAffirmation, Affirm, CastVote, OnFailedAffirmation,
       RecordAboveLimits, overdrawVars, affirmationVars
  <2>4. RecordsByTransaction' /\ MintedWasDeposited'
    BY <1>0, <1>a, <2>1, <2>3 DEF MintedWasDeposited, RecordsByTransaction
  <2> QED
    BY <1>0, <1>1, <1>2, <1>3, <2>1, <2>2, <2>4 DEF BackedInv, NothingWithoutDeposits
<1>6. ASSUME NEW v \in Validator, NEW m \in Message, ProcessSignatureRequest(v, m) PROVE BackedInv'
  <2>1. UNCHANGED <<deposits, paid, tokenBalance, affirmationsProcessed, totalSupply, userRequests,
                    txAboveLimits>>
    BY <1>6 DEF ProcessSignatureRequest, SubmitSignature, StoreSignature, foreignChainVars,
       affirmationVars, overdrawVars, tokenVars
  <2>2. Rest
    BY <1>0, <1>2, <1>3, <2>1 DEF MintedWasDeposited, RecordsByTransaction, NothingWithoutDeposits
  <2> QED
    BY <1>1, <2>2 DEF BackedInv
<1>7. ASSUME NEW m \in Message, ExecutesSigned(m) PROVE BackedInv'
  <2>1. UNCHANGED <<affirmationsProcessed, totalSupply, userRequests, txAboveLimits, messagesSigned>>
        /\ messagesSigned[m] # {}
    BY <1>7 DEF ExecutesSigned, homeVars, affirmationVars, overdrawVars, tokenVars, messageVars
  <2>2. UNCHANGED deposits
    BY <1>0, <1>7, RelayEffectHere DEF ExecutesSigned
  <2>3. userRequests[m] > 0
    BY <1>0, <2>1 DEF SignedWasRequested
  <2>4. version \notin Foreign!Minting
    BY <1>0, <2>3 DEF NothingWithoutDeposits
  <2>5. CASE UNCHANGED <<tokenBalance, paid>>
    BY <1>0, <1>1, <1>2, <1>3, <2>1, <2>2, <2>4, <2>5
       DEF BackedInv, MintedWasDeposited, RecordsByTransaction, NothingWithoutDeposits
  <2>6. CASE /\ OneMore(paid', paid, createMessage(m))
             /\ tokenBalance >= m.value /\ tokenBalance' = tokenBalance - m.value
    <3>1. DepositedHere' = DepositedHere
      BY <2>2 DEF DepositedHere
    <3>2. m.value \in Nat
      BY MessagesAreFinite
    <3>3. HeldForDeposits' /\ tokenBalance' \in Nat
      BY <1>0, <1>2, <2>4, <2>6, <3>1, <3>2, AmountsHereAdd DEF HeldForDeposits
    <3> QED
      BY <1>0, <1>1, <1>2, <2>1, <2>2, <2>4, <3>3
         DEF BackedInv, MintedWasDeposited, RecordsByTransaction, NothingWithoutDeposits
  <2> QED
    BY <1>0, <1>7, <2>4, <2>5, <2>6, PaymentHere
<1>8. ASSUME NEW a \in Affirmation, UNCHANGED homeVars, Foreign!MakeDeposit(a) PROVE BackedInv'
  <2>1. UNCHANGED <<affirmationsProcessed, totalSupply, userRequests, txAboveLimits, paid>>
    BY <1>8 DEF homeVars, affirmationVars, overdrawVars, tokenVars, Foreign!MakeDeposit,
       Foreign!relayVars
  <2>2. a.value \in Nat \ {0}
    BY MessagesAreFinite
  <2>3. version \notin Foreign!Minting
    BY <1>0, <1>8, <2>2 DEF NothingWithoutDeposits, Foreign!MakeDeposit, Foreign!Hold,
       Foreign!OnTokenReceived
  <2>4. OneMore(deposits', deposits, a) /\ tokenBalance' = tokenBalance + a.value
    BY <1>8, <2>3 DEF Foreign!MakeDeposit, Foreign!Hold, Foreign!OnTokenReceived, OneMore
  <2>5. HeldForDeposits' /\ tokenBalance' \in Nat
    <3>1. PaidHere' = PaidHere
      BY <2>1 DEF PaidHere
    <3> QED
      BY <1>0, <1>2, <2>2, <2>3, <2>4, <3>1, AmountsHereAdd DEF HeldForDeposits
  <2>6. \A b \in Affirmation : deposits'[b] >= deposits[b] /\ deposits[b] \in Nat /\ deposits'[b] \in Nat
    BY <1>a, <2>4 DEF OneMore
  <2>7. MintedWasDeposited'
    BY <1>0, <1>a, <2>1, <2>6 DEF MintedWasDeposited
  <2> QED
    BY <1>0, <1>1, <1>2, <2>1, <2>3, <2>5, <2>7
       DEF BackedInv, RecordsByTransaction, NothingWithoutDeposits
<1>9. ASSUME NEW m \in Withdrawal, OnTokenTransfer(m), UNCHANGED foreignChainVars PROVE BackedInv'
  <2>1. UNCHANGED <<deposits, paid, tokenBalance, affirmationsProcessed, txAboveLimits>>
    BY <1>9 DEF OnTokenTransfer, RequestSignatures, foreignChainVars, affirmationVars, overdrawVars
  <2>2. version \notin Foreign!Minting
    <3>1. m.value \in Nat \ {0} /\ totalSupply >= m.value
      BY <1>9, MessagesAreFinite DEF OnTokenTransfer, RequestSignatures, HoldsEnough
    <3> QED
      BY <1>0, <3>1 DEF NothingWithoutDeposits
  <2> QED
    BY <1>0, <1>1, <1>2, <1>3, <2>1, <2>2
       DEF BackedInv, MintedWasDeposited, RecordsByTransaction, NothingWithoutDeposits
<1>10. ASSUME NEW h \in TxHash, NEW unlock \in BOOLEAN, FixAssetsAboveLimits(h, unlock),
              UNCHANGED foreignChainVars
       PROVE  BackedInv'
  <2>1. UNCHANGED <<deposits, paid, tokenBalance, affirmationsProcessed, txAboveLimits>>
        /\ txAboveLimits[h] # NoRecord
    BY <1>10 DEF FixAssetsAboveLimits, Settle, foreignChainVars, affirmationVars
  <2>2. version \notin Foreign!Minting
    <3>1. txAboveLimits[h] \in Affirmation /\ deposits[txAboveLimits[h]] > 0
      BY <1>0, <1>a, <2>1 DEF RecordsOfDeposits
    <3> QED
      BY <1>0, <3>1 DEF NothingWithoutDeposits
  <2> QED
    BY <1>0, <1>1, <1>2, <1>3, <2>1, <2>2
       DEF BackedInv, MintedWasDeposited, RecordsByTransaction, NothingWithoutDeposits
<1> QED
  BY <1>0, <1>4, <1>5, <1>6, <1>7, <1>8, <1>9, <1>10, StepsOfTheBridge

(* What is open is what was requested less what was paid: a message and    *)
(* what is signed for it stand for each other in the two sums.             *)
LEMMA OpenIsRequestedLessPaid ==
  ASSUME BackedInv
  PROVE  SumFunctionOnSet(UnpaidValue, Message) =
           SumFunctionOnSet(RequestedValue, Withdrawal) + SumFunctionOnSet(RequestedValue, Unlock)
             - SumFunctionOnSet(PaidHere, RelayMessages)
<1> DEFINE p      == [m \in Message |-> createMessage(m)]
           paidOf == [m \in Message |-> PaidHere[createMessage(m)]]
<1>1. RequestedValue \in [Message -> Nat] /\ userRequests \in [Message -> Nat]
  BY AmountsAreNumbers DEF BackedInv, PegInv, Numbers, HomeInv, HomeTypeOK, TokenTypeOK
<1>2. ASSUME NEW m \in Message
      PROVE  /\ UnpaidValue[m] \in Int /\ paidOf[m] \in Int
             /\ RequestedValue[m] = UnpaidValue[m] + paidOf[m]
  <2>1. createMessage(m) \in RelayMessages /\ createMessage(m).value = m.value
    BY DEF RelayMessages, createMessage
  <2>2. userRequests[m] \in Nat /\ m.value \in Nat /\ paid[createMessage(m)] \in Nat
    BY <1>1, <2>1, MessagesAreFinite DEF BackedInv, PegInv, ForeignCountsOK
  <2>3. /\ paidOf[m] = paid[createMessage(m)] * m.value
        /\ UnpaidValue[m] = (userRequests[m] - paid[createMessage(m)]) * m.value
        /\ RequestedValue[m] = userRequests[m] * m.value
    BY <2>1 DEF PaidHere, UnpaidValue, RequestedValue
  <2> HIDE DEF paidOf
  <2> QED
    BY <2>2, <2>3
<1>3. /\ \A m \in Message : PaidHere[p[m]] = paidOf[m]
      /\ \A m, n \in Message : p[m] = p[n] => m = n
      /\ {p[m] : m \in Message} = RelayMessages
  BY CreateMessageIsInjective DEF RelayMessages
<1> HIDE DEF p, paidOf
<1>4. SumFunctionOnSet(RequestedValue, Message)
        = SumFunctionOnSet(UnpaidValue, Message) + SumFunctionOnSet(paidOf, Message)
  BY <1>2, MessagesAreFinite, SumOfSums
<1>5. SumFunctionOnSet(paidOf, Message) = SumFunctionOnSet(PaidHere, RelayMessages)
  <2>1. SumFunctionOnSet(paidOf, Message) = SumFunctionOnSet(PaidHere, {p[m] : m \in Message})
    BY <1>2, <1>3, MessagesAreFinite, SumOfImage
  <2> QED
    BY <1>3, <2>1
<1>6. SumFunctionOnSet(RequestedValue, Message)
        = SumFunctionOnSet(RequestedValue, Withdrawal) + SumFunctionOnSet(RequestedValue, Unlock)
  <2>1. \A m \in Withdrawal \cup Unlock : RequestedValue[m] \in Int
    BY <1>1 DEF Message
  <2> QED
    BY <2>1, TransfersAreFinite, MessagesAreFinite, SumOfUnion
<1>7. /\ SumFunctionOnSet(UnpaidValue, Message) \in Int
      /\ SumFunctionOnSet(PaidHere, RelayMessages) \in Nat
  BY <1>2, MessagesAreFinite, SumIsInt, AmountsHereAdd DEF BackedInv, PegInv
<1>8. /\ SumFunctionOnSet(RequestedValue, Withdrawal) \in Int
      /\ SumFunctionOnSet(RequestedValue, Unlock) \in Int
  BY <1>1, TransfersAreFinite, SumIsInt DEF Message
<1> QED
  BY <1>4, <1>5, <1>6, <1>7, <1>8

(* What was executed and what was settled are worth no more than what was  *)
(* deposited, if nothing was both.                                         *)
LEMMA AnsweredOnce ==
  ASSUME BackedInv, PaidTwice = {}
  PROVE  SumFunctionOnSet(ValueOf, affirmationsProcessed)
           + SumFunctionOnSet(RecordedValue, fixedAssets)
           <= SumFunctionOnSet(DepositedHere, Affirmation)
<1> DEFINE settled == {txAboveLimits[h] : h \in fixedAssets}
           answered == affirmationsProcessed \cup settled
<1>1. /\ txAboveLimits \in [TxHash -> Affirmation \cup {NoRecord}]
      /\ affirmationsProcessed \subseteq Affirmation /\ fixedAssets \subseteq TxHash
      /\ deposits \in [Affirmation -> Nat]
      /\ RecordedValue \in [TxHash -> Nat] /\ ValueOf \in [Transfer -> Nat]
  BY AmountsAreNumbers DEF BackedInv, PegInv, Numbers, HomeInv, HomeTypeOK, OverdrawTypeOK,
     ForeignCountsOK
<1>2. ASSUME NEW h \in fixedAssets
      PROVE  /\ txAboveLimits[h] \in Affirmation /\ txAboveLimits[h].txHash = h
             /\ deposits[txAboveLimits[h]] > 0
             /\ RecordedValue[h] = txAboveLimits[h].value
  <2>1. h \in TxHash /\ txAboveLimits[h] # NoRecord
    BY <1>1 DEF BackedInv, AmountsInv, SettledIsRecorded
  <2> QED
    BY <1>1, <2>1 DEF BackedInv, PegInv, RecordsByTransaction, RecordsOfDeposits, RecordedValue
<1>3. \A t \in Affirmation : t \in Transfer /\ ValueOf[t] = t.value
  BY DEF ValueOf, Transfer
<1>4. settled \subseteq Affirmation
  BY <1>2
<1>5. IsFiniteSet(fixedAssets) /\ IsFiniteSet(settled) /\ IsFiniteSet(affirmationsProcessed)
      /\ IsFiniteSet(answered)
  BY <1>1, <1>4, TransfersAreFinite, FS_Subset
<1>6. SumFunctionOnSet(RecordedValue, fixedAssets) = SumFunctionOnSet(ValueOf, settled)
  <2>1. \A h \in fixedAssets : RecordedValue[h] \in Int /\ ValueOf[txAboveLimits[h]] = RecordedValue[h]
    BY <1>1, <1>2, <1>3
  <2>2. \A h, k \in fixedAssets : txAboveLimits[h] = txAboveLimits[k] => h = k
    BY <1>2
  <2> QED
    BY <1>5, <2>1, <2>2, SumOfImage
<1>7. affirmationsProcessed \cap settled = {}
  BY <1>2 DEF PaidTwice
<1>8. \A a \in answered : a \in Affirmation /\ deposits[a] > 0
  BY <1>1, <1>2, <1>4 DEF BackedInv, MintedWasDeposited
<1> HIDE DEF settled
<1>9. SumFunctionOnSet(ValueOf, answered)
        = SumFunctionOnSet(ValueOf, affirmationsProcessed) + SumFunctionOnSet(ValueOf, settled)
  <2>1. \A a \in answered : ValueOf[a] \in Int
    BY <1>1, <1>3, <1>8
  <2> QED
    BY <1>5, <1>7, <2>1, SumOfUnion
<1>10. ASSUME NEW a \in Affirmation
       PROVE  DepositedHere[a] \in Nat /\ (deposits[a] > 0 => ValueOf[a] <= DepositedHere[a])
  <2>1. a.value \in Nat /\ deposits[a] \in Nat
    BY <1>1, MessagesAreFinite
  <2>2. deposits[a] * a.value \in Nat
    BY <2>1
  <2>3. ASSUME deposits[a] > 0 PROVE a.value <= deposits[a] * a.value
    <3>1. (deposits[a] - 1) * a.value \in Nat
      BY <2>1, <2>3
    <3> QED
      BY <2>1, <3>1
  <2> QED
    BY <1>3, <2>2, <2>3 DEF DepositedHere
<1> HIDE DEF answered
<1>11. SumFunctionOnSet(ValueOf, answered) <= SumFunctionOnSet(DepositedHere, answered)
  <2>1. \A a \in answered : ValueOf[a] \in Int /\ DepositedHere[a] \in Int
                            /\ ValueOf[a] <= DepositedHere[a]
    BY <1>1, <1>3, <1>8, <1>10
  <2> QED
    BY <1>5, <2>1, SumMonotone
<1>12. SumFunctionOnSet(DepositedHere, answered) <= SumFunctionOnSet(DepositedHere, Affirmation)
  <2>1. answered \subseteq Affirmation
    BY <1>8
  <2> QED
    BY <1>10, <2>1, TransfersAreFinite, SumOfPart
<1>13. /\ SumFunctionOnSet(ValueOf, answered) \in Int
       /\ SumFunctionOnSet(DepositedHere, answered) \in Int
       /\ SumFunctionOnSet(DepositedHere, Affirmation) \in Int
  BY <1>1, <1>3, <1>5, <1>8, <1>10, TransfersAreFinite, SumIsInt
<1> QED
  BY <1>6, <1>9, <1>11, <1>12, <1>13

(* The invariant says that the peg is backed.                              *)
LEMMA BackedFollows == BackedInv => Backed
<1> SUFFICES ASSUME BackedInv, PaidTwice = {}
             PROVE  tokenBalance >= totalSupply + SumFunctionOnSet(UnpaidValue, Message)
  BY DEF Backed
<1> DEFINE requested == SumFunctionOnSet(RequestedValue, Withdrawal)
           unlocked  == SumFunctionOnSet(RequestedValue, Unlock)
           executed  == SumFunctionOnSet(ValueOf, affirmationsProcessed)
           settled   == SumFunctionOnSet(RecordedValue, fixedAssets)
           paidOut   == SumFunctionOnSet(PaidHere, RelayMessages)
           takenIn   == SumFunctionOnSet(DepositedHere, Affirmation)
<1>1. SumFunctionOnSet(UnpaidValue, Message) = requested + unlocked - paidOut
  BY OpenIsRequestedLessPaid
<1>2. executed + settled <= takenIn
  BY AnsweredOnce
<1>3. totalSupply + requested = executed /\ unlocked <= settled
  BY DEF BackedInv, AmountsInv, SupplyMatchesEvents, UnlockedWithinRecorded
<1>4. version \notin Foreign!Minting => tokenBalance + paidOut = takenIn
  BY DEF BackedInv, HeldForDeposits
<1>5. ASSUME version \in Foreign!Minting
      PROVE  tokenBalance = 0 /\ totalSupply = 0 /\ requested = 0 /\ unlocked = 0
  <2>1. tokenBalance = 0 /\ totalSupply = 0 /\ \A m \in Message : userRequests[m] = 0
    BY <1>5 DEF BackedInv, NothingWithoutDeposits
  <2>2. \A m \in Message : RequestedValue[m] = 0
    BY <2>1, MessagesAreFinite DEF RequestedValue
  <2>3. \A Kind \in {Withdrawal, Unlock} : Kind \subseteq Message
    BY MessagesAreFinite
  <2> QED
    BY <2>1, <2>2, <2>3, TransfersAreFinite, SumIsZero
<1>6. paidOut \in Nat /\ takenIn \in Nat /\ tokenBalance \in Nat /\ totalSupply \in Nat
  BY AmountsHereAdd DEF BackedInv, PegInv, HomeInv, HomeTypeOK, TokenTypeOK
<1>7. requested \in Int /\ unlocked \in Int /\ executed \in Int /\ settled \in Int
  BY AmountsAreNumbers, TransfersAreFinite, FS_Subset, SumIsInt
     DEF Numbers, Message, Transfer, BackedInv, PegInv
<1> HIDE DEF requested, unlocked, executed, settled, paidOut, takenIn
<1> QED
  BY <1>1, <1>2, <1>3, <1>4, <1>5, <1>6, <1>7

(* The foreign bridge holds enough for every token in circulation and      *)
(* every open request, unless the owner had a deposit paid back that was   *)
(* executed too: for any validators, quorum, limits, days and versions of  *)
(* the foreign bridge, and however the token behaves.                      *)
THEOREM AlwaysBacked == TokenBridgeSpec => []Backed
<1>1. BackedInv /\ [TokenBridgeNext]_vars => BackedInv'
  BY BackedInvStep
<1> QED
  BY BackedInvInit, <1>1, BackedFollows, PTL DEF TokenBridgeSpec
=============================================================================

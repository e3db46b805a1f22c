------------------------- MODULE ForeignBridgeProofs -------------------------
(***************************************************************************)
(* Proofs about ForeignBridge for every set of versions, messages,         *)
(* validators, deposits and limits.  That a payment has a quorum behind it *)
(* is a fact about one call: the signatures it presents are an injection   *)
(* of the first requiredSignatures numbers into the validators that have   *)
(* signed.  The rest is inductive as it stands, next to the types.         *)
(***************************************************************************)
EXTENDS ForeignBridge, BridgeValidatorsProofs, SumLemmas

ForeignInv == ForeignTypeOK /\ ValidatorsInv /\ PaidOncePerTransaction

(* initialize leaves the foreign bridge in a state of the invariant.       *)
LEMMA ForeignInitEstablishes == ForeignInit => ForeignInv
<1> SUFFICES ASSUME ForeignInit PROVE ForeignInv
  OBVIOUS
<1>1. ValidatorsInv
  BY ValidatorsInitEstablishes DEF ForeignInit
<1>2. ExecutionLimitTypeOK
  BY DEF ForeignInit, ExecutionLimitInit, ExecutionLimitTypeOK
<1>3. fallbackRecipient \in FallbackRecipients \cup {NoRecipient}
  BY DEF ForeignInit
<1>4. ForeignTypeOK
  BY <1>1, <1>2, <1>3 DEF ForeignInit, ForeignTypeOK, ValidatorsInv
<1>5. PaidOncePerTransaction
  BY DEF ForeignInit, PaidOncePerTransaction
<1> QED
  BY <1>1, <1>4, <1>5 DEF ForeignInv

-----------------------------------------------------------------------------
(* Payments *)

(* A payment of m leaves tokenBalance a number and pays m once more; a     *)
(* transfer that was not made changes neither.                             *)
LEMMA PayIsATransfer ==
  ASSUME ForeignTypeOK, NEW m \in RelayMessage, NEW recipient, Pay(m, recipient)
  PROVE  /\ tokenBalance' \in Nat /\ paid' \in [RelayMessage -> Nat]
         /\ \/ paid' = [paid EXCEPT ![m] = @ + 1] /\ Transfers(recipient, m.value)
            \/ paid' = paid /\ ~Transfers(recipient, m.value)
<1>1. m.value \in Nat
  BY ForeignAssumption
<1>2. tokenBalance \in Nat /\ paid \in [RelayMessage -> Nat]
  BY DEF ForeignTypeOK
<1>3. CASE Transfers(recipient, m.value)
  BY <1>1, <1>2, <1>3 DEF Pay, Transfers
<1>4. CASE ~Transfers(recipient, m.value)
  BY <1>2, <1>4 DEF Pay
<1> QED
  BY <1>3, <1>4

(* What a relayed message does, whichever version executes it.             *)
LEMMA RelayEffect ==
  ASSUME ForeignTypeOK, NEW m \in RelayMessage, Relay(m)
  PROVE  /\ tokenBalance' \in Nat /\ paid' \in [RelayMessage -> Nat]
         /\ paid' = paid \/ paid' = [paid EXCEPT ![m] = @ + 1]
         /\ redirected' = redirected \/ redirected' = redirected \cup {m}
         /\ relayedMessages' = relayedMessages \cup {m.txHash}
         /\ IF version = "ErcToErc" THEN AddExecuted(m.value) ELSE UNCHANGED executionVars
<1>1. /\ redirected' = redirected \/ redirected' = redirected \cup {m}
      /\ \E recipient : Pay(m, recipient)
      /\ relayedMessages' = relayedMessages \cup {m.txHash}
      /\ IF version = "ErcToErc" THEN AddExecuted(m.value) ELSE UNCHANGED executionVars
  BY DEF Relay, OnExecuteMessage, PayFallback
<1> QED
  BY <1>1, PayIsATransfer

(* executeSignatures keeps the invariant: the transaction was not marked,  *)
(* so that nothing of it had been paid.                                    *)
LEMMA ExecuteSignaturesPreserves ==
  ASSUME ForeignInv, NEW m \in RelayMessage, NEW sigs, ExecuteSignatures(sigs, m)
  PROVE  ForeignInv'
<1> USE DEF ForeignInv, ForeignTypeOK
<1>1. Relay(m) /\ m.txHash \notin relayedMessages
  BY DEF ExecuteSignatures
<1>2. /\ tokenBalance' \in Nat /\ paid' \in [RelayMessage -> Nat]
      /\ paid' = paid \/ paid' = [paid EXCEPT ![m] = @ + 1]
      /\ redirected' \subseteq RelayMessage
      /\ relayedMessages' = relayedMessages \cup {m.txHash}
      /\ relayedMessages' \subseteq RelayTxHash
  BY <1>1, RelayEffect DEF RelayTxHash
<1>3. UNCHANGED <<versionVars, signedBy, deposits, tokenPaused, validatorVars>>
  BY <1>1 DEF Relay
<1>4. ValidatorsInv'
  BY <1>3, ValidatorsNextPreserves
<1>5. ExecutionLimitTypeOK'
  <2>1. IF version = "ErcToErc" THEN AddExecuted(m.value) ELSE UNCHANGED executionVars
    BY <1>1, RelayEffect
  <2>2. m.value \in Nat
    BY ForeignAssumption
  <2> QED
    BY <2>1, <2>2 DEF ExecutionLimitTypeOK, AddExecuted, executionVars
<1>6. PaidOncePerTransaction'
  <2>1. CASE paid' = paid
    BY <1>2, <2>1 DEF PaidOncePerTransaction
  <2>2. CASE paid' = [paid EXCEPT ![m] = @ + 1]
    <3>1. \A n \in RelayMessage : n.txHash = m.txHash => paid[n] = 0
      BY <1>1 DEF PaidOncePerTransaction
    <3> QED
      BY <1>2, <2>2, <3>1 DEF PaidOncePerTransaction
  <2> QED
    BY <1>2, <2>1, <2>2
<1>7. ForeignTypeOK'
  BY <1>2, <1>3, <1>4, <1>5 DEF ValidatorsInv, versionVars
<1> QED
  BY <1>4, <1>6, <1>7

(* A transfer to the bridge keeps the invariant.                           *)
LEMMA MakeDepositPreserves ==
  ASSUME ForeignInv, NEW d \in Deposit, MakeDeposit(d)
  PROVE  ForeignInv'
<1> USE DEF ForeignInv, ForeignTypeOK
<1>1. d.value \in Nat
  BY ForeignAssumption
<1>2. tokenBalance' \in Nat /\ deposits' \in [Deposit -> Nat]
  BY <1>1 DEF MakeDeposit, Hold, OnTokenReceived
<1>3. UNCHANGED <<versionVars, signedBy, relayVars, tokenPaused, validatorVars, executionVars>>
  BY DEF MakeDeposit
<1>4. ValidatorsInv'
  BY <1>3, ValidatorsNextPreserves
<1> QED
  BY <1>2, <1>3, <1>4 DEF ValidatorsInv, ExecutionLimitTypeOK, executionVars, versionVars, relayVars,
     PaidOncePerTransaction

(* Steps that relay nothing and move nothing: those of owner and clock.    *)
LEMMA QuietForeignStep ==
  ASSUME ForeignInv, UNCHANGED <<relayVars, deposits, tokenBalance>>,
         version' \in Versions, fallbackRecipient' \in FallbackRecipients \cup {NoRecipient},
         signedBy' \in [RelayMessage -> SUBSET Validator], tokenPaused' \in BOOLEAN,
         ExecutionLimitTypeOK', [ValidatorsNext]_validatorVars
  PROVE  ForeignInv'
<1>1. ValidatorsInv'
  BY ValidatorsNextPreserves DEF ForeignInv
<1> QED
  BY <1>1 DEF ForeignInv, ForeignTypeOK, ValidatorsInv, relayVars, PaidOncePerTransaction

(* The owner's calls keep the invariant.                                   *)
LEMMA ForeignOwnerPreserves ==
  ASSUME ForeignInv, ForeignOwnerNext
  PROVE  ForeignInv'
<1> USE DEF ForeignInv, ForeignTypeOK
<1>1. CASE ValidatorsNext /\ UNCHANGED <<foreignBridgeVars, executionVars>>
  BY <1>1, QuietForeignStep DEF foreignBridgeVars, versionVars, erc20Vars, executionVars,
     ExecutionLimitTypeOK
<1>2. ASSUME NEW n \in Versions, UpgradeTo(n) PROVE ForeignInv'
  BY <1>2, QuietForeignStep DEF UpgradeTo, erc20Vars, executionVars, ExecutionLimitTypeOK
<1>3. ASSUME NEW r \in FallbackRecipients, SetFallbackRecipient(r) PROVE ForeignInv'
  BY <1>3, QuietForeignStep DEF SetFallbackRecipient, erc20Vars, executionVars, ExecutionLimitTypeOK
<1>4. CASE /\ \/ version = "ErcToErc" /\ SetExecutionLimits
              \/ /\ version # "ErcToErc"
                 /\ \E n \in NewExecutionLimits : SetExecutionMaxPerTx(n)
           /\ UNCHANGED <<foreignBridgeVars, validatorVars>>
  <2>1. ExecutionLimitTypeOK'
    BY <1>4, ExecutionLimitsAssumption
       DEF SetExecutionLimits, SetExecutionDailyLimit, SetExecutionMaxPerTx, ExecutionLimitTypeOK
  <2> QED
    BY <1>4, <2>1, QuietForeignStep DEF foreignBridgeVars, versionVars, erc20Vars
<1> QED
  BY <1>1, <1>2, <1>3, <1>4 DEF ForeignOwnerNext

(* Every step of the foreign bridge keeps the invariant.                   *)
LEMMA ForeignNextPreserves ==
  ASSUME ForeignInv, [ForeignNext]_foreignVars
  PROVE  ForeignInv'
<1>1. CASE \E m \in RelayMessage : \E sigs \in Presentable(signedBy[m]) : ExecuteSignatures(sigs, m)
  BY <1>1, ExecuteSignaturesPreserves
<1>2. CASE \E d \in Deposit : MakeDeposit(d)
  BY <1>2, MakeDepositPreserves
<1>3. ASSUME NEW v \in Validator, NEW m \in RelayMessage, Sign(v, m) PROVE ForeignInv'
  BY <1>3, QuietForeignStep DEF Sign, versionVars, erc20Vars, executionVars, ExecutionLimitTypeOK,
     ForeignInv, ForeignTypeOK
<1>4. CASE PauseToken
  BY <1>4, QuietForeignStep DEF PauseToken, versionVars, executionVars, ExecutionLimitTypeOK,
     ForeignInv, ForeignTypeOK
<1>5. CASE ForeignNewDay
  BY <1>5, QuietForeignStep DEF ForeignNewDay, NewExecutionDay, foreignBridgeVars, versionVars,
     erc20Vars, ExecutionLimitTypeOK, ForeignInv, ForeignTypeOK
<1>6. CASE UNCHANGED foreignVars
  BY <1>6, QuietForeignStep DEF foreignVars, foreignBridgeVars, versionVars, erc20Vars,
     executionVars, ExecutionLimitTypeOK, ForeignInv, ForeignTypeOK
<1> QED
  BY <1>1, <1>2, <1>3, <1>4, <1>5, <1>6, ForeignOwnerPreserves DEF ForeignNext

-----------------------------------------------------------------------------
(* Types, validators and the single payment hold in every state.           *)
THEOREM ForeignInvariant == ForeignSpec => []ForeignInv
<1>1. ForeignInit => ForeignInv
  BY ForeignInitEstablishes
<1>2. ForeignInv /\ [ForeignNext]_foreignVars => ForeignInv'
  BY ForeignNextPreserves
<1> QED
  BY <1>1, <1>2, PTL DEF ForeignSpec

(* A transaction of the home chain is paid out at most once, also when     *)
(* several requests share its hash and when versions change in between.    *)
THEOREM AlwaysPaidOnce == ForeignSpec => []PaidOncePerTransaction
<1>1. ForeignInv => PaidOncePerTransaction
  BY DEF ForeignInv
<1> QED
  BY <1>1, ForeignInvariant, PTL

-----------------------------------------------------------------------------
(* Signatures without duplicates are of as many different validators.      *)
LEMMA SignaturesAreAQuorum ==
  ASSUME ForeignInv, NEW m \in RelayMessage, NEW sigs \in Presentable(signedBy[m]),
         HasEnoughValidSignatures(sigs)
  PROVE  Cardinality(signedBy[m] \cap validators) >= requiredSignatures
<1> DEFINE first  == [i \in 1..requiredSignatures |-> sigs[i]]
           voters == signedBy[m] \cap validators
<1>1. requiredSignatures \in Nat
  BY DEF ForeignInv, ForeignTypeOK, ValidatorsTypeOK
<1>2. PICK n \in 1..Cardinality(Validator) : sigs \in [1..n -> signedBy[m]]
  BY DEF Presentable
<1>3. n \in Nat
  BY ValidatorAssumption, FS_CardinalityType
<1>4. Len(sigs) = n
  BY <1>2, <1>3
<1>5. \A i \in 1..requiredSignatures : sigs[i] \in voters
  BY <1>1, <1>2, <1>3, <1>4 DEF HasEnoughValidSignatures
<1>6. first \in Injection(1..requiredSignatures, voters)
  BY <1>5 DEF HasEnoughValidSignatures, HasDuplicate, Injection, IsInjective
<1>7. IsFiniteSet(voters)
  <2>1. voters \subseteq Validator
    BY DEF ForeignInv, ForeignTypeOK, ValidatorsTypeOK
  <2> QED
    BY <2>1, ValidatorAssumption, FS_Subset
<1>8. Cardinality(1..requiredSignatures) <= Cardinality(voters)
  BY <1>6, <1>7, FS_Injection
<1>9. Cardinality(1..requiredSignatures) = requiredSignatures
  BY <1>1, FS_Interval
<1>10. Cardinality(voters) \in Nat
  BY <1>7, FS_CardinalityType
<1> QED
  BY <1>1, <1>8, <1>9, <1>10

(* Only executeSignatures pays, and only its message.                      *)
LEMMA OnlySignaturesPay ==
  ASSUME ForeignInv, [ForeignNext]_foreignVars, NEW m \in RelayMessage, paid'[m] # paid[m]
  PROVE  \E sigs \in Presentable(signedBy[m]) : ExecuteSignatures(sigs, m)
<1>1. CASE \E n \in RelayMessage : \E sigs \in Presentable(signedBy[n]) : ExecuteSignatures(sigs, n)
  <2>1. PICK n \in RelayMessage : \E sigs \in Presentable(signedBy[n]) : ExecuteSignatures(sigs, n)
    BY <1>1
  <2>2. Relay(n)
    BY <2>1 DEF ExecuteSignatures
  <2>3. paid' = paid \/ paid' = [paid EXCEPT ![n] = @ + 1]
    BY <2>2, RelayEffect DEF ForeignInv
  <2>4. m = n
    BY <2>3 DEF ForeignInv, ForeignTypeOK
  <2> QED
    BY <2>1, <2>4
<1>2. CASE ~\E n \in RelayMessage : \E sigs \in Presentable(signedBy[n]) : ExecuteSignatures(sigs, n)
  <2>1. UNCHANGED paid
    BY <1>2 DEF ForeignNext, Sign, MakeDeposit, PauseToken, ForeignOwnerNext, UpgradeTo,
       SetFallbackRecipient, ForeignNewDay, foreignBridgeVars, foreignVars, relayVars
  <2> QED
    BY <2>1
<1> QED
  BY <1>1, <1>2

(* Value leaves the bridge only for a message to this contract that a      *)
(* quorum of its present validators has signed.                            *)
THEOREM PaymentAlwaysNeedsQuorum == ForeignSpec => PaymentNeedsQuorum
<1>1. ASSUME ForeignInv, [ForeignNext]_foreignVars
      PROVE  [\A m \in RelayMessage : paid'[m] # paid[m] =>
                /\ m.contractAddress = ThisBridge
                /\ Cardinality(signedBy[m] \cap validators) >= requiredSignatures]_foreignVars
  <2> SUFFICES ASSUME NEW m \in RelayMessage, paid'[m] # paid[m]
               PROVE  /\ m.contractAddress = ThisBridge
                      /\ Cardinality(signedBy[m] \cap validators) >= requiredSignatures
    OBVIOUS
  <2>1. PICK sigs \in Presentable(signedBy[m]) : ExecuteSignatures(sigs, m)
    BY <1>1, OnlySignaturesPay
  <2> QED
    BY <1>1, <2>1, SignaturesAreAQuorum DEF ExecuteSignatures, Relay
<1> QED
  BY <1>1, ForeignInvariant, PTL DEF ForeignSpec, PaymentNeedsQuorum

-----------------------------------------------------------------------------
(* With a token that reverts what it does not do, what is marked relayed   *)
(* is paid, or was redirected by the third version.                        *)
LEMMA RelayPays ==
  ASSUME TokenFailure = "revert", ForeignInv, NEW m \in RelayMessage, Relay(m)
  PROVE  \/ paid'[m] >= 1
         \/ m \in redirected' /\ version \in Successive
<1>1. paid \in [RelayMessage -> Nat]
  BY DEF ForeignInv, ForeignTypeOK
<1>2. ASSUME NEW recipient, Pay(m, recipient), Transfers(recipient, m.value)
      PROVE  paid'[m] >= 1
  BY <1>1, <1>2 DEF Pay
<1>3. CASE TokenTransfer(m.recipient, m.value) /\ Pay(m, m.recipient)
  BY <1>2, <1>3 DEF TokenTransfer
<1>4. CASE version \in {"V3", "Native"} /\ PayFallback(m) /\ redirected' = redirected \cup {m}
  BY <1>2, <1>4 DEF PayFallback, Successive
<1> QED
  BY <1>3, <1>4 DEF Relay, OnExecuteMessage

(* With a token that reverts, relaying and paying are one step.            *)
LEMMA RelayedIsPaidStep ==
  ASSUME TokenFailure = "revert", ForeignInv, RelayedIsPaid, [ForeignNext]_foreignVars
  PROVE  RelayedIsPaid'
<1> USE DEF RelayedIsPaid
<1>1. ASSUME NEW m \in RelayMessage, NEW sigs, ExecuteSignatures(sigs, m) PROVE RelayedIsPaid'
  <2>1. Relay(m) /\ version' = version
    BY <1>1 DEF ExecuteSignatures, Relay, versionVars
  <2>2. /\ relayedMessages' = relayedMessages \cup {m.txHash}
        /\ redirected \subseteq redirected'
        /\ paid' = paid \/ paid' = [paid EXCEPT ![m] = @ + 1]
    BY <2>1, RelayEffect DEF ForeignInv
  <2>3. \A n \in RelayMessage : paid'[n] >= paid[n] /\ paid[n] \in Nat /\ paid'[n] \in Nat
    BY <2>2 DEF ForeignInv, ForeignTypeOK
  <2>4. paid'[m] >= 1 \/ (m \in redirected' /\ version' \in Successive)
    BY <2>1, RelayPays
  <2>5. ASSUME NEW h \in relayedMessages
        PROVE  \E n \in RelayMessage : n.txHash = h /\ (paid'[n] >= 1 \/ (n \in redirected' /\ version' \in Successive))
    <3>1. PICK n \in RelayMessage : n.txHash = h /\ (paid[n] >= 1 \/ (n \in redirected /\ version \in Successive))
      BY <2>5
    <3> QED
      BY <2>1, <2>2, <2>3, <3>1
  <2> QED
    BY <2>2, <2>4, <2>5
<1>2. ASSUME UNCHANGED relayVars, version' = version \/ {version, version'} \subseteq Successive
      PROVE  RelayedIsPaid'
  BY <1>2 DEF relayVars
<1> QED
  BY <1>1, <1>2 DEF ForeignNext, Sign, MakeDeposit, PauseToken, ForeignOwnerNext, UpgradeTo,
     SetFallbackRecipient, ForeignNewDay, foreignBridgeVars, foreignVars, versionVars

(* Relaying and paying are one, whatever versions succeed each other, if   *)
(* the token reverts what it does not do.                                  *)
THEOREM RelayedIsAlwaysPaid ==
  ASSUME TokenFailure = "revert" PROVE ForeignSpec => []RelayedIsPaid
<1>1. ForeignInit => RelayedIsPaid
  BY DEF ForeignInit, RelayedIsPaid
<1>2. ForeignInv /\ RelayedIsPaid /\ [ForeignNext]_foreignVars => RelayedIsPaid'
  BY RelayedIsPaidStep
<1> QED
  BY <1>1, <1>2, ForeignInvariant, PTL DEF ForeignSpec

-----------------------------------------------------------------------------
ValueIn(T) == [t \in T |-> t.value]

(* What was paid and what came in are counts of transfers with a value.    *)
LEMMA PaymentsAreWorth ==
  /\ PaidValue = Worth(paid, ValueIn(RelayMessage), RelayMessage)
  /\ DepositedValue = Worth(deposits, ValueIn(Deposit), Deposit)
  /\ PaidValue' = Worth(paid', ValueIn(RelayMessage), RelayMessage)
  /\ DepositedValue' = Worth(deposits', ValueIn(Deposit), Deposit)
BY DEF PaidValue, DepositedValue, Worth, ValueIn

(* There are finitely many transfers, and the values are numbers.          *)
LEMMA ValuesAreNumbers ==
  /\ IsFiniteSet(RelayMessage) /\ ValueIn(RelayMessage) \in [RelayMessage -> Nat]
  /\ IsFiniteSet(Deposit) /\ ValueIn(Deposit) \in [Deposit -> Nat]
BY ForeignAssumption DEF ValueIn

(* So are what was paid and what came in.                                  *)
LEMMA PaymentsAreNumbers ==
  ASSUME ForeignInv
  PROVE  /\ SumFunctionOnSet(PaidValue, RelayMessage) \in Nat
         /\ SumFunctionOnSet(DepositedValue, Deposit) \in Nat
BY PaymentsAreWorth, ValuesAreNumbers, SumOfWorth DEF ForeignInv, ForeignTypeOK

(* One payment more adds its value.                                        *)
LEMMA PaymentAdds ==
  ASSUME ForeignInv, NEW m \in RelayMessage, OneMore(paid', paid, m)
  PROVE  SumFunctionOnSet(PaidValue', RelayMessage)
           = SumFunctionOnSet(PaidValue, RelayMessage) + m.value
<1>1. ValueIn(RelayMessage)[m] = m.value /\ paid \in [RelayMessage -> Nat]
  BY DEF ValueIn, ForeignInv, ForeignTypeOK
<1> QED
  BY <1>1, PaymentsAreWorth, ValuesAreNumbers, SumCountsOneMore

(* One deposit more adds its value.                                        *)
LEMMA DepositAdds ==
  ASSUME ForeignInv, NEW d \in Deposit, OneMore(deposits', deposits, d)
  PROVE  SumFunctionOnSet(DepositedValue', Deposit)
           = SumFunctionOnSet(DepositedValue, Deposit) + d.value
<1>1. ValueIn(Deposit)[d] = d.value /\ deposits \in [Deposit -> Nat]
  BY DEF ValueIn, ForeignInv, ForeignTypeOK
<1> QED
  BY <1>1, PaymentsAreWorth, ValuesAreNumbers, SumCountsOneMore

(* An upgrade does not change whether the bridge holds or mints its token. *)
LEMMA UpgradesKeepTheKind ==
  ASSUME [ForeignNext]_foreignVars
  PROVE  version' \in Minting <=> version \in Minting
BY DEF ForeignNext, ExecuteSignatures, Relay, Sign, MakeDeposit, PauseToken, ForeignOwnerNext,
   UpgradeTo, SetFallbackRecipient, ForeignNewDay, foreignBridgeVars, foreignVars, versionVars,
   Minting, Successive

(* The amount that is paid and what leaves the bridge are the same.        *)
LEMMA RelayKeepsBalance ==
  ASSUME ForeignInv, BalanceMatchesPayments, NEW m \in RelayMessage, Relay(m)
  PROVE  BalanceMatchesPayments'
<1> USE DEF BalanceMatchesPayments
<1>1. UNCHANGED <<version, deposits>>
  BY DEF Relay, versionVars
<1>2. DepositedValue' = DepositedValue
  BY <1>1 DEF DepositedValue
<1>3. CASE UNCHANGED <<tokenBalance, paid>>
  <2>1. PaidValue' = PaidValue
    BY <1>3 DEF PaidValue
  <2> QED
    BY <1>1, <1>2, <1>3, <2>1
<1>4. CASE /\ OneMore(paid', paid, m)
           /\ tokenBalance' =
                IF version \in Minting THEN tokenBalance + m.value ELSE tokenBalance - m.value
  <2>1. SumFunctionOnSet(PaidValue', RelayMessage)
          = SumFunctionOnSet(PaidValue, RelayMessage) + m.value
    BY <1>4, PaymentAdds
  <2>2. /\ SumFunctionOnSet(PaidValue, RelayMessage) \in Nat
        /\ SumFunctionOnSet(DepositedValue, Deposit) \in Nat
    BY PaymentsAreNumbers
  <2>3. m.value \in Nat /\ tokenBalance \in Nat
    BY ForeignAssumption DEF ForeignInv, ForeignTypeOK
  <2> QED
    BY <1>1, <1>2, <1>4, <2>1, <2>2, <2>3
<1> QED
  BY <1>3, <1>4 DEF Relay, OnExecuteMessage, PayFallback, Pay, OneMore

(* So are a deposit and what comes in.                                     *)
LEMMA DepositKeepsBalance ==
  ASSUME ForeignInv, BalanceMatchesPayments, NEW d \in Deposit, MakeDeposit(d)
  PROVE  BalanceMatchesPayments'
<1>1. /\ UNCHANGED <<version, paid>>
      /\ OneMore(deposits', deposits, d)
      /\ tokenBalance' =
           IF version \in Minting THEN tokenBalance - d.value ELSE tokenBalance + d.value
  BY DEF MakeDeposit, Hold, OnTokenReceived, versionVars, relayVars, OneMore
<1>2. PaidValue' = PaidValue
  BY <1>1 DEF PaidValue
<1>3. SumFunctionOnSet(DepositedValue', Deposit)
        = SumFunctionOnSet(DepositedValue, Deposit) + d.value
  BY <1>1, DepositAdds
<1>4. d.value \in Nat /\ tokenBalance \in Nat
  BY ForeignAssumption DEF ForeignInv, ForeignTypeOK
<1>5. /\ SumFunctionOnSet(PaidValue, RelayMessage) \in Nat
      /\ SumFunctionOnSet(DepositedValue, Deposit) \in Nat
  BY PaymentsAreNumbers
<1> QED
  BY <1>1, <1>2, <1>3, <1>4, <1>5 DEF BalanceMatchesPayments

(* Every step keeps the balance right: what neither pays nor deposits does *)
(* not touch it.                                                           *)
LEMMA BalanceStep ==
  ASSUME ForeignInv, BalanceMatchesPayments, [ForeignNext]_foreignVars
  PROVE  BalanceMatchesPayments'
<1>1. ASSUME NEW m \in RelayMessage, NEW sigs, ExecuteSignatures(sigs, m)
      PROVE  BalanceMatchesPayments'
  BY <1>1, RelayKeepsBalance DEF ExecuteSignatures
<1>2. ASSUME UNCHANGED <<tokenBalance, paid, deposits>> PROVE BalanceMatchesPayments'
  <2>1. PaidValue' = PaidValue /\ DepositedValue' = DepositedValue
    BY <1>2 DEF PaidValue, DepositedValue
  <2> QED
    BY <1>2, <2>1, UpgradesKeepTheKind DEF BalanceMatchesPayments
<1> QED
  BY <1>1, <1>2, DepositKeepsBalance
  DEF ForeignNext, Sign, PauseToken, ForeignOwnerNext, UpgradeTo, SetFallbackRecipient,
      ForeignNewDay, foreignBridgeVars, foreignVars, relayVars, erc20Vars

(* What the bridge holds is what was deposited less what it paid, and the  *)
(* supply of a token it mints what it paid less what came back: whatever   *)
(* the token does, and through every upgrade.                              *)
THEOREM BalanceAlwaysMatches == ForeignSpec => []BalanceMatchesPayments
<1>1. ForeignInit => BalanceMatchesPayments
  <2> SUFFICES ASSUME ForeignInit PROVE BalanceMatchesPayments
    OBVIOUS
  <2>1. /\ \A m \in RelayMessage : PaidValue[m] = 0
        /\ \A d \in Deposit : DepositedValue[d] = 0
    BY ForeignAssumption DEF ForeignInit, PaidValue, DepositedValue
  <2>2. /\ SumFunctionOnSet(PaidValue, RelayMessage) = 0
        /\ SumFunctionOnSet(DepositedValue, Deposit) = 0
    BY <2>1, ForeignAssumption, SumIsZero
  <2> QED
    BY <2>2 DEF ForeignInit, BalanceMatchesPayments
<1>2. ForeignInv /\ BalanceMatchesPayments /\ [ForeignNext]_foreignVars => BalanceMatchesPayments'
  BY BalanceStep
<1> QED
  BY <1>1, <1>2, ForeignInvariant, PTL DEF ForeignSpec

-----------------------------------------------------------------------------
(* What a day executes stays within the limit in force, whenever the owner *)
(* lowers it.                                                              *)
THEOREM ExecutionStaysWithinDailyLimit == ForeignSpec => ExecutedWithinDailyLimit
<1>1. ASSUME ForeignInv, [ForeignNext]_foreignVars, totalExecutedToday' > totalExecutedToday
      PROVE  totalExecutedToday' <= executionDailyLimit
  <2>1. totalExecutedToday \in Nat
    BY <1>1 DEF ForeignInv, ForeignTypeOK, ExecutionLimitTypeOK
  <2>2. ASSUME NEW m \in RelayMessage, NEW sigs, ExecuteSignatures(sigs, m)
        PROVE  totalExecutedToday' <= executionDailyLimit
    <3>1. IF version = "ErcToErc" THEN AddExecuted(m.value) ELSE UNCHANGED executionVars
      <4>1. Relay(m) /\ ForeignTypeOK
        BY <2>2, <1>1 DEF ExecuteSignatures, ForeignInv
      <4> QED
        BY <4>1, RelayEffect
    <3>2. version = "ErcToErc" => WithinExecutionLimit(m.value)
      BY <2>2 DEF ExecuteSignatures, MessageWithinLimits
    <3>3. m.value \in Nat
      BY ForeignAssumption
    <3> QED
      BY <1>1, <2>1, <3>1, <3>2, <3>3 DEF AddExecuted, WithinExecutionLimit, executionVars
  <2>3. CASE UNCHANGED totalExecutedToday
    BY <1>1, <2>1, <2>3
  <2>4. CASE totalExecutedToday' = 0
    BY <1>1, <2>1, <2>4
  <2> QED
    BY <1>1, <2>2, <2>3, <2>4 DEF ForeignNext, Sign, MakeDeposit, PauseToken, ForeignOwnerNext,
       UpgradeTo, SetFallbackRecipient, ForeignNewDay, NewExecutionDay, SetExecutionLimits,
       SetExecutionDailyLimit, SetExecutionMaxPerTx, executionVars, foreignVars
<1>2. ForeignInv /\ [ForeignNext]_foreignVars =>
        [totalExecutedToday' > totalExecutedToday =>
           totalExecutedToday' <= executionDailyLimit]_executionVars
  BY <1>1
<1> QED
  BY <1>2, ForeignInvariant, PTL DEF ForeignSpec, ExecutedWithinDailyLimit
=============================================================================

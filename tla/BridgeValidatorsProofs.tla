----------------------- MODULE BridgeValidatorsProofs -----------------------
(***************************************************************************)
(* Proofs about BridgeValidators for every set of addresses and every      *)
(* sequence of the owner's calls.  The lemmas say what the two operations  *)
(* on the array of slots do to it; the inductive invariant joins the type, *)
(* the agreement of array, mapping and counter, and the range of the       *)
(* quorum in terms of the counter, which is what removeValidator checks.   *)
(***************************************************************************)
EXTENDS BridgeValidators, FiniteSetTheorems, SequenceTheorems, TLAPS

(* A list without repetition has as many members as slots: the list is     *)
(* itself a bijection from its indices to its members.                     *)
LEMMA MembersCardinality ==
  ASSUME NEW S, NEW list \in Seq(S), NoRepetition(list)
  PROVE  IsFiniteSet(Members(list)) /\ Cardinality(Members(list)) = Len(list)
<1>1. Len(list) \in Nat
  BY LenProperties
<1>2. list \in Bijection(1..Len(list), Members(list))
  BY LenProperties DEF NoRepetition, Members, Bijection, Injection, Surjection, IsInjective
<1>3. ExistsBijection(1..Len(list), Members(list))
  BY <1>2 DEF ExistsBijection
<1> QED
  BY <1>1, <1>3, FS_NatBijection, FS_CountingElements

(* addValidator's push keeps a list without repetition.                    *)
LEMMA AppendKeepsMembers ==
  ASSUME NEW S, NEW list \in Seq(S), NEW v \in S, NoRepetition(list), v \notin Members(list)
  PROVE  /\ Append(list, v) \in Seq(S)
         /\ Len(Append(list, v)) = Len(list) + 1
         /\ NoRepetition(Append(list, v))
         /\ Members(Append(list, v)) = Members(list) \cup {v}
<1> DEFINE longer == Append(list, v)
<1>1. /\ longer \in Seq(S)
      /\ Len(longer) = Len(list) + 1
      /\ Len(list) \in Nat
      /\ \A i \in 1..Len(list) : longer[i] = list[i]
      /\ longer[Len(list) + 1] = v
  OBVIOUS
<1>2. \A i \in 1..Len(longer) : i \in 1..Len(list) \/ i = Len(list) + 1
  BY <1>1
<1>3. NoRepetition(longer)
  BY <1>1, <1>2 DEF NoRepetition, Members
<1>4. Members(longer) = Members(list) \cup {v}
  BY <1>1, <1>2 DEF Members
<1> QED
  BY <1>1, <1>3, <1>4

(* The swap-with-last removal takes out the value of one slot and no       *)
(* other, and keeps the list free of repetitions and holes.                *)
LEMMA SwapRemoveKeepsMembers ==
  ASSUME NEW S, NEW list \in Seq(S), NEW i \in 1..Len(list), NoRepetition(list)
  PROVE  /\ SwapRemove(list, i) \in Seq(S)
         /\ Len(SwapRemove(list, i)) = Len(list) - 1
         /\ NoRepetition(SwapRemove(list, i))
         /\ Members(SwapRemove(list, i)) = Members(list) \ {list[i]}
<1> DEFINE last    == Len(list)
           swapped == [list EXCEPT ![i] = list[last]]
           shorter == SubSeq(swapped, 1, last - 1)
<1>0. SwapRemove(list, i) = shorter
  BY DEF SwapRemove
<1>1. last \in Nat \ {0} /\ list[last] \in S
  BY LenProperties, ElementOfSeq
<1>2. /\ swapped \in Seq(S)
      /\ Len(swapped) = last
      /\ \A j \in 1..last : swapped[j] = IF j = i THEN list[last] ELSE list[j]
  BY <1>1, ExceptSeq
<1>3. \A j \in 1..(last - 1) : swapped[j] \in S
  BY <1>1, <1>2, ElementOfSeq
<1>4. /\ shorter \in Seq(S)
      /\ Len(shorter) = last - 1
      /\ \A j \in 1..(last - 1) : shorter[j] = swapped[j]
  <2> HIDE DEF swapped, last
  <2>1. 1 \in Int /\ last - 1 \in Int /\ (last - 1) - 1 + 1 = last - 1
    BY <1>1
  <2>2. /\ shorter \in Seq(S)
        /\ Len(shorter) = IF 1 <= last - 1 THEN (last - 1) - 1 + 1 ELSE 0
        /\ \A j \in 1..((last - 1) - 1 + 1) : shorter[j] = swapped[1 + j - 1]
    BY <2>1, <1>3, SubSeqProperties
  <2> QED
    BY <1>1, <2>1, <2>2
<1>5. \A j \in 1..(last - 1) : shorter[j] = IF j = i THEN list[last] ELSE list[j]
  BY <1>1, <1>2, <1>4
<1> HIDE DEF swapped, shorter
<1>6. NoRepetition(shorter)
  BY <1>1, <1>4, <1>5 DEF NoRepetition
<1>7. Members(shorter) = Members(list) \ {list[i]}
  <2>1. ASSUME NEW j \in 1..Len(shorter)
        PROVE  shorter[j] \in Members(list) \ {list[i]}
    BY <1>1, <1>4, <1>5 DEF NoRepetition, Members
  <2>2. ASSUME NEW x \in Members(list) \ {list[i]}
        PROVE  \E j \in 1..Len(shorter) : shorter[j] = x
    <3>1. PICK k \in 1..last : list[k] = x /\ k # i
      BY <2>2 DEF Members
    <3>2. CASE k = last
      BY <1>1, <1>4, <1>5, <3>1, <3>2
    <3>3. CASE k # last
      BY <1>1, <1>4, <1>5, <3>1, <3>3
    <3> QED
      BY <3>2, <3>3
  <2> QED
    BY <2>1, <2>2 DEF Members
<1> QED
  BY <1>0, <1>4, <1>6, <1>7

(* No slot but i gets another value.                                       *)
LEMMA SwapRemoveKeepsOthers ==
  ASSUME NEW S, NEW list \in Seq(S), NEW i \in 1..Len(list), NoRepetition(list),
         NEW j \in 1..Len(SwapRemove(list, i)), j # i
  PROVE  SwapRemove(list, i)[j] = list[j]
<1> DEFINE last    == Len(list)
           swapped == [list EXCEPT ![i] = list[last]]
<1>1. last \in Nat \ {0} /\ list[last] \in S
  BY LenProperties, ElementOfSeq
<1>2. /\ swapped \in Seq(S)
      /\ Len(swapped) = last
      /\ \A k \in 1..last : swapped[k] = IF k = i THEN list[last] ELSE list[k]
  BY <1>1, ExceptSeq
<1>3. Len(SwapRemove(list, i)) = last - 1
  BY SwapRemoveKeepsMembers
<1>4. SwapRemove(list, i)[j] = swapped[j]
  <2> HIDE DEF last
  <2>1. SwapRemove(list, i) = SubSeq(swapped, 1, last - 1)
    BY DEF SwapRemove, last
  <2> HIDE DEF swapped
  <2>2. \A k \in 1..(last - 1) : swapped[k] \in S
    BY <1>1, <1>2, ElementOfSeq
  <2>3. 1 \in Int /\ last - 1 \in Int /\ (last - 1) - 1 + 1 = last - 1 /\ j \in 1..(last - 1)
    BY <1>1, <1>3
  <2>4. \A k \in 1..((last - 1) - 1 + 1) : SubSeq(swapped, 1, last - 1)[k] = swapped[1 + k - 1]
    BY <2>2, <2>3, SubSeqProperties
  <2> QED
    BY <2>1, <2>3, <2>4
<1> QED
  BY <1>1, <1>2, <1>3, <1>4

-----------------------------------------------------------------------------
(* The inductive invariant.                                                *)
ValidatorsInv ==
  /\ ValidatorsTypeOK
  /\ ListMatchesMapping
  /\ requiredSignatures >= 1
  /\ requiredSignatures <= validatorCount

(* initialize leaves the contract in a state of the invariant.             *)
LEMMA ValidatorsInitEstablishes == ValidatorsInit => ValidatorsInv
<1> SUFFICES ASSUME ValidatorsInit PROVE ValidatorsInv
  OBVIOUS
<1>1. Cardinality(Validator) \in Nat
  BY ValidatorAssumption, FS_CardinalityType
<1>2. PICK list \in ListsUpTo(Cardinality(Validator)), required \in 0..Cardinality(Validator) :
        Initialize(list, required)
  BY DEF ValidatorsInit
<1>3. list \in Seq(Validator)
  BY <1>1, <1>2, SeqDef DEF ListsUpTo
<1>4. ValidatorsTypeOK
  BY <1>1, <1>2, <1>3, LenProperties DEF Initialize, ValidatorsTypeOK, Members
<1>5. ListMatchesMapping
  BY <1>2 DEF Initialize, ListMatchesMapping
<1>6. requiredSignatures >= 1 /\ requiredSignatures <= validatorCount
  BY <1>1, <1>2, <1>3, LenProperties DEF Initialize
<1> QED
  BY <1>4, <1>5, <1>6 DEF ValidatorsInv

(* addValidator keeps the invariant: the new slot is the last one.         *)
LEMMA AddValidatorPreserves ==
  ASSUME ValidatorsInv, NEW v \in Validator, AddValidator(v)
  PROVE  ValidatorsInv'
<1> USE DEF ValidatorsInv, ListMatchesMapping, ValidatorsTypeOK
<1>1. /\ validatorsList' \in Seq(Validator)
      /\ Len(validatorsList') = Len(validatorsList) + 1
      /\ NoRepetition(validatorsList')
      /\ Members(validatorsList') = validators \cup {v}
  BY AppendKeepsMembers DEF AddValidator
<1>2. ListMatchesMapping'
  BY <1>1 DEF AddValidator, NoRepetition, Members
<1>3. ValidatorsTypeOK'
  BY <1>1 DEF AddValidator
<1> QED
  BY <1>2, <1>3 DEF AddValidator

(* removeValidator keeps it: more validators than the quorum are there.    *)
LEMMA RemoveValidatorPreserves ==
  ASSUME ValidatorsInv, NEW v \in Validator, RemoveValidator(v)
  PROVE  ValidatorsInv'
<1> USE DEF ValidatorsInv, ListMatchesMapping, ValidatorsTypeOK
<1>1. PICK i \in 1..validatorCount :
        validatorsList[i] = v /\ validatorsList' = SwapRemove(validatorsList, i)
  BY DEF RemoveValidator, DeleteValidator
<1>2. /\ validatorsList' \in Seq(Validator)
      /\ Len(validatorsList') = Len(validatorsList) - 1
      /\ NoRepetition(validatorsList')
      /\ Members(validatorsList') = validators \ {v}
  BY <1>1, SwapRemoveKeepsMembers
<1>3. ListMatchesMapping'
  BY <1>2 DEF RemoveValidator, DeleteValidator, NoRepetition, Members
<1>4. ValidatorsTypeOK'
  BY <1>2, LenProperties DEF RemoveValidator, DeleteValidator
<1>5. requiredSignatures' >= 1 /\ requiredSignatures' <= validatorCount'
  BY DEF RemoveValidator, DeleteValidator
<1> QED
  BY <1>3, <1>4, <1>5

(* setRequiredSignatures keeps it: it asks for a reachable quorum.         *)
LEMMA SetRequiredSignaturesPreserves ==
  ASSUME ValidatorsInv, NEW n \in Nat, SetRequiredSignatures(n)
  PROVE  ValidatorsInv'
  BY DEF ValidatorsInv, ListMatchesMapping, ValidatorsTypeOK, SetRequiredSignatures,
         NoRepetition, Members

(* Every call of the owner, and every step of another contract, keeps it.  *)
LEMMA ValidatorsNextPreserves ==
  ASSUME ValidatorsInv, [ValidatorsNext]_validatorVars
  PROVE  ValidatorsInv'
<1>1. CASE UNCHANGED validatorVars
  BY <1>1 DEF validatorVars, ValidatorsInv, ListMatchesMapping, ValidatorsTypeOK,
              NoRepetition, Members
<1>2. CASE \E v \in Validator : AddValidator(v)
  BY <1>2, AddValidatorPreserves
<1>3. CASE \E v \in Validator : RemoveValidator(v)
  BY <1>3, RemoveValidatorPreserves
<1>4. CASE \E n \in 0..(Cardinality(Validator) + 1) : SetRequiredSignatures(n)
  <2>1. Cardinality(Validator) \in Nat
    BY ValidatorAssumption, FS_CardinalityType
  <2> QED
    BY <1>4, <2>1, SetRequiredSignaturesPreserves
<1> QED
  BY <1>1, <1>2, <1>3, <1>4 DEF ValidatorsNext

(* The invariant gives the quorum in terms of the mapping, which is what   *)
(* the bridge contracts ask: as many members as the counter says.          *)
LEMMA InvGivesQuorum == ValidatorsInv => QuorumReachable
<1> SUFFICES ASSUME ValidatorsInv PROVE QuorumReachable
  OBVIOUS
<1>1. Cardinality(validators) = validatorCount
  BY MembersCardinality DEF ValidatorsInv, ValidatorsTypeOK, ListMatchesMapping
<1> QED
  BY <1>1 DEF ValidatorsInv, QuorumReachable

-----------------------------------------------------------------------------
(* The invariant holds in every state of the contract.                     *)
THEOREM ValidatorsInvariant == ValidatorsSpec => []ValidatorsInv
<1>1. ValidatorsInit => ValidatorsInv
  BY ValidatorsInitEstablishes
<1>2. ValidatorsInv /\ [ValidatorsNext]_validatorVars => ValidatorsInv'
  BY ValidatorsNextPreserves
<1> QED
  BY <1>1, <1>2, PTL DEF ValidatorsSpec

(* Array, mapping and counter of validators agree after any sequence of    *)
(* additions and swap-with-last removals.                                  *)
THEOREM ListAlwaysMatchesMapping == ValidatorsSpec => []ListMatchesMapping
<1>1. ValidatorsInv => ListMatchesMapping
  BY DEF ValidatorsInv
<1> QED
  BY <1>1, ValidatorsInvariant, PTL

(* A quorum of present validators exists at all times and is never empty.  *)
THEOREM QuorumAlwaysReachable == ValidatorsSpec => []QuorumReachable
  BY InvGivesQuorum, ValidatorsInvariant, PTL

-----------------------------------------------------------------------------
(* The list gets shorter only when removeValidator takes out a slot.       *)
LEMMA OnlyRemovalShrinks ==
  ASSUME ValidatorsInv, [ValidatorsNext]_validatorVars,
         Len(validatorsList') < Len(validatorsList)
  PROVE  \E i \in 1..Len(validatorsList) : validatorsList' = SwapRemove(validatorsList, i)
<1> USE DEF ValidatorsInv, ValidatorsTypeOK, ListMatchesMapping
<1>1. Len(validatorsList) \in Nat
  BY LenProperties
<1>2. ASSUME UNCHANGED validatorsList PROVE FALSE
  BY <1>1, <1>2
<1>3. CASE \E v \in Validator : AddValidator(v)
  BY <1>1, <1>3, AppendKeepsMembers DEF AddValidator
<1>4. CASE \E v \in Validator : RemoveValidator(v)
  BY <1>4 DEF RemoveValidator, DeleteValidator
<1> QED
  BY <1>2, <1>3, <1>4 DEF ValidatorsNext, SetRequiredSignatures, validatorVars

(* Removing a validator gives at most one other address another slot.      *)
THEOREM RemovalMoves == ValidatorsSpec => RemovalMovesAtMostOne
<1> DEFINE moved == {i \in 1..Len(validatorsList') : validatorsList'[i] # validatorsList[i]}
<1>1. ASSUME ValidatorsInv, [ValidatorsNext]_validatorVars,
             Len(validatorsList') < Len(validatorsList)
      PROVE  Cardinality(moved) <= 1
  <2>1. PICK i \in 1..Len(validatorsList) : validatorsList' = SwapRemove(validatorsList, i)
    BY <1>1, OnlyRemovalShrinks
  <2>2. moved \in SUBSET {i}
    BY <1>1, <2>1, SwapRemoveKeepsOthers DEF ValidatorsInv, ValidatorsTypeOK, ListMatchesMapping
  <2> HIDE DEF moved
  <2>3. IsFiniteSet({i}) /\ Cardinality({i}) = 1
    BY FS_Singleton
  <2>4. Cardinality(moved) <= Cardinality({i})
    BY <2>2, <2>3, FS_Subset
  <2> QED
    BY <2>3, <2>4
<1>2. ValidatorsInv /\ [ValidatorsNext]_validatorVars
        => [ Len(validatorsList') < Len(validatorsList) =>
               Cardinality({i \in 1..Len(validatorsList') : validatorsList'[i] # validatorsList[i]})
                 <= 1 ]_validatorVars
  BY <1>1
<1> QED
  BY <1>2, ValidatorsInvariant, PTL DEF ValidatorsSpec, RemovalMovesAtMostOne
=============================================================================

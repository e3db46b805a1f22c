-------------------------- MODULE BridgeValidators --------------------------
(***************************************************************************)
(* contracts/contracts/upgradeable_contracts/BridgeValidators.sol: the     *)
(* contract, deployed on both chains, that says who may vote and how many  *)
(* votes make a quorum.  It keeps the same membership twice, as a mapping  *)
(* and as an array of slots, and a counter beside them; removing a member  *)
(* moves the last slot into the hole.                                      *)
(*                                                                         *)
(* A transaction either runs to its end or reverts, so one call of the     *)
(* contract is one action and each require is a conjunct of its guard.     *)
(* Only the owner calls the three operations; the owner is not a part of   *)
(* the state.                                                              *)
(***************************************************************************)
EXTENDS Integers, Sequences, FiniteSets

CONSTANT Validator    \* every address the owner may ever make a validator

ASSUME ValidatorAssumption == IsFiniteSet(Validator) /\ Validator # {}

VARIABLES
  validators,         \* the mapping isValidator, as the set of its members
  validatorsList,     \* the array of slots, validatorsList[i] for slot i - 1
  validatorCount,
  requiredSignatures

validatorVars == <<validators, validatorsList, validatorCount, requiredSignatures>>

ValidatorsTypeOK ==
  /\ validators \subseteq Validator
  /\ validatorsList \in Seq(Validator)
  /\ validatorCount \in Nat
  /\ requiredSignatures \in Nat

NoRepetition(list) == \A i, j \in 1..Len(list) : list[i] = list[j] => i = j

Members(list) == {list[i] : i \in 1..Len(list)}

(* initialize: the loop over _initialValidators asserts that none of them  *)
(* was added before, and at least _requiredSignatures of them are given.   *)
Initialize(list, required) ==
  /\ required # 0
  /\ Len(list) >= required
  /\ NoRepetition(list)
  /\ validatorsList = list
  /\ validators = Members(list)
  /\ validatorCount = Len(list)
  /\ requiredSignatures = required

ListsUpTo(n) == UNION {[1..k -> Validator] : k \in 1..n}

ValidatorsInit ==
  \E list \in ListsUpTo(Cardinality(Validator)), required \in 0..Cardinality(Validator) :
    Initialize(list, required)

AddValidator(v) ==
  /\ v \notin validators
  /\ validatorsList' = Append(validatorsList, v)
  /\ validators' = validators \cup {v}
  /\ validatorCount' = validatorCount + 1
  /\ UNCHANGED requiredSignatures

(* Mutants of SwapRemove: the last slot is dropped without having been     *)
(* moved; all slots behind the hole move up.                               *)
DropLast(list, i)  == SubSeq(list, 1, Len(list) - 1)
MoveUp(list, i)    == SubSeq(list, 1, i - 1) \o SubSeq(list, i + 1, Len(list))

(* The array after the value of the last slot overwrote slot i and the     *)
(* last slot was deleted.                                                  *)
SwapRemove(list, i) == SubSeq([list EXCEPT ![i] = list[Len(list)]], 1, Len(list) - 1)

(* The loop stops at the first slot that holds v.                          *)
DeleteValidator(v) ==
  /\ v \in validators
  /\ \E i \in 1..validatorCount :
       /\ validatorsList[i] = v
       /\ \A j \in 1..(i - 1) : validatorsList[j] # v
       /\ validatorsList' = SwapRemove(validatorsList, i)
  /\ validators' = validators \ {v}
  /\ validatorCount' = validatorCount - 1
  /\ UNCHANGED requiredSignatures

(* Mutant of RemoveValidator: the quorum may become unreachable.           *)
RemoveValidatorBelowQuorum(v) == validatorCount >= requiredSignatures /\ DeleteValidator(v)

RemoveValidator(v) == validatorCount > requiredSignatures /\ DeleteValidator(v)

SetRequiredSignatures(n) ==
  /\ validatorCount >= n
  /\ n # 0
  /\ requiredSignatures' = n
  /\ UNCHANGED <<validators, validatorsList, validatorCount>>

ValidatorsNext ==
  \/ \E v \in Validator : AddValidator(v)
  \/ \E v \in Validator : RemoveValidator(v)
  \/ \E n \in 0..(Cardinality(Validator) + 1) : SetRequiredSignatures(n)

ValidatorsSpec == ValidatorsInit /\ [][ValidatorsNext]_validatorVars

-----------------------------------------------------------------------------

(* The three records of who is a validator agree after any sequence of     *)
(* additions and swap-with-last removals: the slots hold exactly the       *)
(* members of the mapping, each once, and the counter is their number.     *)
(* validatorsList() is what the fee of a payment is divided by.            *)
ListMatchesMapping ==
  /\ NoRepetition(validatorsList)
  /\ Members(validatorsList) = validators
  /\ Len(validatorsList) = validatorCount

(* A quorum of the present validators exists, and an empty set of votes is *)
(* never one: 0 < requiredSignatures <= number of validators.              *)
QuorumReachable ==
  /\ requiredSignatures >= 1
  /\ requiredSignatures <= Cardinality(validators)

(* A removal gives exactly one address another slot, or none: every other  *)
(* validator keeps the position at which the fee loop pays it.             *)
RemovalMovesAtMostOne ==
  [][ Len(validatorsList') < Len(validatorsList) =>
        Cardinality({i \in 1..Len(validatorsList') : validatorsList'[i] # validatorsList[i]}) <= 1
    ]_validatorVars
=============================================================================

---------------------------- MODULE MCHomeBridge ----------------------------
(* Small instances of the home bridge: three addresses that may be         *)
(* validators, amounts 1 and 2, one foreign transaction with two deposits  *)
(* and one with a third.  Each behaviour follows one of two scenarios.     *)
EXTENDS HomeBridge, TLC

CONSTANTS alice, bob

MCTransfer(recipient, value, txHash) ==
  [recipient |-> recipient, value |-> value, txHash |-> txHash]

(* Two deposits of one foreign transaction, and one of another. *)
DepositA == MCTransfer(alice, 2, "f1")
DepositB == MCTransfer(bob, 1, "f1")
DepositC == MCTransfer(alice, 1, "f2")

ThreeDeposits  == {DepositA, DepositB, DepositC}
OneWithdrawal  == {MCTransfer(alice, 1, "h1")}
OneUnlock      == {MCTransfer(alice, 2, "fix1")}

ValidatorSymmetry == Permutations(Validator)

VARIABLE scenario
mcVars == <<homeVars, scenario>>

(* "votes": one deposit and one withdrawal among validators that change.   *)
(* "limits": three deposits among two validators and changing limits.      *)
MCInit ==
  /\ HomeInit
  /\ scenario \in {"votes", "limits"}
  /\ scenario = "limits" => Cardinality(validators) <= 2

VotesNext ==
  \/ \E v \in Validator : ExecuteAffirmation(v, DepositA)
  \/ \E v \in Validator, m \in Withdrawal : SubmitSignature(v, m)
  \/ \E m \in Withdrawal : OnTokenTransfer(m)
  \/ FixAssetsAboveLimits(DepositA.txHash, FALSE)
  \/ ValidatorsNext /\ UNCHANGED <<bridgeVars, executionVars, spendVars>>
  \/ SetSpendLimits /\ UNCHANGED <<bridgeVars, validatorVars, executionVars>>
  \/ HomeNewDay

LimitsNext ==
  \/ \E v \in Validator, a \in Affirmation : ExecuteAffirmation(v, a)
  \/ \E h \in TxHash, unlock \in BOOLEAN : FixAssetsAboveLimits(h, unlock)
  \/ SetExecutionLimits /\ UNCHANGED <<bridgeVars, validatorVars, spendVars>>
  \/ HomeNewDay

MCNext ==
  /\ \/ scenario = "votes" /\ VotesNext
     \/ scenario = "limits" /\ LimitsNext
  /\ UNCHANGED scenario

MCSpec == MCInit /\ [][MCNext]_mcVars
=============================================================================

--------------------------- MODULE ExecutionLimit ---------------------------
(***************************************************************************)
(* contracts/contracts/upgradeable_contracts/BasicBridge.sol, the half     *)
(* both bridge contracts use: how much of the other chain's value may be   *)
(* executed here per transaction and per day.  The code keeps one total    *)
(* per day number and only ever reads and writes that of `now / 1 days`;   *)
(* the model keeps today's and lets a new day start at any time.           *)
(***************************************************************************)
EXTENDS Integers

CONSTANTS
  ExecutionLimits,         \* the amounts these limits may be
  NewExecutionLimits       \* bound: those the owner may set later

ASSUME ExecutionLimitsAssumption ==
  /\ ExecutionLimits \subseteq Nat
  /\ NewExecutionLimits \subseteq ExecutionLimits

VARIABLES totalExecutedToday, executionDailyLimit, executionMaxPerTx

executionVars == <<totalExecutedToday, executionDailyLimit, executionMaxPerTx>>

ExecutionLimitTypeOK ==
  /\ totalExecutedToday \in Nat
  /\ executionDailyLimit \in ExecutionLimits
  /\ executionMaxPerTx \in ExecutionLimits

(* What initialize() of either bridge requires. *)
ExecutionLimitInit ==
  /\ totalExecutedToday = 0
  /\ executionDailyLimit \in ExecutionLimits
  /\ executionMaxPerTx \in ExecutionLimits
  /\ executionMaxPerTx < executionDailyLimit

(* Nothing relates the new daily limit to executionMaxPerTx or to the      *)
(* total already executed today.                                           *)
SetExecutionDailyLimit(n) ==
  /\ executionDailyLimit' = n
  /\ UNCHANGED <<totalExecutedToday, executionMaxPerTx>>

SetExecutionMaxPerTx(n) ==
  /\ n < executionDailyLimit
  /\ executionMaxPerTx' = n
  /\ UNCHANGED <<totalExecutedToday, executionDailyLimit>>

(* Mutant of NewExecutionDay: yesterday's total is carried over, less the  *)
(* limit of a day.                                                         *)
NewExecutionDayCarriesOver ==
  /\ totalExecutedToday' = totalExecutedToday - executionDailyLimit
  /\ UNCHANGED <<executionDailyLimit, executionMaxPerTx>>

NewExecutionDay ==
  /\ totalExecutedToday' = 0
  /\ UNCHANGED <<executionDailyLimit, executionMaxPerTx>>

SetExecutionLimits ==
  \E n \in NewExecutionLimits : SetExecutionDailyLimit(n) \/ SetExecutionMaxPerTx(n)

(* Mutant of WithinExecutionLimit: today's total is left out.              *)
WithinExecutionMaxPerTx(amount) ==
  executionDailyLimit >= amount /\ amount <= executionMaxPerTx

WithinExecutionLimit(amount) ==
  /\ executionDailyLimit >= totalExecutedToday + amount
  /\ amount <= executionMaxPerTx

AddExecuted(amount) ==
  /\ totalExecutedToday' = totalExecutedToday + amount
  /\ UNCHANGED <<executionDailyLimit, executionMaxPerTx>>

(* Within one day the executed total grows past the daily limit never:     *)
(* a step that raises it leaves it within the limit in force, also after   *)
(* the owner lowered that limit below what was already executed.           *)
ExecutedWithinDailyLimit ==
  [][ totalExecutedToday' > totalExecutedToday
        => totalExecutedToday' <= executionDailyLimit ]_executionVars
=============================================================================

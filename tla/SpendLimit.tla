----------------------------- MODULE SpendLimit -----------------------------
(***************************************************************************)
(* contracts/contracts/upgradeable_contracts/BasicBridge.sol, the half     *)
(* only the home bridge uses: how much users may send out per call and per *)
(* day.  As in ExecutionLimit, only today's total is kept.                 *)
(***************************************************************************)
EXTENDS Integers

CONSTANTS
  SpendLimits,             \* the amounts these limits may be
  NewSpendLimits           \* bound: those the owner may set later

ASSUME SpendLimitsAssumption ==
  /\ SpendLimits \subseteq Nat
  /\ NewSpendLimits \subseteq SpendLimits

VARIABLES totalSpentToday, dailyLimit, maxPerTx, minPerTx

spendVars == <<totalSpentToday, dailyLimit, maxPerTx, minPerTx>>

SpendLimitTypeOK ==
  /\ totalSpentToday \in Nat
  /\ dailyLimit \in SpendLimits /\ maxPerTx \in SpendLimits /\ minPerTx \in SpendLimits

(* What initialize() of the home bridge requires. *)
SpendLimitInit ==
  /\ totalSpentToday = 0
  /\ dailyLimit \in SpendLimits /\ maxPerTx \in SpendLimits /\ minPerTx \in SpendLimits
  /\ minPerTx > 0 /\ maxPerTx > minPerTx /\ dailyLimit > maxPerTx

SetDailyLimit(n) ==
  /\ dailyLimit' = n
  /\ UNCHANGED <<totalSpentToday, maxPerTx, minPerTx>>

SetMaxPerTx(n) ==
  /\ n < dailyLimit
  /\ maxPerTx' = n
  /\ UNCHANGED <<totalSpentToday, dailyLimit, minPerTx>>

SetMinPerTx(n) ==
  /\ n < dailyLimit
  /\ n < maxPerTx
  /\ minPerTx' = n
  /\ UNCHANGED <<totalSpentToday, dailyLimit, maxPerTx>>

SetSpendLimits ==
  \E n \in NewSpendLimits : SetDailyLimit(n) \/ SetMaxPerTx(n) \/ SetMinPerTx(n)

NewSpendDay ==
  /\ totalSpentToday' = 0
  /\ UNCHANGED <<dailyLimit, maxPerTx, minPerTx>>

WithinLimit(amount) ==
  /\ dailyLimit >= totalSpentToday + amount
  /\ amount <= maxPerTx
  /\ amount >= minPerTx

AddSpent(amount) ==
  /\ totalSpentToday' = totalSpentToday + amount
  /\ UNCHANGED <<dailyLimit, maxPerTx, minPerTx>>
=============================================================================

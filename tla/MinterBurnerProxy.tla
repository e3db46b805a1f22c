-------------------------- MODULE MinterBurnerProxy --------------------------
(***************************************************************************)
(* contracts/contracts/MinterBurnerProxy.sol: the owner of a bridged token *)
(* that several operators mint and burn through, the bridge among them.    *)
(* As in ExecutionLimit only today's totals are kept; a limit of 0 is no   *)
(* limit.  The total of all operators (totalDailyMinted, totalDailyBurned) *)
(* is the sum of the totals of each, with which it always moves.           *)
(***************************************************************************)
EXTENDS Integers, Sequences, Functions

CONSTANTS
  Operator,          \* the addresses that may be operators
  thunderBridge,     \* the bridge, an operator from initialize on
  MinterLimits,      \* bound: the limits the owner sets
  Width              \* thunderBridgeSupply wraps here (2^256 in the contract)

ASSUME MinterAssumption ==
  /\ thunderBridge \in Operator
  /\ MinterLimits \subseteq Nat
  /\ Width \in Nat \ {0}

VARIABLES
  operators,
  mintLimit, burnLimit,      \* [perCall, perOperator, perDay]
  mintedToday, burnedToday,  \* per operator
  thunderBridgeSupply

operatorVars == <<operators, mintLimit, burnLimit>>
minterVars == <<operatorVars, mintedToday, burnedToday, thunderBridgeSupply>>

Limits == [perCall : MinterLimits, perOperator : [Operator -> MinterLimits], perDay : MinterLimits]

MinterTypeOK ==
  /\ operators \subseteq Operator
  /\ mintLimit \in Limits /\ burnLimit \in Limits
  /\ mintedToday \in [Operator -> Nat] /\ burnedToday \in [Operator -> Nat]
  /\ thunderBridgeSupply \in 0..Width - 1

NoLimits == [perCall |-> 0, perOperator |-> [o \in Operator |-> 0], perDay |-> 0]

MinterInit ==
  /\ operators = {thunderBridge}
  /\ mintLimit = NoLimits /\ burnLimit = NoLimits
  /\ mintedToday = [o \in Operator |-> 0]
  /\ burnedToday = [o \in Operator |-> 0]
  /\ thunderBridgeSupply = 0

SumOfAll(f) == SumFunctionOnSet(f, DOMAIN f)

Within(n, limit) == limit > 0 => n <= limit

(* The calls of one operator in one transaction with these amounts: every  *)
(* one of them is within the limits, or the transaction reverts.           *)
Allowed(o, amounts, limit, today) ==
  LET total == SumOfAll(amounts)
  IN  /\ o \in operators
      /\ \A i \in DOMAIN amounts : Within(amounts[i], limit.perCall)
      /\ Within(today[o] + total, limit.perOperator[o])
      /\ Within(SumOfAll(today) + total, limit.perDay)

(* Mutant of MintAll: of several calls the last is forgotten in the totals.*)
MintAllButLast(o, amounts) ==
  /\ Allowed(o, amounts, mintLimit, mintedToday)
  /\ mintedToday' = [mintedToday EXCEPT ![o] = @ + amounts[1]]
  /\ thunderBridgeSupply' =
       IF o = thunderBridge THEN (thunderBridgeSupply + amounts[1]) % Width
                            ELSE thunderBridgeSupply
  /\ UNCHANGED <<operatorVars, burnedToday>>

MintAll(o, amounts) ==
  /\ Allowed(o, amounts, mintLimit, mintedToday)
  /\ mintedToday' = [mintedToday EXCEPT ![o] = @ + SumOfAll(amounts)]
  /\ thunderBridgeSupply' =
       IF o = thunderBridge THEN (thunderBridgeSupply + SumOfAll(amounts)) % Width
                            ELSE thunderBridgeSupply
  /\ UNCHANGED <<operatorVars, burnedToday>>

(* Nothing relates what is burnt to what the same operator minted: a user  *)
(* may return through the bridge what another operator gave it.            *)
Burn(o, amount) ==
  /\ Allowed(o, <<amount>>, burnLimit, burnedToday)
  /\ burnedToday' = [burnedToday EXCEPT ![o] = @ + amount]
  /\ thunderBridgeSupply' =
       IF o = thunderBridge THEN (thunderBridgeSupply - amount) % Width
                            ELSE thunderBridgeSupply
  /\ UNCHANGED <<operatorVars, mintedToday>>

AddOperator(o) ==
  /\ operators' = operators \cup {o}
  /\ UNCHANGED <<mintLimit, burnLimit, mintedToday, burnedToday, thunderBridgeSupply>>

RemoveOperator(o) ==
  /\ operators' = operators \ {o}
  /\ UNCHANGED <<mintLimit, burnLimit, mintedToday, burnedToday, thunderBridgeSupply>>

NewLimit(limit, n) ==
  {[limit EXCEPT !.perCall = n], [limit EXCEPT !.perDay = n]}
    \cup {[limit EXCEPT !.perOperator[o] = n] : o \in Operator}

SetMinterLimit ==
  /\ \E n \in MinterLimits :
       \/ mintLimit' \in NewLimit(mintLimit, n) /\ UNCHANGED burnLimit
       \/ burnLimit' \in NewLimit(burnLimit, n) /\ UNCHANGED mintLimit
  /\ UNCHANGED <<operators, mintedToday, burnedToday, thunderBridgeSupply>>

SetThunderBridgeSupply(amount) ==
  /\ thunderBridgeSupply' = amount % Width
  /\ UNCHANGED <<operatorVars, mintedToday, burnedToday>>

NewMinterDay ==
  /\ mintedToday' = [o \in Operator |-> 0]
  /\ burnedToday' = [o \in Operator |-> 0]
  /\ UNCHANGED <<operatorVars, thunderBridgeSupply>>
=============================================================================

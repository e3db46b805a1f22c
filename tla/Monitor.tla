------------------------------- MODULE Monitor -------------------------------
(***************************************************************************)
(* The statistics of the monitor (monitor/index.js, getShortEventStats.js):*)
(* every UPDATE_PERIOD checkStatus(token) reads from Redis what was counted*)
(* and up to which block, counts the events of the blocks since then and   *)
(* stores both.  The process may be killed at any time.                    *)
(* An event is looked at as one of its block: a count says how often the   *)
(* events of each block are in it.  The nodes are taken to answer for every*)
(* block they have announced, and never to announce an earlier one.        *)
(***************************************************************************)
EXTENDS Naturals, Sequences, FiniteSetsExt

CONSTANTS
  Calls,                  \* calls of checkStatus for one token at a time
  QueryRange,             \* queryRange of utils/contract.js, 1000 there
  MaxBlock, MaxKills      \* bounds

ASSUME MonitorAssumption == QueryRange \in Nat \ {0} /\ MaxBlock \in Nat /\ MaxKills \in Nat

Network == {"home", "foreign"}
Stream == {"homeDeposit", "homeWithdrawal", "foreignDeposit", "foreignWithdrawal"}
NetworkOf(s) == IF s \in {"homeDeposit", "homeWithdrawal"} THEN "home" ELSE "foreign"

(* The keys in Redis, in the order in which they are read and written.     *)
Keys == <<"homeDeposit", "homeWithdrawal", "foreignDeposit", "foreignWithdrawal", "home", "foreign">>

VARIABLES
  height,      \* per network
  redis,       \* per key, a count or the last block processed (0: none)
  locked,      \* checkStatus_<token>
  call,        \* per call, [at, key, known, to]
  wire,        \* SETs that are on their way to Redis, with their call
  kills, torn  \* torn: a process was killed with some of its SETs done

monitorVars == <<height, redis, locked, call, wire, kills, torn>>

Block == 1..MaxBlock
NothingCounted == [b \in Block |-> 0]
Empty == [k \in {Keys[i] : i \in DOMAIN Keys} |-> IF k \in Stream THEN NothingCounted ELSE 0]
Idle == [at |-> "idle", key |-> 1, known |-> Empty, to |-> [n \in Network |-> 0]]

MonitorInit ==
  /\ height = [n \in Network |-> 0]
  /\ redis = Empty
  /\ locked = FALSE
  /\ call = [c \in Calls |-> Idle]
  /\ wire = <<>>
  /\ kills = 0 /\ torn = FALSE

-----------------------------------------------------------------------------
(* Mutant of CheckStatus: the timer starts it although one is running.     *)
CheckStatusUnlocked(c) ==
  /\ call[c].at = "idle"
  /\ locked' = TRUE
  /\ call' = [call EXCEPT ![c].at = "reading"]
  /\ UNCHANGED <<height, redis, wire, kills, torn>>

CheckStatus(c) ==
  /\ ~locked /\ locked' = TRUE
  /\ call[c].at = "idle"
  /\ call' = [call EXCEPT ![c].at = "reading"]
  /\ UNCHANGED <<height, redis, wire, kills, torn>>

(* getProcessedResult four times, getProcessedBlock with its two reads.    *)
ReadKey(c) ==
  /\ call[c].at = "reading"
  /\ LET k == Keys[call[c].key]
     IN  call' = [call EXCEPT ![c].known[k] = redis[k], ![c].key = @ + 1,
                    ![c].at = IF call[c].key = Len(Keys) THEN "heads" ELSE "reading"]
  /\ UNCHANGED <<height, redis, locked, wire, kills, torn>>

GetBlockNumber(c) ==
  /\ call[c].at = "heads"
  /\ call' = [call EXCEPT ![c].to = height, ![c].at = "counting"]
  /\ UNCHANGED <<height, redis, locked, wire, kills, torn>>

(* getPastEventsIter asks for the blocks from .. from + queryRange, the    *)
(* next ones up to from + 2 * queryRange, and so on.  A query that has too *)
(* many results is asked again in two halves, which are the same blocks.   *)
QueryOf(from, b) == IF b = from THEN 0 ELSE (b - from - 1) \div QueryRange
Queries(from, to) ==
  LET first(n) == IF n = 0 THEN from ELSE from + n * QueryRange + 1
      last(n) == Min({from + (n + 1) * QueryRange, to})
  IN  IF from > to THEN {} ELSE {first(n)..last(n) : n \in 0..QueryOf(from, to)}

CountedUpTo(known, s, to) ==
  LET queries == Queries(known[NetworkOf(s)] + 1, to[NetworkOf(s)])
  IN  [b \in Block |-> known[s][b] + Cardinality({q \in queries : b \in q})]

(* All is counted, then all is stored: Promise.all sends every SET at once,*)
(* and Redis receives them in this order.                                  *)
ProcessEvents(c) ==
  /\ call[c].at = "counting"
  /\ LET value(k) == IF k \in Stream THEN CountedUpTo(call[c].known, k, call[c].to) ELSE call[c].to[k]
     IN  wire' = wire \o [i \in DOMAIN Keys |-> [call |-> c, key |-> Keys[i], value |-> value(Keys[i])]]
  /\ call' = [call EXCEPT ![c].at = "storing"]
  /\ UNCHANGED <<height, redis, locked, kills, torn>>

StoreKey ==
  /\ wire # <<>> /\ wire' = Tail(wire)
  /\ redis' = [redis EXCEPT ![Head(wire).key] = Head(wire).value]
  /\ UNCHANGED <<height, locked, call, kills, torn>>

Finally(c) == call' = [call EXCEPT ![c] = Idle] /\ locked' = FALSE

StatusChecked(c) ==
  /\ call[c].at = "storing" /\ (\A i \in DOMAIN wire : wire[i].call # c)
  /\ Finally(c)
  /\ UNCHANGED <<height, redis, wire, kills, torn>>

(* A node or Redis does not answer.  After the counts are stored it makes  *)
(* no difference here.                                                     *)
CheckFails(c) ==
  /\ call[c].at \in {"reading", "heads", "counting"}
  /\ Finally(c)
  /\ UNCHANGED <<height, redis, wire, kills, torn>>

MonitorKilled ==
  /\ kills < MaxKills /\ kills' = kills + 1
  /\ torn' = (torn \/ Len(wire) \in 1..(Len(Keys) - 1))
  /\ wire' = <<>> /\ locked' = FALSE /\ call' = [c \in Calls |-> Idle]
  /\ UNCHANGED <<height, redis>>

NewBlockOf(n) ==
  /\ height[n] < MaxBlock
  /\ height' = [height EXCEPT ![n] = @ + 1]
  /\ UNCHANGED <<redis, locked, call, wire, kills, torn>>

MonitorNext ==
  \/ \E c \in Calls :
       \/ CheckStatus(c) \/ ReadKey(c) \/ GetBlockNumber(c) \/ ProcessEvents(c)
       \/ StatusChecked(c) \/ CheckFails(c)
  \/ StoreKey \/ MonitorKilled
  \/ \E n \in Network : NewBlockOf(n)

MonitorSpec == MonitorInit /\ [][MonitorNext]_monitorVars

-----------------------------------------------------------------------------
(* What is stored counts every event up to the processed block: not less   *)
(* whatever happens, since the block is stored after the counts, and, when *)
(* no process was killed between the two, once.  Checked between updates:  *)
(* with nothing on its way to Redis.                                       *)
CountedOnce ==
  wire = <<>> => \A s \in Stream : \A b \in 1..redis[NetworkOf(s)] :
    redis[s][b] >= 1 /\ (torn \/ redis[s][b] = 1)
=============================================================================

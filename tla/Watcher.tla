------------------------------- MODULE Watcher -------------------------------
(***************************************************************************)
(* One watcher process of a validator (validator/src/lib/watcher.ts and    *)
(* watcher.main.ts): it reads the events of confirmed blocks in batches,   *)
(* hands each to the queue of the sender and keeps the number of the last  *)
(* block it is done with in Redis.  Every await is a point where other     *)
(* things happen: the chain grows or is reorganised, another node with an  *)
(* older head answers, the broker is gone, the process dies.               *)
(*                                                                         *)
(* The chain, the broker and Redis are outside the process.  A block holds *)
(* at most one event, which loses nothing: a batch holds several.          *)
(***************************************************************************)
EXTENDS Integers, Sequences

CONSTANTS
  Event, NoEvent,
  StartBlock,         \* HOME_START_BLOCK or FOREIGN_START_BLOCK
  BatchSize,          \* BATCHSIZE, 500 in the code
  Confirmations,      \* what the owner may set requiredBlockConfirmations to
  MaxReorg,           \* how many of the last blocks may still be replaced
  MaxHeight,          \* bound: the length of the chain
  MaxCrashes,         \* bound: how often the process dies
  NoCheckpoint        \* the key is not in Redis

ASSUME WatcherAssumption ==
  /\ NoEvent \notin Event
  /\ StartBlock \in Nat /\ BatchSize \in Nat /\ MaxReorg \in Nat
  /\ MaxHeight \in Nat /\ MaxCrashes \in Nat /\ NoCheckpoint \notin Nat
  /\ Confirmations \subseteq {n \in Nat : n > 0 /\ n >= MaxReorg}

VARIABLES
  chain,                \* chain[b]: the event of block b
  requiredBlockConfirmations,
  connected,            \* to the broker
  pc,                   \* where the process is
  lastProcessedBlock,   \* its memory: the last block it is done with,
  fromBlock, toBlock,   \* and the batch it is reading
  redis,                \* the checkpoint
  buffer,               \* events handed to the channel, not yet to the broker
  queue,                \* events the broker has stored
  lost,                 \* events that were in the buffer of a process that died
  crashes

chainVars == <<chain, requiredBlockConfirmations>>
memoryVars == <<lastProcessedBlock, fromBlock, toBlock>>
eventVars == <<buffer, queue, lost>>
watcherVars == <<chainVars, connected, pc, memoryVars, redis, eventVars, crashes>>

Block == Event \cup {NoEvent}

WatcherTypeOK ==
  /\ chain \in Seq(Block)
  /\ requiredBlockConfirmations \in Confirmations
  /\ connected \in BOOLEAN
  /\ pc \in {"down", "sleeping", "running", "fetching", "saving"}
  /\ lastProcessedBlock \in Nat /\ fromBlock \in Nat /\ toBlock \in Nat
  /\ redis \in Nat \cup {NoCheckpoint}
  /\ buffer \subseteq Event /\ queue \subseteq Event /\ lost \subseteq Event
  /\ crashes \in 0..MaxCrashes

WatcherInit ==
  /\ chain = <<>>
  /\ requiredBlockConfirmations \in Confirmations
  /\ connected = TRUE
  /\ pc = "down"
  /\ lastProcessedBlock = 0 /\ fromBlock = 0 /\ toBlock = 0
  /\ redis = NoCheckpoint
  /\ buffer = {} /\ queue = {} /\ lost = {}
  /\ crashes = 0

EventsIn(lo, hi) ==
  {chain[b] : b \in {n \in 1..Len(chain) : lo <= n /\ n <= hi}} \ {NoEvent}

-----------------------------------------------------------------------------
(* The chain, the broker *)

Fresh(blocks) ==
  \A i, j \in 1..Len(blocks) : blocks[i] # NoEvent /\ blocks[i] = blocks[j] => i = j

Mine(block) ==
  /\ Len(chain) < MaxHeight
  /\ chain' = Append(chain, block)
  /\ Fresh(chain')
  /\ UNCHANGED <<requiredBlockConfirmations, connected, pc, memoryVars, redis, eventVars, crashes>>

(* The last k blocks are replaced by as many others.                       *)
Reorganise(k) ==
  /\ k <= Len(chain)
  /\ \E blocks \in [1..k -> Block] :
       /\ chain' = SubSeq(chain, 1, Len(chain) - k) \o blocks
       /\ Fresh(chain')
  /\ UNCHANGED <<requiredBlockConfirmations, connected, pc, memoryVars, redis, eventVars, crashes>>

SetRequiredBlockConfirmations(n) ==
  /\ n > 0
  /\ requiredBlockConfirmations' = n
  /\ UNCHANGED <<chain, connected, pc, memoryVars, redis, eventVars, crashes>>

Reconnect ==
  /\ connected' = ~connected
  /\ UNCHANGED <<chainVars, pc, memoryVars, redis, eventVars, crashes>>

(* The channel keeps what it could not send and sends it later.            *)
Deliver(e) ==
  /\ connected
  /\ e \in buffer
  /\ buffer' = buffer \ {e}
  /\ queue' = queue \cup {e}
  /\ UNCHANGED <<chainVars, connected, pc, memoryVars, redis, lost, crashes>>

-----------------------------------------------------------------------------
(* The process *)

Larger(m, n) == IF m >= n THEN m ELSE n

(* Mutant of Start: the checkpoint is not read.                            *)
StartAtStartBlock ==
  /\ pc = "down"
  /\ lastProcessedBlock' = StartBlock
  /\ pc' = "sleeping"
  /\ UNCHANGED <<chainVars, connected, fromBlock, toBlock, redis, eventVars, crashes>>

(* loadLastProcessedBlock                                                  *)
Start ==
  /\ pc = "down"
  /\ lastProcessedBlock' = IF redis = NoCheckpoint THEN StartBlock ELSE Larger(redis, StartBlock)
  /\ pc' = "sleeping"
  /\ UNCHANGED <<chainVars, connected, fromBlock, toBlock, redis, eventVars, crashes>>

(* The timer fires; run() is only called with the broker at hand.          *)
Wake ==
  /\ pc = "sleeping"
  /\ connected
  /\ pc' = "running"
  /\ UNCHANGED <<chainVars, connected, memoryVars, redis, eventVars, crashes>>

(* Mutant of ReadHead: what the node reports is taken as final.            *)
ReadHeadUnconfirmed(head) ==
  /\ pc = "running"
  /\ \/ /\ head <= lastProcessedBlock
        /\ pc' = "sleeping"
        /\ UNCHANGED <<fromBlock, toBlock>>
     \/ /\ head > lastProcessedBlock
        /\ fromBlock' = lastProcessedBlock + 1
        /\ toBlock' = IF head > fromBlock' + BatchSize THEN fromBlock' + BatchSize ELSE head
        /\ pc' = "fetching"
  /\ UNCHANGED <<chainVars, connected, lastProcessedBlock, redis, eventVars, crashes>>

(* Mutant of ReadHead: the newest confirmed block is left for later.       *)
ReadHeadButLast(head) ==
  LET lastBlockToProcess == head - requiredBlockConfirmations
  IN  IF lastBlockToProcess <= lastProcessedBlock + 1
      THEN ReadHeadUnconfirmed(0)
      ELSE ReadHeadUnconfirmed(lastBlockToProcess)

(* The first half of do(), when both answers are there: head is what some  *)
(* node takes for the last block.                                          *)
ReadHead(head) ==
  LET lastBlockToProcess == head - requiredBlockConfirmations
  IN  /\ pc = "running"
      /\ \/ /\ lastBlockToProcess <= lastProcessedBlock
            /\ pc' = "sleeping"
            /\ UNCHANGED <<fromBlock, toBlock>>
         \/ /\ lastBlockToProcess > lastProcessedBlock
            /\ fromBlock' = lastProcessedBlock + 1
            /\ toBlock' = IF lastBlockToProcess > fromBlock' + BatchSize
                          THEN fromBlock' + BatchSize ELSE lastBlockToProcess
            /\ pc' = "fetching"
      /\ UNCHANGED <<chainVars, connected, lastProcessedBlock, redis, eventVars, crashes>>

(* The second half: the batch request is answered by one node, which knows *)
(* the blocks up to head.  The events go to the channel without waiting    *)
(* for it, and memory moves on before Redis is written.                    *)
HandOver(head) ==
  /\ buffer' = buffer \cup EventsIn(fromBlock, IF toBlock <= head THEN toBlock ELSE head)
  /\ lastProcessedBlock' = toBlock
  /\ pc' = "saving"
  /\ UNCHANGED <<chainVars, connected, fromBlock, toBlock, redis, queue, lost, crashes>>

(* Mutant of GetEvents: a node that lags behind is believed.               *)
GetEventsFromAnyNode(head) == pc = "fetching" /\ HandOver(head)

(* A node behind toBlock makes getEvents throw, and run() ends.            *)
GetEvents(head) ==
  /\ pc = "fetching"
  /\ \/ head >= toBlock /\ HandOver(head)
     \/ /\ head < toBlock
        /\ pc' = "sleeping"
        /\ UNCHANGED <<chainVars, connected, memoryVars, redis, eventVars, crashes>>

(* updateLastProcessedBlock: after it do() returns, and run() goes on or,  *)
(* after ten rounds or a hundred events, ends.                             *)
SaveCheckpoint ==
  /\ pc = "saving"
  /\ redis' = lastProcessedBlock
  /\ pc' \in {"running", "sleeping"}
  /\ UNCHANGED <<chainVars, connected, memoryVars, eventVars, crashes>>

(* Any call over the network may fail instead; do() logs it and run() ends.*)
CallFails ==
  /\ pc \in {"running", "fetching", "saving"}
  /\ pc' = "sleeping"
  /\ UNCHANGED <<chainVars, connected, memoryVars, redis, eventVars, crashes>>

(* The process dies, by itself or by its watchdog, and is started again.   *)
Crash ==
  /\ pc # "down"
  /\ crashes < MaxCrashes
  /\ crashes' = crashes + 1
  /\ pc' = "down"
  /\ lost' = lost \cup buffer
  /\ buffer' = {}
  /\ lastProcessedBlock' = 0 /\ fromBlock' = 0 /\ toBlock' = 0
  /\ UNCHANGED <<chainVars, connected, redis, queue>>

Heads == 0..Len(chain)

ProcessNext ==
  \/ Start
  \/ Wake
  \/ \E head \in Heads : ReadHead(head)
  \/ \E head \in Heads : GetEvents(head)
  \/ SaveCheckpoint
  \/ CallFails
  \/ Crash

ChainNext ==
  \/ \E block \in Block : Mine(block)
  \/ \E k \in 1..MaxReorg : Reorganise(k)
  \/ \E n \in Confirmations : SetRequiredBlockConfirmations(n)

BrokerNext == Reconnect \/ \E e \in Event : Deliver(e)

WatcherNext == ProcessNext \/ ChainNext \/ BrokerNext

WatcherSpec == WatcherInit /\ [][WatcherNext]_watcherVars

-----------------------------------------------------------------------------
(* A started process goes on, its calls do not fail for ever, a node that  *)
(* knows the whole chain is asked again and again, and the broker comes    *)
(* back and stores what it is sent: strong fairness where another step can *)
(* take the chance away.  Nothing makes blocks come.                       *)
WatcherFairness ==
  /\ WF_watcherVars(Start)
  /\ WF_watcherVars(~connected /\ Reconnect)
  /\ SF_watcherVars(Wake)
  /\ SF_watcherVars(ReadHead(Len(chain)))
  /\ SF_watcherVars(GetEvents(Len(chain)))
  /\ WF_watcherVars(SaveCheckpoint \/ (pc = "saving" /\ CallFails))
  /\ \A e \in Event : SF_watcherVars(Deliver(e))

FairWatcherSpec == WatcherSpec /\ WatcherFairness

-----------------------------------------------------------------------------
Stored == queue \cup buffer \cup lost

Checkpointed == IF redis = NoCheckpoint THEN 0 ELSE redis

(* No block is passed over: the events of every block the process is done  *)
(* with, in its memory or in Redis, were handed over, across batches,      *)
(* lagging nodes, failed calls, restarts and changes of the number of      *)
(* confirmations.                                                          *)
NothingSkipped ==
  EventsIn(StartBlock + 1, Larger(lastProcessedBlock, Checkpointed)) \subseteq Stored

(* Only events that stay are handed over: as long as blocks behind the     *)
(* required confirmations are not replaced, no validator votes for         *)
(* something that did not happen (what ProcessTransfer of TokenBridge      *)
(* relies on).                                                             *)
OnlyFinalEvents == Stored \subseteq EventsIn(1, Len(chain))

(* The checkpoint never moves back, also not by a restart after a failed   *)
(* write.                                                                  *)
CheckpointNeverRewinds ==
  [][redis' # redis => redis = NoCheckpoint \/ redis' > redis]_watcherVars

(* Every event of a block with enough blocks on top reaches the queue, or  *)
(* was in the buffer of a process that died.                               *)
FinalEventsQueued ==
  \A e \in Event, b \in (StartBlock + 1)..MaxHeight :
    (b <= Len(chain) /\ chain[b] = e /\ \A c \in Confirmations : b + c <= Len(chain))
      ~> e \in queue \cup lost

(* What the README says of HOME_START_BLOCK: it is the block "used to      *)
(* start watching for events", "usually this is the same block where the   *)
(* Home Bridge contract is deployed".                                      *)
StartBlockWatched ==
  \A b \in 1..Larger(lastProcessedBlock, Checkpointed) :
    b >= StartBlock => EventsIn(b, b) \subseteq Stored
=============================================================================

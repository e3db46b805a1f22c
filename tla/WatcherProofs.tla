---------------------------- MODULE WatcherProofs ----------------------------
(***************************************************************************)
(* Proofs about Watcher, for every start block, batch size and number of   *)
(* confirmations: the process passes over no block, hands over no event    *)
(* that may vanish, and never moves its checkpoint back.                   *)
(***************************************************************************)
EXTENDS Watcher, TLAPS

(* A block the process is done with, or is about to read, is deep enough   *)
(* never to be replaced, or it is the start block it was configured with.  *)
Settled(b) == b <= StartBlock \/ b <= Len(chain) - MaxReorg

(* Where the process stands: behind no checkpoint of its own, and reading  *)
(* from the block after the last one it is done with.                      *)
PositionInv ==
  /\ Settled(lastProcessedBlock) /\ Settled(Checkpointed)
  /\ pc # "down" => lastProcessedBlock >= StartBlock /\ lastProcessedBlock >= Checkpointed
  /\ pc = "down" => lastProcessedBlock = 0
  /\ pc = "fetching" =>
       /\ fromBlock = lastProcessedBlock + 1 /\ toBlock >= fromBlock
       /\ toBlock <= Len(chain) - MaxReorg
  /\ pc = "saving" => lastProcessedBlock > Checkpointed

(* What is handed over is in blocks that are never replaced.               *)
FinalInv == Stored \subseteq EventsIn(1, Len(chain) - MaxReorg)

WatcherInv == WatcherTypeOK /\ PositionInv /\ FinalInv /\ NothingSkipped

-----------------------------------------------------------------------------
(* The events of blocks that stay do not change when the chain does.       *)
StableUpTo(b) ==
  /\ chain' \in Seq(Block) /\ Len(chain') >= Len(chain)
  /\ b <= Len(chain)
  /\ \A i \in 1..Len(chain) : i <= b => chain'[i] = chain[i]

(* Blocks that do not change keep their events.                            *)
LEMMA EventsStable ==
  ASSUME WatcherTypeOK, NEW lo \in Int, NEW b \in Int, NEW hi \in Int,
         StableUpTo(b), hi <= b
  PROVE  EventsIn(lo, hi)' = EventsIn(lo, hi)
<1>1. Len(chain) \in Nat /\ Len(chain') \in Nat
  BY DEF WatcherTypeOK, StableUpTo
<1>2. \A n \in Int : n <= hi => (n \in 1..Len(chain') <=> n \in 1..Len(chain))
  BY <1>1 DEF StableUpTo
<1>3. \A n \in 1..Len(chain) : n <= hi => chain'[n] = chain[n]
  BY <1>1 DEF StableUpTo
<1>. QED  BY <1>1, <1>2, <1>3 DEF EventsIn

(* A new block changes none before it.                                     *)
LEMMA MineStable ==
  ASSUME WatcherTypeOK, NEW block \in Block, Mine(block)
  PROVE  StableUpTo(Len(chain))
BY DEF WatcherTypeOK, Mine, StableUpTo

(* A reorganisation changes the last MaxReorg blocks only.                 *)
LEMMA ReorganiseStable ==
  ASSUME WatcherTypeOK, NEW k \in 1..MaxReorg, Reorganise(k)
  PROVE  StableUpTo(Len(chain) - MaxReorg) /\ Len(chain') = Len(chain)
<1>1. PICK blocks \in [1..k -> Block] : chain' = SubSeq(chain, 1, Len(chain) - k) \o blocks
  BY DEF Reorganise
<1>2. blocks \in Seq(Block) /\ Len(blocks) = k
  BY WatcherAssumption
<1>. DEFINE kept == SubSeq(chain, 1, Len(chain) - k)
<1>3. kept \in Seq(Block) /\ Len(kept) = Len(chain) - k
      /\ \A i \in 1..(Len(chain) - k) : kept[i] = chain[i]
  BY WatcherAssumption DEF WatcherTypeOK, Reorganise
<1>4. chain' \in Seq(Block) /\ Len(chain') = Len(chain)
      /\ \A i \in 1..(Len(chain) - k) : chain'[i] = chain[i]
  <2>. HIDE DEF kept
  <2>1. chain' = kept \o blocks
    BY <1>1 DEF kept
  <2>2. k \in Nat /\ k <= Len(chain) /\ Len(chain) \in Nat
    BY WatcherAssumption DEF WatcherTypeOK, Reorganise
  <2>3. kept \o blocks \in Seq(Block) /\ Len(kept \o blocks) = Len(kept) + Len(blocks)
    <3>1. kept \in Seq(Block) /\ blocks \in Seq(Block)
      BY <1>2, <1>3
    <3>. QED  BY <3>1
  <2>4. \A i \in 1..(Len(chain) - k) : (kept \o blocks)[i] = kept[i]
    BY <1>2, <1>3, <2>2
  <2>. QED  BY <1>2, <1>3, <2>1, <2>2, <2>3, <2>4
<1>5. Len(chain) - MaxReorg <= Len(chain) - k /\ Len(chain) \in Nat /\ MaxReorg \in Nat
  BY WatcherAssumption DEF WatcherTypeOK
<1>. QED  BY <1>4, <1>5 DEF StableUpTo

-----------------------------------------------------------------------------
(* Types *)

LEMMA WatcherTypeInit == WatcherInit => WatcherTypeOK
BY WatcherAssumption DEF WatcherInit, WatcherTypeOK, Block

(* Blocks hold events.                                                     *)
LEMMA EventsAreEvents ==
  ASSUME WatcherTypeOK, NEW lo, NEW hi
  PROVE  EventsIn(lo, hi) \subseteq Event
BY DEF WatcherTypeOK, EventsIn, Block

(* Every step keeps the types.                                             *)
LEMMA WatcherTypeStep ==
  ASSUME WatcherTypeOK, [WatcherNext]_watcherVars
  PROVE  WatcherTypeOK'
<1>. USE WatcherAssumption DEF WatcherTypeOK
<1>1. CASE Start
  BY <1>1 DEF Start, Larger, chainVars, eventVars
<1>2. CASE Wake
  BY <1>2 DEF Wake, chainVars, eventVars, memoryVars
<1>3. ASSUME NEW head \in Heads, ReadHead(head) PROVE WatcherTypeOK'
  BY <1>3 DEF ReadHead, Heads, chainVars, eventVars
<1>4. ASSUME NEW head \in Heads, GetEvents(head) PROVE WatcherTypeOK'
  BY <1>4, EventsAreEvents DEF GetEvents, HandOver, Heads, chainVars, eventVars, memoryVars
<1>5. CASE SaveCheckpoint
  BY <1>5 DEF SaveCheckpoint, chainVars, eventVars, memoryVars
<1>6. CASE CallFails
  BY <1>6 DEF CallFails, chainVars, eventVars, memoryVars
<1>7. CASE Crash
  BY <1>7 DEF Crash, chainVars
<1>8. ASSUME NEW block \in Block, Mine(block) PROVE WatcherTypeOK'
  <2>1. chain' \in Seq(Block)
    BY <1>8, MineStable DEF StableUpTo
  <2>. QED  BY <1>8, <2>1 DEF Mine, eventVars, memoryVars
<1>9. ASSUME NEW k \in 1..MaxReorg, Reorganise(k) PROVE WatcherTypeOK'
  <2>1. chain' \in Seq(Block)
    BY <1>9, ReorganiseStable DEF StableUpTo
  <2>. QED  BY <1>9, <2>1 DEF Reorganise, eventVars, memoryVars
<1>10. ASSUME NEW n \in Confirmations, SetRequiredBlockConfirmations(n) PROVE WatcherTypeOK'
  BY <1>10 DEF SetRequiredBlockConfirmations, eventVars, memoryVars
<1>11. CASE Reconnect
  BY <1>11 DEF Reconnect, chainVars, eventVars, memoryVars
<1>12. ASSUME NEW e \in Event, Deliver(e) PROVE WatcherTypeOK'
  BY <1>12 DEF Deliver, chainVars, memoryVars
<1>13. CASE UNCHANGED watcherVars
  BY <1>13 DEF watcherVars, chainVars, eventVars, memoryVars
<1>. QED
  BY <1>1, <1>2, <1>3, <1>4, <1>5, <1>6, <1>7, <1>8, <1>9, <1>10, <1>11, <1>12, <1>13
  DEF WatcherNext, ProcessNext, ChainNext, BrokerNext

-----------------------------------------------------------------------------
(* Steps of the chain: what the process relies on is in blocks that stay   *)

LEMMA EventsMonotone ==
  ASSUME WatcherTypeOK, NEW lo \in Int, NEW hi \in Int, NEW b \in Int, hi <= b
  PROVE  EventsIn(lo, hi) \subseteq EventsIn(lo, b)
BY DEF WatcherTypeOK, EventsIn

(* An empty range has no events.                                           *)
LEMMA NoEventsBetween ==
  ASSUME WatcherTypeOK, NEW lo \in Int, NEW hi \in Int, hi < lo
  PROVE  EventsIn(lo, hi) = {}
BY DEF WatcherTypeOK, EventsIn

ProcessVars == <<pc, memoryVars, redis, eventVars>>

(* The chain grows or is reorganised while the process stands still.       *)
LEMMA ChainStep ==
  ASSUME WatcherInv, WatcherTypeOK', StableUpTo(Len(chain) - MaxReorg), UNCHANGED ProcessVars
  PROVE  PositionInv' /\ FinalInv' /\ NothingSkipped'
<1>1. /\ Len(chain) \in Nat /\ Len(chain') \in Nat /\ Len(chain') >= Len(chain)
      /\ MaxReorg \in Nat /\ StartBlock \in Nat
      /\ lastProcessedBlock \in Nat /\ Checkpointed \in Nat
  BY WatcherAssumption DEF WatcherInv, WatcherTypeOK, StableUpTo, Checkpointed
<1>2. Checkpointed' = Checkpointed /\ Stored' = Stored
  BY DEF ProcessVars, Checkpointed, Stored, eventVars
<1>3. PositionInv'
  BY <1>1, <1>2 DEF WatcherInv, WatcherTypeOK, PositionInv, Settled, ProcessVars, memoryVars
<1>4. PICK deep \in Int : deep = Len(chain) - MaxReorg
  <2>1. Len(chain) - MaxReorg \in Int
    BY <1>1
  <2>. QED  BY <2>1
<1>5. PICK done \in Nat : done = Larger(lastProcessedBlock, Checkpointed)
  BY <1>1 DEF Larger
<1>6. FinalInv'
  <2>1. EventsIn(1, deep)' = EventsIn(1, deep)
    BY <1>1, <1>4, EventsStable DEF WatcherInv
  <2>2. EventsIn(1, deep)' \subseteq EventsIn(1, Len(chain) - MaxReorg)'
    BY <1>1, <1>4 DEF EventsIn
  <2>. QED  BY <1>2, <1>4, <2>1, <2>2 DEF WatcherInv, FinalInv
<1>7. NothingSkipped'
  <2>1. Larger(lastProcessedBlock, Checkpointed)' = done
    BY <1>2, <1>5 DEF Larger, ProcessVars, memoryVars
  <2>2. EventsIn(StartBlock + 1, done) \subseteq Stored
    BY <1>5 DEF WatcherInv, NothingSkipped
  <2>3. EventsIn(StartBlock + 1, done)' \subseteq Stored
    <3>1. CASE done <= StartBlock
      BY <1>1, <3>1 DEF EventsIn
    <3>2. CASE done > StartBlock
      <4>1. done <= deep
        BY <1>1, <1>4, <1>5, <3>2 DEF WatcherInv, PositionInv, Settled, Larger
      <4>2. EventsIn(StartBlock + 1, done)' = EventsIn(StartBlock + 1, done)
        BY <1>1, <1>4, <4>1, EventsStable DEF WatcherInv
      <4>. QED  BY <2>2, <4>2
    <3>. QED  BY <1>1, <3>1, <3>2
  <2>. QED  BY <1>2, <2>1, <2>3 DEF NothingSkipped
<1>. QED  BY <1>3, <1>6, <1>7

-----------------------------------------------------------------------------
(* Steps of the process: the chain stays                                   *)

LEMMA StartStep ==
  ASSUME WatcherInv, Start
  PROVE  PositionInv' /\ FinalInv' /\ NothingSkipped'
<1>. USE WatcherAssumption DEF WatcherInv, WatcherTypeOK, Start
<1>1. chain' = chain /\ Checkpointed' = Checkpointed /\ Stored' = Stored
  BY DEF Checkpointed, Stored, chainVars, eventVars
<1>2. /\ Checkpointed \in Nat /\ lastProcessedBlock' \in Nat /\ pc' = "sleeping"
      /\ \/ lastProcessedBlock' = StartBlock /\ StartBlock >= Checkpointed
         \/ lastProcessedBlock' = Checkpointed /\ Checkpointed >= StartBlock
  BY DEF Larger, Checkpointed
<1>3. PositionInv'
  BY <1>1, <1>2 DEF PositionInv, Settled
<1>4. FinalInv'
  BY <1>1 DEF FinalInv, EventsIn
<1>5. NothingSkipped'
  <2>1. EventsIn(StartBlock + 1, Checkpointed) \subseteq Stored
    BY <1>2 DEF NothingSkipped, PositionInv, Larger
  <2>2. PICK done \in Nat : done = lastProcessedBlock'
    BY <1>2
  <2>3. EventsIn(StartBlock + 1, done) \subseteq Stored
    BY <1>2, <2>1, <2>2, NoEventsBetween
  <2>4. Larger(lastProcessedBlock, Checkpointed)' = done
    BY <1>1, <1>2, <2>2 DEF Larger
  <2>5. EventsIn(StartBlock + 1, done)' = EventsIn(StartBlock + 1, done)
    BY <1>1 DEF EventsIn
  <2>. QED  BY <1>1, <2>3, <2>4, <2>5 DEF NothingSkipped
<1>. QED  BY <1>3, <1>4, <1>5

(* The watcher reads a head, which may be that of a lagging node.          *)
LEMMA ReadHeadStep ==
  ASSUME WatcherInv, NEW head \in Heads, ReadHead(head)
  PROVE  PositionInv' /\ FinalInv' /\ NothingSkipped'
<1>. USE WatcherAssumption DEF WatcherInv, WatcherTypeOK, ReadHead
<1>1. /\ chain' = chain /\ lastProcessedBlock' = lastProcessedBlock
      /\ Checkpointed' = Checkpointed /\ Stored' = Stored
  BY DEF Checkpointed, Stored, chainVars, eventVars
<1>2. /\ head \in Nat /\ head <= Len(chain) /\ Len(chain) \in Nat /\ Checkpointed \in Nat
      /\ requiredBlockConfirmations >= MaxReorg /\ requiredBlockConfirmations \in Nat
  BY DEF Heads, Checkpointed
<1>3. \/ pc' = "sleeping"
      \/ /\ pc' = "fetching" /\ fromBlock' = lastProcessedBlock + 1
         /\ toBlock' >= fromBlock' /\ toBlock' <= Len(chain) - MaxReorg
  BY <1>2
<1>4. PositionInv'
  BY <1>1, <1>2, <1>3 DEF PositionInv, Settled
<1>. QED  BY <1>1, <1>4 DEF FinalInv, NothingSkipped, EventsIn, Larger

(* The watcher sends the events of the range to the queue.                 *)
LEMMA GetEventsStep ==
  ASSUME WatcherInv, NEW head \in Heads, GetEvents(head)
  PROVE  PositionInv' /\ FinalInv' /\ NothingSkipped'
<1>. USE WatcherAssumption DEF WatcherInv, WatcherTypeOK
<1>1. chain' = chain /\ Checkpointed' = Checkpointed /\ Checkpointed \in Nat /\ Len(chain) \in Nat
  <2>1. chain' = chain /\ redis' = redis
    BY DEF GetEvents, HandOver, chainVars
  <2>. QED  BY <2>1 DEF Checkpointed
<1>2. CASE head < toBlock /\ pc' = "sleeping" /\ UNCHANGED <<memoryVars, eventVars>>
  BY <1>1, <1>2 DEF GetEvents, PositionInv, Settled, FinalInv, NothingSkipped, Stored, EventsIn,
     Larger, memoryVars, eventVars
<1>3. CASE head >= toBlock /\ HandOver(head)
  <2>1. /\ lastProcessedBlock' = toBlock /\ pc' = "saving"
        /\ fromBlock = lastProcessedBlock + 1 /\ toBlock >= fromBlock
        /\ toBlock <= Len(chain) - MaxReorg
        /\ lastProcessedBlock >= StartBlock /\ lastProcessedBlock >= Checkpointed
    BY <1>3 DEF GetEvents, HandOver, PositionInv
  <2>2. Stored' = Stored \cup EventsIn(fromBlock, toBlock)
    BY <1>3 DEF HandOver, Heads, Stored
  <2>3. PositionInv'
    BY <1>1, <2>1 DEF PositionInv, Settled
  <2>4. FinalInv'
    <3>1. EventsIn(fromBlock, toBlock) \subseteq EventsIn(1, Len(chain) - MaxReorg)
      BY <1>1, <2>1 DEF EventsIn
    <3>2. EventsIn(1, Len(chain) - MaxReorg)' = EventsIn(1, Len(chain) - MaxReorg)
      BY <1>1 DEF EventsIn
    <3>. QED  BY <2>2, <3>1, <3>2 DEF FinalInv
  <2>5. NothingSkipped'
    <3>1. EventsIn(StartBlock + 1, lastProcessedBlock) \subseteq Stored
      BY <2>1 DEF NothingSkipped, Larger
    <3>2. EventsIn(StartBlock + 1, toBlock) \subseteq Stored'
      <4>1. EventsIn(StartBlock + 1, toBlock)
              \subseteq EventsIn(StartBlock + 1, lastProcessedBlock) \cup EventsIn(fromBlock, toBlock)
        BY <1>1, <2>1 DEF EventsIn
      <4>. QED  BY <2>2, <3>1, <4>1
    <3>3. Larger(lastProcessedBlock, Checkpointed)' = toBlock
      BY <1>1, <2>1 DEF Larger
    <3>4. EventsIn(StartBlock + 1, Larger(lastProcessedBlock, Checkpointed))'
            = EventsIn(StartBlock + 1, toBlock)
      BY <1>1, <3>3 DEF EventsIn
    <3>. QED  BY <3>2, <3>4 DEF NothingSkipped
  <2>. QED  BY <2>3, <2>4, <2>5
<1>. QED  BY <1>2, <1>3 DEF GetEvents

(* The watcher saves how far it came.                                      *)
LEMMA SaveCheckpointStep ==
  ASSUME WatcherInv, SaveCheckpoint
  PROVE  PositionInv' /\ FinalInv' /\ NothingSkipped'
<1>. USE WatcherAssumption DEF WatcherInv, WatcherTypeOK, SaveCheckpoint
<1>1. /\ chain' = chain /\ Stored' = Stored /\ lastProcessedBlock' = lastProcessedBlock
      /\ Checkpointed \in Nat /\ Checkpointed' = lastProcessedBlock
      /\ pc' \in {"running", "sleeping"}
  BY DEF Checkpointed, Stored, chainVars, eventVars, memoryVars
<1>2. lastProcessedBlock >= Checkpointed /\ lastProcessedBlock >= StartBlock
  BY DEF PositionInv
<1>3. PositionInv'
  BY <1>1, <1>2 DEF PositionInv, Settled
<1>4. Larger(lastProcessedBlock, Checkpointed)' = Larger(lastProcessedBlock, Checkpointed)
  BY <1>1, <1>2 DEF Larger
<1>. QED  BY <1>1, <1>3, <1>4 DEF FinalInv, NothingSkipped, EventsIn

(* The watcher dies, and Redis keeps the checkpoint.                       *)
LEMMA CrashStep ==
  ASSUME WatcherInv, Crash
  PROVE  PositionInv' /\ FinalInv' /\ NothingSkipped'
<1>. USE WatcherAssumption DEF WatcherInv, WatcherTypeOK, Crash
<1>1. /\ chain' = chain /\ lastProcessedBlock' = 0 /\ pc' = "down"
      /\ Checkpointed \in Nat /\ Checkpointed' = Checkpointed
  BY DEF Checkpointed, chainVars
<1>2. Stored' = Stored
  BY DEF Stored
<1>3. PositionInv'
  BY <1>1 DEF PositionInv, Settled
<1>4. FinalInv'
  BY <1>1, <1>2 DEF FinalInv, EventsIn
<1>5. NothingSkipped'
  <2>1. Larger(lastProcessedBlock, Checkpointed)' = Checkpointed
    BY <1>1 DEF Larger
  <2>2. Larger(lastProcessedBlock, Checkpointed) = lastProcessedBlock
    BY <1>1 DEF PositionInv, Larger
  <2>3. Checkpointed <= lastProcessedBlock
    BY DEF PositionInv
  <2>4. EventsIn(StartBlock + 1, Checkpointed) \subseteq Stored
    BY <1>1, <2>2, <2>3 DEF NothingSkipped, EventsIn
  <2>. QED  BY <1>1, <1>2, <2>1, <2>4 DEF NothingSkipped, EventsIn
<1>. QED  BY <1>3, <1>4, <1>5

(* Steps that touch neither where the process stands nor what it handed    *)
(* over, at most that it goes to sleep, or wakes.                          *)
LEMMA QuietStep ==
  ASSUME WatcherInv, UNCHANGED <<chain, memoryVars, redis>>, Stored' = Stored,
         \/ UNCHANGED pc
         \/ pc # "down" /\ pc' \in {"running", "sleeping"}
  PROVE  PositionInv' /\ FinalInv' /\ NothingSkipped'
BY DEF WatcherInv, PositionInv, Settled, FinalInv, NothingSkipped, EventsIn, Checkpointed, Larger,
   memoryVars

(* The invariant holds at first.                                           *)
LEMMA WatcherInvInit == WatcherInit => WatcherInv
<1>. SUFFICES ASSUME WatcherInit PROVE WatcherInv
  OBVIOUS
<1>1. WatcherTypeOK
  BY WatcherTypeInit
<1>2. EventsIn(StartBlock + 1, Larger(lastProcessedBlock, Checkpointed)) = {}
  BY DEF WatcherInit, EventsIn
<1>3. PositionInv
  BY WatcherAssumption DEF WatcherInit, PositionInv, Settled, Checkpointed
<1>4. FinalInv
  BY DEF WatcherInit, FinalInv, Stored
<1>. QED  BY <1>1, <1>2, <1>3, <1>4 DEF WatcherInv, NothingSkipped

(* Every step keeps it.                                                    *)
LEMMA WatcherInvStep ==
  ASSUME WatcherInv, [WatcherNext]_watcherVars
  PROVE  WatcherInv'
<1>1. WatcherTypeOK'
  BY WatcherTypeStep DEF WatcherInv
<1>. SUFFICES PositionInv' /\ FinalInv' /\ NothingSkipped'
  BY <1>1 DEF WatcherInv
<1>2. CASE Start
  BY <1>2, StartStep
<1>3. CASE Wake
  BY <1>3, QuietStep DEF Wake, chainVars, eventVars, Stored
<1>4. ASSUME NEW head \in Heads, ReadHead(head) PROVE PositionInv' /\ FinalInv' /\ NothingSkipped'
  BY <1>4, ReadHeadStep
<1>5. ASSUME NEW head \in Heads, GetEvents(head) PROVE PositionInv' /\ FinalInv' /\ NothingSkipped'
  BY <1>5, GetEventsStep
<1>6. CASE SaveCheckpoint
  BY <1>6, SaveCheckpointStep
<1>7. CASE CallFails
  BY <1>7, QuietStep DEF CallFails, chainVars, eventVars, Stored
<1>8. CASE Crash
  BY <1>8, CrashStep
<1>9. ASSUME NEW block \in Block, Mine(block) PROVE PositionInv' /\ FinalInv' /\ NothingSkipped'
  <2>1. StableUpTo(Len(chain) - MaxReorg)
    BY <1>9, MineStable, WatcherAssumption DEF WatcherInv, WatcherTypeOK, StableUpTo
  <2>2. UNCHANGED ProcessVars
    BY <1>9 DEF Mine, ProcessVars
  <2>. QED  BY <1>1, <2>1, <2>2, ChainStep
<1>10. ASSUME NEW k \in 1..MaxReorg, Reorganise(k) PROVE PositionInv' /\ FinalInv' /\ NothingSkipped'
  <2>1. StableUpTo(Len(chain) - MaxReorg)
    BY <1>10, ReorganiseStable DEF WatcherInv
  <2>2. UNCHANGED ProcessVars
    BY <1>10 DEF Reorganise, ProcessVars
  <2>. QED  BY <1>1, <2>1, <2>2, ChainStep
<1>11. ASSUME NEW n \in Confirmations, SetRequiredBlockConfirmations(n)
       PROVE  PositionInv' /\ FinalInv' /\ NothingSkipped'
  BY <1>11, QuietStep DEF SetRequiredBlockConfirmations, eventVars, Stored
<1>12. CASE Reconnect
  BY <1>12, QuietStep DEF Reconnect, chainVars, eventVars, Stored
<1>13. ASSUME NEW e \in Event, Deliver(e) PROVE PositionInv' /\ FinalInv' /\ NothingSkipped'
  <2>1. Stored' = Stored
    BY <1>13 DEF Deliver, Stored
  <2>. QED  BY <1>13, <2>1, QuietStep DEF Deliver, chainVars
<1>14. CASE UNCHANGED watcherVars
  BY <1>14, QuietStep DEF watcherVars, chainVars, eventVars, Stored
<1>. QED
  BY <1>2, <1>3, <1>4, <1>5, <1>6, <1>7, <1>8, <1>9, <1>10, <1>11, <1>12, <1>13, <1>14
  DEF WatcherNext, ProcessNext, ChainNext, BrokerNext

-----------------------------------------------------------------------------
(* The invariant holds in every behaviour: where the process stands is     *)
(* behind nothing it checkpointed and on no block that may be replaced.    *)
THEOREM WatcherInvariant == WatcherSpec => []WatcherInv
<1>1. WatcherInit => WatcherInv
  BY WatcherInvInit
<1>2. WatcherInv /\ [WatcherNext]_watcherVars => WatcherInv'
  BY WatcherInvStep
<1>. QED  BY <1>1, <1>2, PTL DEF WatcherSpec

(* The events of every block the process is done with were handed over,    *)
(* whatever the batches, the lagging nodes, the failed calls, the restarts *)
(* and the changes of the number of confirmations.                         *)
THEOREM WatcherSkipsNothing == WatcherSpec => []NothingSkipped
<1>1. WatcherInv => NothingSkipped
  BY DEF WatcherInv
<1>. QED  BY <1>1, WatcherInvariant, PTL

(* Only events of blocks that stay are handed over, when no block behind   *)
(* the required confirmations is replaced.                                 *)
THEOREM WatcherHandsOverFinalEvents == WatcherSpec => []OnlyFinalEvents
<1>1. WatcherInv => OnlyFinalEvents
  <2>. SUFFICES ASSUME WatcherInv PROVE OnlyFinalEvents
    OBVIOUS
  <2>1. EventsIn(1, Len(chain) - MaxReorg) \subseteq EventsIn(1, Len(chain))
    BY WatcherAssumption DEF WatcherInv, WatcherTypeOK, EventsIn
  <2>. QED  BY <2>1 DEF WatcherInv, FinalInv, OnlyFinalEvents
<1>. QED  BY <1>1, WatcherInvariant, PTL

(* The checkpoint only moves forward, also after a failed write and after  *)
(* a restart, which begins at the checkpoint or at a later start block.    *)
THEOREM WatcherCheckpointAdvances == WatcherSpec => CheckpointNeverRewinds
<1>1. ASSUME WatcherInv, [WatcherNext]_watcherVars
      PROVE  [redis' # redis => redis = NoCheckpoint \/ redis' > redis]_watcherVars
  <2>1. CASE SaveCheckpoint
    BY <2>1, <1>1 DEF SaveCheckpoint, WatcherInv, PositionInv, Checkpointed
  <2>2. CASE redis' = redis
    BY <2>2
  <2>. QED
    BY <1>1, <2>1, <2>2 DEF WatcherNext, ProcessNext, ChainNext, BrokerNext, Start, Wake, ReadHead,
       GetEvents, HandOver, CallFails, Crash, Mine, Reorganise, SetRequiredBlockConfirmations,
       Reconnect, Deliver, watcherVars
<1>. QED  BY <1>1, WatcherInvariant, PTL DEF WatcherSpec, CheckpointNeverRewinds
=============================================================================

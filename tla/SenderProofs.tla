----------------------------- MODULE SenderProofs -----------------------------
(***************************************************************************)
(* Proofs about Sender for any number of events, overlapping callbacks,    *)
(* nonces, prices and faults: the lock in Redis makes reading and writing  *)
(* the cached nonce one, until it expires under its holder.                *)
(***************************************************************************)
EXTENDS Sender, FiniteSetTheorems, TLAPS

(* A callback at work has a task, one that waits to be recorded has its    *)
(* transaction, and one that fills a nonce has that nonce.                 *)
Run ==
  {run \in [pc : {"idle", "processing", "filling", "locking", "sending", "receipting",
                  "updating", "setting", "settling"},
            task : EventTask \cup {NoTask}, held : BOOLEAN, nonce : Nat,
            tx : Tx \cup {NoTx}, result : SendResult] :
     /\ run.pc # "idle" => run.task \in EventTask
     /\ run.held => run.pc # "idle"
     /\ run.pc = "receipting" => run.tx \in Tx
     /\ run.pc = "filling" => run.task.nonce \in Nonce}

ReceiptorRun ==
  {run \in [pc : {"idle", "asking", "rejecting", "hung"}, task : ReceiptTask \cup {NoTask}] :
     run.pc # "idle" => run.task \in ReceiptTask}

NodeTypeOK ==
  /\ mined \in Seq([tx : Tx, status : BOOLEAN])
  /\ pool \in [Nonce -> Tx \cup {NoTx}]

QueuesTypeOK ==
  /\ BagToSet(sendQueue) \subseteq EventTask /\ BagToSet(unsent) \subseteq EventTask
  /\ BagToSet(receiptQueue) \subseteq ReceiptTask /\ BagToSet(unsentReceipts) \subseteq ReceiptTask
  /\ receiptor \in ReceiptorRun

CacheTypeOK == cachedNonce \in Nat \cup {NoNonce} /\ handler \in [Handler -> Run]

(* Between choosing a nonce and having saved it a callback has the lock,   *)
(* unless it only fills a nonce.                                           *)
Holding(run) ==
  \/ run.pc \in {"sending", "updating", "setting"}
  \/ run.pc = "receipting" /\ run.result # "sendDummyTxToFillNonce"

(* What the lock is for: the comparison a callback made still holds when   *)
(* it writes.                                                              *)
LockProtects ==
  "expire" \in faults \/
    \A h \in Handler :
      /\ Holding(handler[h]) => lock = h
      /\ handler[h].pc = "setting" => cachedNonce = NoNonce \/ cachedNonce < handler[h].nonce

SenderInv == NodeTypeOK /\ QueuesTypeOK /\ CacheTypeOK /\ LockProtects

-----------------------------------------------------------------------------
(* Bags, prices, nonces *)

(* Adding to a bag adds its elements, taking one out adds none.            *)
LEMMA BagSums ==
  ASSUME NEW B, NEW C
  PROVE  BagToSet(B (+) C) = BagToSet(B) \cup BagToSet(C)
BY DEF BagToSet, (+)

(* The bag of a set holds its members.                                     *)
LEMMA BagOfSet ==
  ASSUME NEW S
  PROVE  BagToSet(SetToBag(S)) = S
BY DEF BagToSet, SetToBag

(* Putting one in adds it.                                                 *)
LEMMA WithMembers ==
  ASSUME NEW B, NEW x
  PROVE  BagToSet(With(B, x)) = BagToSet(B) \cup {x}
BY DEF BagToSet, SetToBag, (+), With

(* Taking one out adds nothing.                                            *)
LEMMA WithoutMembers ==
  ASSUME NEW B, NEW x
  PROVE  BagToSet(Without(B, x)) \subseteq BagToSet(B)
BY DEF BagToSet, SetToBag, (-), Without

(* Nothing is in the empty bag.                                            *)
LEMMA EmptyBagMembers == BagToSet(EmptyBag) = {}
BY DEF BagToSet, SetToBag, EmptyBag

(* The lowest price is one.                                                *)
LEMMA BasePriceIsAPrice == BasePrice \in Price
BY SenderAssumption DEF BasePrice

(* The node keeps transactions only.                                       *)
LEMMA NodeTakesTransactions ==
  ASSUME NodeTypeOK, NEW tx \in Tx, TakeIn(tx) \/ UNCHANGED pool
  PROVE  pool' \in [Nonce -> Tx \cup {NoTx}]
BY DEF NodeTypeOK, TakeIn, Tx

(* The nonce the node expects next is a number.                            *)
LEMMA CountIsANumber == ASSUME NodeTypeOK PROVE Count \in Nat
BY DEF NodeTypeOK, Count

-----------------------------------------------------------------------------
(* What a callback that took a step may leave behind                       *)

(* Only the callback h moved.                                              *)
OnlyRun(h) ==
  handler' \in [Handler -> Run] /\ \A g \in Handler \ {h} : handler'[g] = handler[g]

(* The lock protects as before when a callback gives it back, takes it     *)
(* while it is free, or goes on with it, and saves only a larger nonce.    *)
LEMMA LockKept ==
  ASSUME LockProtects, NEW h \in Handler, OnlyRun(h), faults \subseteq faults',
         \/ lock' = lock /\ (Holding(handler'[h]) => Holding(handler[h]))
         \/ lock = Nobody /\ lock' = h
         \/ lock' = (IF lock = h THEN Nobody ELSE lock) /\ ~Holding(handler'[h]),
         cachedNonce' = cachedNonce \/ Holding(handler[h]),
         handler'[h].pc = "setting" => cachedNonce' = NoNonce \/ cachedNonce' < handler'[h].nonce
  PROVE  LockProtects'
<1>1. CASE "expire" \in faults
  BY <1>1 DEF LockProtects
<1>2. CASE "expire" \notin faults
  <2>0. \A g \in Handler : /\ Holding(handler[g]) => lock = g
                           /\ handler[g].pc = "setting" =>
                                cachedNonce = NoNonce \/ cachedNonce < handler[g].nonce
    BY <1>2 DEF LockProtects
  <2>1. ASSUME NEW g \in Handler
        PROVE  /\ Holding(handler'[g]) => lock' = g
               /\ handler'[g].pc = "setting" => cachedNonce' = NoNonce \/ cachedNonce' < handler'[g].nonce
    <3>1. CASE g = h
      BY <2>0, <3>1
    <3>2. CASE g # h
      <4>1. handler'[g] = handler[g]
        BY <3>2 DEF OnlyRun
      <4>2. Holding(handler[g]) => lock' = g
        <5>1. Holding(handler[g]) => lock = g /\ lock # Nobody /\ lock # h
          BY <2>0, <3>2, SenderAssumption
        <5> QED
          BY <5>1
      <4>3. handler[g].pc = "setting" => Holding(handler[g]) /\ ~Holding(handler[h])
        BY <2>0, <3>2 DEF Holding
      <4> QED
        BY <2>0, <4>1, <4>2, <4>3
    <3> QED
      BY <3>1, <3>2
  <2> QED
    BY <2>1 DEF LockProtects
<1> QED
  BY <1>1, <1>2

(* Where no callback moved, it protects as before, too.                    *)
LEMMA LockUntouched ==
  ASSUME LockProtects, UNCHANGED <<handler, redisVars>>, faults \subseteq faults'
  PROVE  LockProtects'
BY DEF LockProtects, redisVars, Holding

(* Of callbacks that all ended the lock protects nothing.                  *)
LEMMA NoRunNoLock ==
  ASSUME \A h \in Handler : handler'[h] = Idle
  PROVE  LockProtects'
BY DEF LockProtects, Holding, Idle

(* A callback that ended is well typed.                                    *)
LEMMA IdleIsARun == Idle \in Run
BY DEF Idle, Run, SendResult

(* A callback goes on to another place.                                    *)
LEMMA GoesOn ==
  ASSUME CacheTypeOK, NEW h \in Handler, handler[h].pc # "idle",
         NEW pc \in {"filling", "locking", "setting", "settling"},
         handler' = [handler EXCEPT ![h].pc = pc],
         pc = "filling" => handler[h].task.nonce \in Nonce
  PROVE  /\ OnlyRun(h)
         /\ handler'[h].pc = pc /\ handler'[h].nonce = handler[h].nonce
BY DEF CacheTypeOK, OnlyRun, Run

(* A callback has an answer of the node.                                   *)
LEMMA Answers ==
  ASSUME CacheTypeOK, NEW h \in Handler, handler[h].pc # "idle",
         NEW pc \in {"receipting", "updating", "settling"}, NEW tx \in Tx \cup {NoTx},
         NEW nonce \in Nat, NEW result \in SendResult,
         pc = "receipting" => tx \in Tx,
         Answered(h, pc, tx, nonce, result)
  PROVE  /\ OnlyRun(h)
         /\ handler'[h].pc = pc /\ handler'[h].nonce = nonce /\ handler'[h].result = result
<1> DEFINE run == [handler[h] EXCEPT !.pc = pc, !.tx = tx, !.nonce = nonce, !.result = result]
<1>1. handler[h] \in Run
  BY DEF CacheTypeOK
<1>2. run \in Run /\ run.pc = pc /\ run.nonce = nonce /\ run.result = result
  BY <1>1 DEF Run
<1>3. handler' = [handler EXCEPT ![h] = run]
  BY DEF Answered, CacheTypeOK
<1> HIDE DEF run
<1> QED
  BY <1>2, <1>3 DEF CacheTypeOK, OnlyRun

(* A callback ends.                                                        *)
LEMMA Ends ==
  ASSUME CacheTypeOK, NEW h \in Handler, handler' = [handler EXCEPT ![h] = Idle]
  PROVE  /\ OnlyRun(h)
         /\ handler'[h].pc = "idle" /\ ~Holding(handler'[h])
<1>1. OnlyRun(h) /\ handler'[h] = Idle
  BY IdleIsARun DEF CacheTypeOK, OnlyRun
<1> QED
  BY <1>1 DEF Idle, Holding

(* Where the queues are as they were, or got a task of the callback.       *)
LEMMA QueuesKept ==
  ASSUME QueuesTypeOK, UNCHANGED <<sendQueue, receiptVars>>,
         UNCHANGED unsent \/ \E task \in EventTask : unsent' = With(unsent, task)
  PROVE  QueuesTypeOK'
BY WithMembers, WithoutMembers, EmptyBagMembers DEF QueuesTypeOK, receiptVars

(* A step that leaves the node alone keeps its types.                      *)
LEMMA NodeKept ==
  ASSUME NodeTypeOK, UNCHANGED chainVars
  PROVE  NodeTypeOK'
BY DEF NodeTypeOK, chainVars

(* The task of a callback at work is one.                                  *)
LEMMA TaskAtWork ==
  ASSUME CacheTypeOK, NEW h \in Handler, handler[h].pc # "idle"
  PROVE  /\ handler[h].task \in EventTask /\ handler[h].nonce \in Nat
         /\ handler[h].task.event \in Event
BY DEF CacheTypeOK, Run, EventTask

-----------------------------------------------------------------------------
(* The node, the queues and the receiptor leave callbacks and lock alone.  *)

LEMMA NodeStep ==
  ASSUME SenderInv, NodeNext
  PROVE  SenderInv'
<1> USE DEF SenderInv
<1>1. UNCHANGED <<senderVars, receiptVars>> /\ faults \subseteq faults' /\ NodeTypeOK'
  <2>1. CASE Mine
    <3>1. Count \in Nonce /\ pool[Count] \in Tx
      BY <2>1 DEF Mine, NodeTypeOK
    <3>2. PICK tx \in Tx : tx = pool[Count]
      BY <3>1
    <3>3. [tx |-> tx, status |-> tx.payload \notin executed] \in [tx : Tx, status : BOOLEAN]
      OBVIOUS
    <3>4. mined' = Append(mined, [tx |-> tx, status |-> tx.payload \notin executed])
      BY <2>1, <3>2 DEF Mine
    <3>5. mined' \in Seq([tx : Tx, status : BOOLEAN])
      BY <3>3, <3>4 DEF NodeTypeOK
    <3> QED
      BY <2>1, <3>5 DEF Mine, NodeTypeOK, historyVars
  <2>2. ASSUME NEW n \in Nonce, DropTx(n)
        PROVE  UNCHANGED <<senderVars, receiptVars>> /\ faults \subseteq faults' /\ NodeTypeOK'
    BY <2>2 DEF DropTx, Happens, NodeTypeOK
  <2>3. ASSUME NEW e \in Event, ExecutedByOthers(e)
        PROVE  UNCHANGED <<senderVars, receiptVars, faults>> /\ NodeTypeOK'
    BY <2>3 DEF ExecutedByOthers, NodeTypeOK, historyVars
  <2> QED
    BY <2>1, <2>2, <2>3 DEF NodeNext
<1>2. QueuesTypeOK' /\ CacheTypeOK'
  BY <1>1, QueuesKept DEF senderVars, CacheTypeOK, redisVars
<1>3. LockProtects'
  BY <1>1, LockUntouched DEF senderVars
<1> QED
  BY <1>1, <1>2, <1>3

(* The receiptor leaves callbacks, cache and lock alone.                   *)
LEMMA ReceiptorStep ==
  ASSUME SenderInv, ReceiptorNext
  PROVE  SenderInv'
<1> USE DEF SenderInv
<1>1. receiptor \in ReceiptorRun
  BY DEF QueuesTypeOK
<1>2. UNCHANGED <<chainVars, redisVars, handler>> /\ faults \subseteq faults'
  BY DEF ReceiptorNext, ConfirmReceipt, WaitForReceipt, ResendEvent, RejectMsg, GetReceiptThrows,
     CrashReceiptor, senderVars, historyVars, Happens
<1>3. QueuesTypeOK'
  <2>1. CASE ConfirmReceipt \/ RejectMsg
    BY <2>1 DEF ConfirmReceipt, RejectMsg, IdleReceiptor, ReceiptorRun, QueuesTypeOK, senderVars
  <2>2. CASE WaitForReceipt
    <3>1. receiptor.task \in ReceiptTask
      BY <1>1, <2>2 DEF WaitForReceipt, ReceiptorRun
    <3> QED
      BY <2>2, <3>1, WithMembers, WithoutMembers, EmptyBagMembers DEF WaitForReceipt, IdleReceiptor, ReceiptorRun, QueuesTypeOK, senderVars
  <2>3. CASE ResendEvent
    <3>1. receiptor.task \in ReceiptTask
      BY <1>1, <2>3 DEF ResendEvent, ReceiptorRun
    <3> DEFINE tx == receiptor.task.tx
               task == [event |-> receiptor.task.event, retry |-> TRUE,
                        nonce |-> IF IsMined(tx) THEN NoNonce ELSE tx.nonce]
    <3>2. task \in EventTask /\ sendQueue' = With(sendQueue, task)
      BY <2>3, <3>1 DEF ResendEvent, ReceiptTask, Tx, EventTask
    <3>3. receiptor' \in ReceiptorRun
      BY <1>1, <2>3 DEF ResendEvent, ReceiptorRun
    <3> QED
      BY <2>3, <3>2, <3>3, WithMembers DEF ResendEvent, QueuesTypeOK
  <2>4. CASE GetReceiptThrows
    BY <1>1, <2>4 DEF GetReceiptThrows, ReceiptorRun, QueuesTypeOK, senderVars
  <2>5. CASE CrashReceiptor
    <3>1. receiptor' \in ReceiptorRun /\ UNCHANGED <<sendQueue, unsent>>
      BY <2>5 DEF CrashReceiptor, IdleReceiptor, ReceiptorRun, senderVars
    <3>2. BagToSet(receiptQueue') \subseteq ReceiptTask
      BY <1>1, <2>5, WithMembers, WithoutMembers, EmptyBagMembers DEF CrashReceiptor, ReceiptorRun, QueuesTypeOK
    <3>3. BagToSet(unsentReceipts') \subseteq ReceiptTask
      BY <2>5, WithMembers, WithoutMembers, EmptyBagMembers DEF CrashReceiptor
    <3> QED
      BY <3>1, <3>2, <3>3 DEF QueuesTypeOK
  <2> QED
    BY <2>1, <2>2, <2>3, <2>4, <2>5 DEF ReceiptorNext
<1>4. NodeTypeOK' /\ CacheTypeOK'
  BY <1>2, NodeKept DEF CacheTypeOK, redisVars
<1> QED
  BY <1>2, <1>3, <1>4, LockUntouched

(* A message arrives, or is delivered again.                               *)
LEMMA QueueStep ==
  ASSUME SenderInv, QueueNext
  PROVE  SenderInv'
<1> USE DEF SenderInv
<1>1. ASSUME NEW h \in Handler, NEW task \in BagToSet(sendQueue), Receive(h, task)
      PROVE  SenderInv'
  <2>1. task \in EventTask
    BY <1>1 DEF QueuesTypeOK
  <2>2. Held(task) \in Run /\ ~Holding(Held(task)) /\ Held(task).pc = "processing"
    BY <2>1 DEF Held, Idle, Run, SendResult, Holding
  <2>3. OnlyRun(h) /\ handler'[h] = Held(task)
    BY <1>1, <2>2 DEF Receive, OnlyRun, CacheTypeOK
  <2>4. LockProtects'
    BY <1>1, <2>2, <2>3, LockKept DEF Receive, redisVars, historyVars
  <2>5. QueuesTypeOK'
    BY <1>1, WithMembers, WithoutMembers, EmptyBagMembers DEF Receive, QueuesTypeOK, receiptVars
  <2> QED
    BY <1>1, <2>3, <2>4, <2>5, NodeKept DEF Receive, CacheTypeOK, OnlyRun, redisVars
<1>2. ASSUME NEW task \in BagToSet(unsent), Deliver(task)
      PROVE  SenderInv'
  <2>1. QueuesTypeOK'
    BY <1>2, WithMembers, WithoutMembers, EmptyBagMembers DEF Deliver, QueuesTypeOK, receiptVars
  <2> QED
    BY <1>2, <2>1, NodeKept, LockUntouched DEF Deliver, CacheTypeOK, redisVars, historyVars
<1>3. ASSUME NEW task \in BagToSet(receiptQueue), ReceiveReceipt(task)
      PROVE  SenderInv'
  <2>1. [pc |-> "asking", task |-> task] \in ReceiptorRun
    BY <1>3 DEF QueuesTypeOK, ReceiptorRun
  <2>2. QueuesTypeOK'
    BY <1>3, <2>1, WithMembers, WithoutMembers, EmptyBagMembers DEF ReceiveReceipt, QueuesTypeOK, senderVars
  <2> QED
    BY <1>3, <2>2, NodeKept, LockUntouched DEF ReceiveReceipt, CacheTypeOK, senderVars, redisVars, historyVars
<1>4. ASSUME NEW task \in BagToSet(unsentReceipts), DeliverReceipt(task)
      PROVE  SenderInv'
  <2>1. QueuesTypeOK'
    BY <1>4, WithMembers, WithoutMembers, EmptyBagMembers DEF DeliverReceipt, QueuesTypeOK, senderVars
  <2> QED
    BY <1>4, <2>1, NodeKept, LockUntouched DEF DeliverReceipt, CacheTypeOK, senderVars, redisVars, historyVars
<1> QED
  BY <1>1, <1>2, <1>3, <1>4 DEF QueueNext

-----------------------------------------------------------------------------
(* The callbacks of the sender                                             *)

(* What has to be shown of a step of the callback h.                       *)
LEMMA StepOfOne ==
  ASSUME SenderInv, NEW h \in Handler, OnlyRun(h), faults \subseteq faults',
         NodeTypeOK', QueuesTypeOK',
         \/ lock' = lock /\ (Holding(handler'[h]) => Holding(handler[h]))
         \/ lock = Nobody /\ lock' = h
         \/ lock' = (IF lock = h THEN Nobody ELSE lock) /\ ~Holding(handler'[h]),
         \/ cachedNonce' = cachedNonce
         \/ Holding(handler[h]) /\ cachedNonce' = handler[h].nonce,
         handler'[h].pc = "setting" => cachedNonce' = NoNonce \/ cachedNonce' < handler'[h].nonce
  PROVE  SenderInv'
<1>1. CacheTypeOK'
  BY DEF SenderInv, CacheTypeOK, OnlyRun, Run
<1>2. LockProtects'
  BY LockKept DEF SenderInv
<1> QED
  BY <1>1, <1>2 DEF SenderInv

(* Where the callback only goes on, or ends.                               *)
LEMMA ReadingStep ==
  ASSUME SenderInv, NEW h \in Handler,
         SkipEvent(h) \/ ProcessEventTask(h) \/ ReadOldNonce(h)
  PROVE  SenderInv'
<1>1. CacheTypeOK /\ QueuesTypeOK /\ NodeTypeOK
  BY DEF SenderInv
<1>2. handler[h].pc # "idle"
  BY DEF SkipEvent, ProcessEventTask, ReadOldNonce
<1>3. NodeTypeOK' /\ QueuesTypeOK' /\ UNCHANGED <<lock, cachedNonce, faults>>
  BY <1>1, NodeKept, QueuesKept
  DEF SkipEvent, ProcessEventTask, ReadOldNonce, AckMsg, redisVars, receiptVars, historyVars
<1>4. CASE SkipEvent(h)
  <2>1. CASE IsRetryOf(handler[h].task, Count)
    <3>1. handler[h].task.nonce \in Nonce
      BY <1>1, <1>2, <2>1, TaskAtWork DEF IsRetryOf, EventTask
    <3>2. handler' = [handler EXCEPT ![h].pc = "filling"]
      BY <1>4, <2>1 DEF SkipEvent
    <3>3. OnlyRun(h) /\ handler'[h].pc = "filling"
      BY <1>1, <1>2, <3>1, <3>2, GoesOn
    <3> QED
      BY <1>3, <3>3, StepOfOne DEF Holding
  <2>2. CASE ~IsRetryOf(handler[h].task, Count)
    <3>1. handler' = [handler EXCEPT ![h] = Idle]
      BY <1>4, <2>2 DEF SkipEvent, AckMsg
    <3> QED
      BY <1>1, <1>3, <3>1, Ends, StepOfOne
  <2> QED
    BY <2>1, <2>2
<1>5. CASE ProcessEventTask(h)
  <2>1. OnlyRun(h) /\ handler'[h].pc = "locking"
    BY <1>1, <1>2, <1>5, GoesOn DEF ProcessEventTask
  <2> QED
    BY <1>3, <2>1, StepOfOne DEF Holding
<1>6. CASE ReadOldNonce(h)
  <2>1. PICK pc \in {"setting", "settling"} :
          /\ handler' = [handler EXCEPT ![h].pc = pc]
          /\ pc = "setting" => cachedNonce = NoNonce \/ cachedNonce < handler[h].nonce
    BY <1>6 DEF ReadOldNonce
  <2>2. OnlyRun(h) /\ handler'[h].pc = pc /\ handler'[h].nonce = handler[h].nonce
    BY <1>1, <1>2, <2>1, GoesOn
  <2>3. Holding(handler[h])
    BY <1>6 DEF ReadOldNonce, Holding
  <2> QED
    BY <1>3, <2>1, <2>2, <2>3, StepOfOne
<1> QED
  BY <1>4, <1>5, <1>6

(* A callback takes the lock, and holds it with its nonce.                 *)
LEMMA LockingStep ==
  ASSUME SenderInv, NEW h \in Handler, LockAndChooseNonce(h)
  PROVE  SenderInv'
<1>1. CacheTypeOK /\ QueuesTypeOK /\ NodeTypeOK /\ handler[h].pc # "idle"
  BY DEF SenderInv, LockAndChooseNonce
<1>2. NodeTypeOK' /\ QueuesTypeOK' /\ UNCHANGED cachedNonce /\ faults \subseteq faults'
  BY <1>1, NodeKept, QueuesKept DEF LockAndChooseNonce, Happens
<1>3. lock = Nobody /\ lock' = h
  BY DEF LockAndChooseNonce
<1>4. PICK n \in Nat : handler' = [handler EXCEPT ![h].pc = "sending", ![h].nonce = n]
  <2>1. Count \in Nat /\ ReadNonce \in Nat
    BY <1>1, CountIsANumber DEF ReadNonce, CacheTypeOK
  <2>2. IsRetryOf(handler[h].task, Count) => handler[h].task.nonce \in Nat
    BY <1>1, TaskAtWork DEF IsRetryOf, EventTask, Nonce
  <2>3. CASE IsRetryOf(handler[h].task, Count)
    BY <2>2, <2>3 DEF LockAndChooseNonce
  <2>4. CASE ~IsRetryOf(handler[h].task, Count)
    BY <2>1, <2>4 DEF LockAndChooseNonce
  <2> QED
    BY <2>3, <2>4
<1>5. OnlyRun(h) /\ handler'[h].pc = "sending"
  BY <1>1, <1>4 DEF CacheTypeOK, OnlyRun, Run
<1> QED
  BY <1>2, <1>3, <1>5, StepOfOne

(* What the node answers to the transaction that fills a nonce.            *)
LEMMA FillingStep ==
  ASSUME SenderInv, NEW h \in Handler, SendToSelf(h)
  PROVE  SenderInv'
<1> DEFINE tx == [payload |-> SelfTransfer, nonce |-> handler[h].task.nonce, price |-> BasePrice]
<1>1. CacheTypeOK /\ QueuesTypeOK /\ NodeTypeOK /\ handler[h].pc = "filling"
  BY DEF SenderInv, SendToSelf
<1>2. handler[h] \in Run /\ handler[h].task \in EventTask
  BY <1>1, TaskAtWork DEF CacheTypeOK
<1>3. tx \in Tx
  BY <1>1, <1>2, BasePriceIsAPrice DEF Tx, Run
<1>4. UNCHANGED <<mined, lock, cachedNonce, sendQueue, receiptVars>> /\ faults \subseteq faults'
  BY DEF SendToSelf, TimesOut, Happens, redisVars
<1>5. TakeIn(tx) \/ UNCHANGED pool
  BY DEF SendToSelf, TimesOut
<1>6. NodeTypeOK'
  <2>1. pool' \in [Nonce -> Tx \cup {NoTx}]
    BY <1>1, <1>3, <1>5, NodeTakesTransactions
  <2> QED
    BY <1>1, <1>4, <2>1 DEF NodeTypeOK
<1>7. \/ handler' = [handler EXCEPT ![h].pc = "receipting", ![h].tx = tx,
                                    ![h].result = "sendDummyTxToFillNonce"]
         /\ UNCHANGED unsent
      \/ handler' = [handler EXCEPT ![h] = Idle]
         /\ (UNCHANGED unsent \/ unsent' = With(unsent, handler[h].task))
  BY DEF SendToSelf, AckMsg, Requeue
<1>8. QueuesTypeOK'
  BY <1>1, <1>2, <1>4, <1>7, QueuesKept
<1>9. CASE handler' = [handler EXCEPT ![h].pc = "receipting", ![h].tx = tx,
                                      ![h].result = "sendDummyTxToFillNonce"]
  <2> DEFINE run == [handler[h] EXCEPT !.pc = "receipting", !.tx = tx,
                                       !.result = "sendDummyTxToFillNonce"]
  <2>1. run \in Run /\ ~Holding(run) /\ run.pc = "receipting"
    <3> HIDE DEF tx
    <3> QED
      BY <1>1, <1>2, <1>3 DEF Run, Holding, SendResult
  <2>2. handler' = [handler EXCEPT ![h] = run]
    BY <1>1, <1>9 DEF CacheTypeOK
  <2>3. OnlyRun(h) /\ handler'[h] = run
    <3> HIDE DEF run
    <3> QED
      BY <1>1, <2>1, <2>2 DEF CacheTypeOK, OnlyRun
  <2> HIDE DEF run
  <2> QED
    BY <1>4, <1>6, <1>8, <2>1, <2>3, StepOfOne
<1>10. CASE handler' = [handler EXCEPT ![h] = Idle]
  BY <1>1, <1>4, <1>6, <1>8, <1>10, Ends, StepOfOne
<1> QED
  BY <1>7, <1>9, <1>10

(* The node answers a transaction; only then may the cache be forgotten.   *)
LEMMA SendingStep ==
  ASSUME SenderInv, NEW h \in Handler, NEW price \in Price, SendTransaction(h, price)
  PROVE  SenderInv'
<1> DEFINE n == handler[h].nonce
           tx == [payload |-> handler[h].task.event, nonce |-> n, price |-> price]
<1>1. CacheTypeOK /\ QueuesTypeOK /\ NodeTypeOK /\ handler[h].pc = "sending" /\ n \in Nonce
  BY DEF SenderInv, SendTransaction
<1>2. tx \in Tx /\ n \in Nat /\ Count \in Nat
  BY <1>1, TaskAtWork, CountIsANumber DEF Tx
<1>3. UNCHANGED <<mined, lock, cachedNonce, sendQueue, unsent, receiptVars>>
      /\ faults \subseteq faults' /\ (TakeIn(tx) \/ UNCHANGED pool)
  BY DEF SendTransaction, TimesOut, Happens, redisVars
<1>4. NodeTypeOK'
  <2>1. pool' \in [Nonce -> Tx \cup {NoTx}]
    BY <1>1, <1>2, <1>3, NodeTakesTransactions
  <2> QED
    BY <1>1, <1>3, <2>1 DEF NodeTypeOK
<1>5. QueuesTypeOK'
  BY <1>1, <1>3, QueuesKept
<1>6. PICK pc \in {"receipting", "updating"}, answered \in Tx \cup {NoTx}, m \in Nat,
           result \in SendResult :
        (pc = "receipting" => answered \in Tx) /\ Answered(h, pc, answered, m, result)
  <2> HIDE DEF tx
  <2>1. \/ Answered(h, "receipting", tx, n, "success")
        \/ Answered(h, "receipting", tx, n, "txImported")
        \/ Answered(h, "updating", NoTx, Count, "nonceTooLow")
        \/ \E result \in {"failed", "timeout", "insufficientFunds", "blockGasLimitExceeded"} :
             Answered(h, "updating", NoTx, n, result)
    BY DEF SendTransaction, tx
  <2>2. {"success", "txImported", "nonceTooLow", "failed", "timeout", "insufficientFunds",
         "blockGasLimitExceeded"} \subseteq SendResult
    BY DEF SendResult
  <2> QED
    BY <1>2, <2>1, <2>2
<1>7. OnlyRun(h) /\ handler'[h].pc = pc
  BY <1>1, <1>6, Answers
<1>8. Holding(handler[h]) /\ handler'[h].pc # "setting"
  BY <1>1, <1>7 DEF Holding
<1> QED
  BY <1>3, <1>4, <1>5, <1>7, <1>8, StepOfOne

(* The task for the receiptor is published or lost.                        *)
LEMMA ReceiptingStep ==
  ASSUME SenderInv, NEW h \in Handler, EnqueueReceipt(h)
  PROVE  SenderInv'
<1> DEFINE run == handler[h]
           task == [event |-> run.task.event, tx |-> run.tx]
<1>1. CacheTypeOK /\ QueuesTypeOK /\ NodeTypeOK /\ run.pc = "receipting"
  BY DEF SenderInv, EnqueueReceipt
<1>2. task \in ReceiptTask /\ run.nonce \in Nat /\ run.result \in SendResult
  BY <1>1, TaskAtWork DEF ReceiptTask, CacheTypeOK, Run
<1>3. /\ UNCHANGED <<chainVars, lock, cachedNonce, sendQueue, unsent, unsentReceipts, receiptor, faults>>
      /\ receiptQueue' = With(receiptQueue, task)
  BY DEF EnqueueReceipt, redisVars, historyVars
<1>4. NodeTypeOK' /\ QueuesTypeOK'
  <2> HIDE DEF task
  <2>1. QueuesTypeOK'
    BY <1>1, <1>2, <1>3, WithMembers DEF QueuesTypeOK
  <2> QED
    BY <1>1, <1>3, <2>1, NodeKept
<1>5. PICK pc \in {"updating", "settling"}, m \in Nat :
        /\ Answered(h, pc, NoTx, m, run.result)
        /\ pc = "updating" => run.result # "sendDummyTxToFillNonce"
  <2>1. run.nonce + 1 \in Nat
    BY <1>2
  <2>2. CASE run.result = "success"
    BY <2>1, <2>2 DEF EnqueueReceipt
  <2>3. CASE run.result = "txImported"
    BY <1>2, <2>3 DEF EnqueueReceipt
  <2>4. CASE run.result \notin {"success", "txImported"}
    BY <1>2, <2>4 DEF EnqueueReceipt
  <2> QED
    BY <2>2, <2>3, <2>4
<1>6. OnlyRun(h) /\ handler'[h].pc = pc
  BY <1>1, <1>2, <1>5, Answers
<1>7. Holding(handler'[h]) => Holding(handler[h])
  BY <1>1, <1>5, <1>6 DEF Holding
<1> QED
  BY <1>3, <1>4, <1>5, <1>6, <1>7, StepOfOne

(* The nonce is saved under the lock that protects it.                     *)
LEMMA SavingStep ==
  ASSUME SenderInv, NEW h \in Handler, SetNonce(h) \/ SetNonceFails(h)
  PROVE  SenderInv'
<1>1. CacheTypeOK /\ QueuesTypeOK /\ NodeTypeOK /\ handler[h].pc = "setting"
  BY DEF SenderInv, SetNonce, SetNonceFails
<1>2. NodeTypeOK' /\ QueuesTypeOK' /\ faults \subseteq faults' /\ UNCHANGED lock
  BY <1>1, NodeKept, QueuesKept DEF SetNonce, SetNonceFails, Happens, redisVars, historyVars
<1>3. OnlyRun(h) /\ handler'[h].pc = "settling"
  BY <1>1, GoesOn DEF SetNonce, SetNonceFails
<1>4. cachedNonce' = cachedNonce \/ cachedNonce' = handler[h].nonce
  BY DEF SetNonce, SetNonceFails, redisVars
<1>5. Holding(handler[h]) /\ ~Holding(handler'[h])
  BY <1>1, <1>3 DEF Holding
<1> QED
  BY <1>2, <1>3, <1>4, <1>5, StepOfOne

(* The callback gives the lock back and its task is put back or not.       *)
LEMMA GivingBackStep ==
  ASSUME SenderInv, NEW h \in Handler, handler[h].pc # "idle",
         Unlock(h), handler' = [handler EXCEPT ![h] = Idle],
         UNCHANGED <<chainVars, cachedNonce, sendQueue, receiptVars>>, faults \subseteq faults',
         UNCHANGED unsent \/ \E task \in EventTask : unsent' = With(unsent, task)
  PROVE  SenderInv'
<1>1. CacheTypeOK /\ QueuesTypeOK /\ NodeTypeOK
  BY DEF SenderInv
<1>2. NodeTypeOK' /\ QueuesTypeOK'
  BY <1>1, NodeKept, QueuesKept
<1> QED
  BY <1>1, <1>2, Ends, StepOfOne DEF Unlock

(* The message is acknowledged or its task put back.                       *)
LEMMA SettlingStep ==
  ASSUME SenderInv, NEW h \in Handler, Settle(h)
  PROVE  SenderInv'
<1> DEFINE task == handler[h].task
<1>1. CacheTypeOK /\ handler[h].pc # "idle" /\ task \in EventTask
  BY TaskAtWork DEF SenderInv, Settle
<1>2. [task EXCEPT !.nonce = NoNonce] \in EventTask
  BY <1>1 DEF EventTask
<1>3. /\ handler' = [handler EXCEPT ![h] = Idle]
      /\ UNCHANGED unsent \/ \E t \in EventTask : unsent' = With(unsent, t)
  BY <1>1, <1>2 DEF Settle, SettleMessage, AckMsg, Requeue
<1> QED
  BY <1>1, <1>3, GivingBackStep DEF Settle

(* An exception ends the callback.                                         *)
LEMMA ThrowingStep ==
  ASSUME SenderInv, NEW h \in Handler, RunThrows(h)
  PROVE  SenderInv'
<1>1. handler[h].pc # "idle" /\ faults \subseteq faults'
  BY DEF RunThrows, Happens
<1>2. handler[h].task \in EventTask
  BY <1>1, TaskAtWork DEF SenderInv
<1> QED
  BY <1>1, <1>2, GivingBackStep DEF RunThrows, Requeue

(* So does one while the task for the receiptor is made.                   *)
LEMMA ReceiptThrowingStep ==
  ASSUME SenderInv, NEW h \in Handler, NewReceiptTaskThrows(h)
  PROVE  SenderInv'
<1>1. CacheTypeOK /\ QueuesTypeOK /\ NodeTypeOK /\ handler[h].pc = "receipting" /\ faults \subseteq faults'
  BY DEF SenderInv, NewReceiptTaskThrows, Happens
<1>2. handler[h].task \in EventTask /\ handler[h].nonce \in Nat
  BY <1>1, TaskAtWork
<1>3. CASE handler[h].result = "success"
  <2>1. Answered(h, "updating", NoTx, handler[h].nonce, "failed") /\ UNCHANGED <<lock, unsent>>
    BY <1>3 DEF NewReceiptTaskThrows
  <2>2. OnlyRun(h) /\ handler'[h].pc = "updating"
    BY <1>1, <1>2, <2>1, Answers DEF SendResult
  <2>3. NodeTypeOK' /\ QueuesTypeOK'
    BY <1>1, <2>1, NodeKept, QueuesKept DEF NewReceiptTaskThrows
  <2>4. Holding(handler[h])
    BY <1>1, <1>3 DEF Holding
  <2> QED
    BY <1>1, <2>1, <2>2, <2>3, <2>4, StepOfOne DEF NewReceiptTaskThrows
<1>4. CASE handler[h].result # "success"
  BY <1>1, <1>2, <1>4, GivingBackStep DEF NewReceiptTaskThrows, Requeue
<1> QED
  BY <1>3, <1>4

-----------------------------------------------------------------------------
(* A process that dies, a lock that expires, a channel that is lost        *)

LEMMA TasksAreTasks ==
  ASSUME CacheTypeOK, NEW S \in SUBSET Handler
  PROVE  TasksHeldBy(S) \subseteq EventTask
BY TaskAtWork DEF TasksHeldBy, CacheTypeOK, Run

(* Nothing of a process that dies holds a nonce.                           *)
LEMMA DyingStep ==
  ASSUME SenderInv, NEW holder, Dies(holder), NodeTypeOK', UNCHANGED <<cachedNonce, receiptVars>>,
         BagToSet(sendQueue') \subseteq EventTask
  PROVE  SenderInv'
<1>1. \A h \in Handler : handler'[h] = Idle
  BY DEF Dies
<1>2. CacheTypeOK'
  BY IdleIsARun DEF Dies, CacheTypeOK, SenderInv
<1>3. QueuesTypeOK'
  BY EmptyBagMembers DEF Dies, QueuesTypeOK, SenderInv, receiptVars
<1> QED
  BY <1>1, <1>2, <1>3, NoRunNoLock DEF SenderInv

(* The account has no funds, and the process exits.                        *)
LEMMA ExitStep ==
  ASSUME SenderInv, NEW h \in Handler, ExitForFunds(h)
  PROVE  SenderInv'
<1> DEFINE run == handler[h]
<1>1. CacheTypeOK /\ QueuesTypeOK /\ NodeTypeOK /\ run.task \in EventTask
  BY TaskAtWork DEF SenderInv, ExitForFunds
<1>2. PICK copies \in 0..2 :
        sendQueue' = sendQueue (+) SetToBag(TasksHeldBy(Handler \ {h}))
                               (+) [task \in {run.task : i \in 1..copies} |-> copies]
  BY DEF ExitForFunds
<1>3. BagToSet([task \in {run.task : i \in 1..copies} |-> copies]) \subseteq EventTask
  BY <1>1 DEF BagToSet
<1>4. BagToSet(SetToBag(TasksHeldBy(Handler \ {h}))) \subseteq EventTask
  BY <1>1, TasksAreTasks, BagOfSet
<1>5. BagToSet(sendQueue') \subseteq EventTask
  BY <1>1, <1>2, <1>3, <1>4, BagSums DEF QueuesTypeOK
<1>6. NodeTypeOK' /\ UNCHANGED <<cachedNonce, receiptVars>>
  BY <1>1, NodeKept DEF ExitForFunds
<1> QED
  BY <1>5, <1>6, DyingStep DEF ExitForFunds

(* The process dies.                                                       *)
LEMMA CrashStep ==
  ASSUME SenderInv, CrashSender
  PROVE  SenderInv'
<1>1. CacheTypeOK /\ QueuesTypeOK /\ NodeTypeOK
  BY DEF SenderInv
<1>2. BagToSet(SetToBag(TasksHeldBy(Handler))) \subseteq EventTask
  BY <1>1, TasksAreTasks, BagOfSet
<1>3. BagToSet(sendQueue') \subseteq EventTask
  BY <1>1, <1>2, BagSums DEF CrashSender, QueuesTypeOK
<1>4. NodeTypeOK' /\ UNCHANGED <<cachedNonce, receiptVars>>
  BY <1>1, NodeKept DEF CrashSender
<1> QED
  BY <1>3, <1>4, DyingStep DEF CrashSender

(* A lock that expires is the fault the invariant allows for.              *)
LEMMA ExpiryStep ==
  ASSUME SenderInv, ExpireLock
  PROVE  SenderInv'
<1>1. NodeTypeOK' /\ QueuesTypeOK' /\ CacheTypeOK'
  BY NodeKept, QueuesKept DEF SenderInv, ExpireLock, CacheTypeOK
<1>2. CASE lock = Abandoned
  <2>1. "expire" \in faults \/ \A h \in Handler : ~Holding(handler[h])
    BY <1>2, SenderAssumption DEF SenderInv, LockProtects
  <2>2. "expire" \in faults' \/ \A h \in Handler : ~Holding(handler'[h]) /\ handler'[h].pc # "setting"
    BY <1>2, <2>1 DEF ExpireLock, Holding
  <2> QED
    BY <1>1, <2>2 DEF SenderInv, LockProtects
<1>3. CASE lock # Abandoned
  BY <1>1, <1>3 DEF ExpireLock, Happens, SenderInv, LockProtects
<1> QED
  BY <1>2, <1>3

(* The queue gives the message of a lost connection back.                  *)
LEMMA DisconnectStep ==
  ASSUME SenderInv, NEW h \in Handler, Disconnect(h)
  PROVE  SenderInv'
<1>1. CacheTypeOK /\ QueuesTypeOK /\ NodeTypeOK /\ handler[h] \in Run /\ handler[h].held
  BY DEF SenderInv, Disconnect, CacheTypeOK
<1>2. handler[h].pc # "idle" /\ handler[h].task \in EventTask
  BY <1>1, TaskAtWork DEF Run
<1>3. /\ OnlyRun(h)
      /\ handler'[h].pc = handler[h].pc /\ handler'[h].nonce = handler[h].nonce
      /\ handler'[h].result = handler[h].result
  BY <1>1 DEF Disconnect, CacheTypeOK, OnlyRun, Run
<1>4. NodeTypeOK' /\ UNCHANGED <<lock, cachedNonce>> /\ faults \subseteq faults'
  BY <1>1, NodeKept DEF Disconnect, Happens, redisVars
<1>5. QueuesTypeOK'
  BY <1>1, <1>2, WithMembers DEF Disconnect, QueuesTypeOK, receiptVars
<1>6. CASE "expire" \in faults
  BY <1>1, <1>3, <1>4, <1>5, <1>6 DEF SenderInv, LockProtects, CacheTypeOK, OnlyRun
<1>7. CASE "expire" \notin faults
  <2>1. handler'[h].pc = "setting" => cachedNonce' = NoNonce \/ cachedNonce' < handler'[h].nonce
    BY <1>3, <1>4, <1>7 DEF SenderInv, LockProtects
  <2> QED
    BY <1>3, <1>4, <1>5, <2>1, StepOfOne DEF Holding
<1> QED
  BY <1>6, <1>7

-----------------------------------------------------------------------------
(* The invariant holds at first.                                           *)
LEMMA SenderInvInit == SenderInit => SenderInv
<1> SUFFICES ASSUME SenderInit PROVE SenderInv
  OBVIOUS
<1>1. NodeTypeOK
  BY DEF SenderInit, NodeTypeOK
<1>2. QueuesTypeOK
  <2>1. \A e \in Event : NewTask(e) \in EventTask
    BY DEF NewTask, EventTask
  <2>2. receiptor \in ReceiptorRun
    BY DEF SenderInit, IdleReceiptor, ReceiptorRun
  <2> QED
    BY <2>1, <2>2, BagOfSet, EmptyBagMembers DEF SenderInit, QueuesTypeOK
<1>3. CacheTypeOK
  BY IdleIsARun DEF SenderInit, CacheTypeOK
<1>4. LockProtects
  BY DEF SenderInit, LockProtects, Holding, Idle
<1> QED
  BY <1>1, <1>2, <1>3, <1>4 DEF SenderInv

(* Every step keeps it.                                                    *)
LEMMA SenderInvStep == SenderInv /\ [SenderNext]_vars => SenderInv'
<1> SUFFICES ASSUME SenderInv, [SenderNext]_vars PROVE SenderInv'
  OBVIOUS
<1>1. CASE NodeNext
  BY <1>1, NodeStep
<1>2. CASE QueueNext
  BY <1>2, QueueStep
<1>3. CASE ReceiptorNext
  BY <1>3, ReceiptorStep
<1>4. ASSUME NEW h \in Handler, HandlerNext(h)
      PROVE  SenderInv'
  <2>1. CASE SkipEvent(h) \/ ProcessEventTask(h) \/ ReadOldNonce(h)
    BY <2>1, ReadingStep
  <2>2. CASE LockAndChooseNonce(h)
    BY <2>2, LockingStep
  <2>3. CASE SendToSelf(h)
    BY <2>3, FillingStep
  <2>4. CASE \E price \in Price : SendTransaction(h, price)
    BY <2>4, SendingStep
  <2>5. CASE EnqueueReceipt(h)
    BY <2>5, ReceiptingStep
  <2>6. CASE SetNonce(h)
    BY <2>6, SavingStep
  <2>7. CASE Settle(h)
    BY <2>7, SettlingStep
  <2>8. CASE ExitForFunds(h)
    BY <2>8, ExitStep
  <2> QED
    BY <1>4, <2>1, <2>2, <2>3, <2>4, <2>5, <2>6, <2>7, <2>8 DEF HandlerNext
<1>5. CASE SenderFaultNext
  <2>1. ASSUME NEW h \in Handler,
               Disconnect(h) \/ RunThrows(h) \/ NewReceiptTaskThrows(h) \/ SetNonceFails(h)
        PROVE  SenderInv'
    BY <2>1, DisconnectStep, ThrowingStep, ReceiptThrowingStep, SavingStep
  <2> QED
    BY <1>5, <2>1, CrashStep, ExpiryStep DEF SenderFaultNext
<1>6. CASE UNCHANGED vars
  <2>1. UNCHANGED <<chainVars, cachedNonce, lock, handler, sendQueue, unsent, receiptVars, faults>>
    BY <1>6 DEF vars, senderVars, redisVars, historyVars
  <2>2. NodeTypeOK' /\ QueuesTypeOK' /\ CacheTypeOK'
    BY <2>1, NodeKept, QueuesKept DEF SenderInv, CacheTypeOK
  <2> QED
    BY <2>1, <2>2, LockUntouched DEF SenderInv, redisVars
<1> QED
  BY <1>1, <1>2, <1>3, <1>4, <1>5, <1>6 DEF SenderNext

(* Types, and the lock: for any number of events, nonces, prices and       *)
(* overlapping callbacks, and any faults, a callback between choosing its  *)
(* nonce and having saved it holds the lock, until one expires.            *)
THEOREM SenderInvariant == SenderSpec => []SenderInv
<1> QED
  BY SenderInvInit, SenderInvStep, PTL DEF SenderSpec

(* updateNonce of sender.ts reads the cached nonce and writes it in two    *)
(* awaits, and sends the write without waiting: under the lock the nonce   *)
(* in Redis never goes back all the same, unless the lock expired.         *)
THEOREM CachedNonceNeverRewinds == SenderSpec => CacheNeverRewinds
<1>1. SenderInv /\ [SenderNext]_vars
        => [cachedNonce # NoNonce => cachedNonce' >= cachedNonce \/ "expire" \in faults]_vars
  <2> SUFFICES ASSUME SenderInv, [SenderNext]_vars, cachedNonce # NoNonce, "expire" \notin faults
               PROVE  cachedNonce' >= cachedNonce
    OBVIOUS
  <2>1. CacheTypeOK /\ cachedNonce \in Nat
    BY DEF SenderInv, CacheTypeOK
  <2>2. ASSUME NEW h \in Handler, SetNonce(h)
        PROVE  cachedNonce' >= cachedNonce
    <3>1. handler[h].nonce \in Nat
      BY <2>1 DEF CacheTypeOK, Run
    <3>2. cachedNonce < handler[h].nonce /\ cachedNonce' = handler[h].nonce
      BY <2>2 DEF SetNonce, SenderInv, LockProtects
    <3> QED
      BY <2>1, <3>1, <3>2
  <2>3. CASE UNCHANGED cachedNonce
    BY <2>1, <2>3
  <2>4. UNCHANGED cachedNonce \/ \E h \in Handler : SetNonce(h)
    <3>1. CASE NodeNext \/ QueueNext \/ ReceiptorNext \/ UNCHANGED vars
      BY <3>1 DEF NodeNext, QueueNext, ReceiptorNext, Mine, DropTx, ExecutedByOthers, Receive,
         Deliver, ReceiveReceipt, DeliverReceipt, ConfirmReceipt, WaitForReceipt, ResendEvent,
         RejectMsg, GetReceiptThrows, CrashReceiptor, vars, senderVars, redisVars
    <3>2. CASE SenderFaultNext
      BY <3>2 DEF SenderFaultNext, CrashSender, ExpireLock, Disconnect, RunThrows,
         NewReceiptTaskThrows, SetNonceFails, redisVars
    <3>3. CASE \E h \in Handler : HandlerNext(h)
      BY <3>3 DEF HandlerNext, SkipEvent, ProcessEventTask, LockAndChooseNonce, SendToSelf,
         SendTransaction, EnqueueReceipt, ReadOldNonce, Settle, ExitForFunds, redisVars
    <3> QED
      BY <3>1, <3>2, <3>3 DEF SenderNext
  <2> QED
    BY <2>2, <2>3, <2>4
<1> QED
  BY SenderInvInit, SenderInvStep, <1>1, PTL DEF SenderSpec, CacheNeverRewinds

-----------------------------------------------------------------------------
(***************************************************************************)
(* Whatever fails, an event whose effect is not on the chain has a task in *)
(* a queue or in a process that will put it back, unless the code drops it *)
(* on purpose or a process dies with it.                                   *)
(***************************************************************************)

BagsOK ==
  IsABag(sendQueue) /\ IsABag(unsent) /\ IsABag(receiptQueue) /\ IsABag(unsentReceipts)

(* A transaction carries its event, or fills a nonce for one that is done. *)
IsFor(event, tx) == tx.payload = event \/ event \in executed

MinedDone == \A i \in 1..Len(mined) : mined[i].tx.payload \in executed \cup {SelfTransfer}

RunsCarryTheirEvents ==
  \A h \in Handler :
    /\ handler[h].pc = "filling" => handler[h].task.event \in executed
    /\ handler[h].pc = "receipting" => IsFor(handler[h].task.event, handler[h].tx)

ReceiptsCarryTheirEvents ==
  /\ \A task \in BagToSet(receiptQueue) \cup BagToSet(unsentReceipts) : IsFor(task.event, task.tx)
  /\ receiptor.pc # "idle" => IsFor(receiptor.task.event, receiptor.task.tx)

(* A callback answers for its task while it has the message, until the     *)
(* receiptor has been told of the transaction.                             *)
Owes(run) ==
  /\ run.held
  /\ ~ /\ run.pc \in {"updating", "setting", "settling"}
       /\ run.result \in {"success", "txImported", "sendDummyTxToFillNonce"}

Waiting(e) ==
  \/ \E task \in BagToSet(sendQueue) \cup BagToSet(unsent) : task.event = e
  \/ \E task \in BagToSet(receiptQueue) \cup BagToSet(unsentReceipts) : task.event = e
  \/ \E h \in Handler : Owes(handler[h]) /\ handler[h].task.event = e
  \/ receiptor.pc \in {"asking", "hung"} /\ receiptor.task.event = e

EverybodyWaits == \A e \in Event \ (executed \cup forgotten) : Waiting(e)

TasksInv ==
  BagsOK /\ MinedDone /\ RunsCarryTheirEvents /\ ReceiptsCarryTheirEvents /\ EverybodyWaits

-----------------------------------------------------------------------------
(* Bags *)

LEMMA BagSumIsABag ==
  ASSUME NEW B, NEW C, IsABag(B), IsABag(C)
  PROVE  IsABag(B (+) C)
BY DEF IsABag, (+)

(* The bag of a set is one.                                                *)
LEMMA BagOfSetIsABag ==
  ASSUME NEW S
  PROVE  IsABag(SetToBag(S))
BY DEF IsABag, SetToBag

(* So is the empty one.                                                    *)
LEMMA EmptyBagIsABag == IsABag(EmptyBag)
BY BagOfSetIsABag DEF EmptyBag

(* Putting one in keeps a bag one.                                         *)
LEMMA WithIsABag ==
  ASSUME NEW B, NEW x, IsABag(B)
  PROVE  IsABag(With(B, x))
BY BagSumIsABag, BagOfSetIsABag DEF With

(* So does taking one out.                                                 *)
LEMMA WithoutIsABag ==
  ASSUME NEW B, NEW x, IsABag(B)
  PROVE  IsABag(Without(B, x))
BY DEF IsABag, Without, SetToBag, (-)

(* Taking one out leaves the others.                                       *)
LEMMA WithoutLeaves ==
  ASSUME NEW B, NEW x, IsABag(B)
  PROVE  BagToSet(B) \subseteq BagToSet(Without(B, x)) \cup {x}
BY DEF IsABag, BagToSet, Without, SetToBag, (-)

-----------------------------------------------------------------------------
(* What happens to the rest while one callback moves                       *)

LEMMA ForEver ==
  ASSUME NEW event, NEW tx, IsFor(event, tx), executed \subseteq executed'
  PROVE  IsFor(event, tx)'
BY DEF IsFor

(* The callback h moved and the receipts are as they were: it is enough to *)
(* look at its event.                                                      *)
LEMMA OneMoved ==
  ASSUME TasksInv, NEW h \in Handler, OnlyRun(h), UNCHANGED <<mined, executed, receiptVars>>,
         sendQueue' = sendQueue, IsABag(unsent'), BagToSet(unsent) \subseteq BagToSet(unsent'),
         forgotten \subseteq forgotten',
         handler'[h].pc = "filling" => handler'[h].task.event \in executed,
         handler'[h].pc = "receipting" => IsFor(handler'[h].task.event, handler'[h].tx),
         \A e \in Event : Owes(handler[h]) /\ handler[h].task.event = e =>
           e \in executed' \cup forgotten' \/ Waiting(e)'
  PROVE  TasksInv'
<1>1. BagsOK' /\ MinedDone' /\ ReceiptsCarryTheirEvents'
  BY DEF TasksInv, BagsOK, MinedDone, ReceiptsCarryTheirEvents, IsFor, receiptVars
<1>2. RunsCarryTheirEvents'
  BY DEF TasksInv, RunsCarryTheirEvents, OnlyRun, IsFor
<1>3. ASSUME NEW e \in Event \ (executed' \cup forgotten')
      PROVE  Waiting(e)'
  <2>1. Waiting(e)
    BY <1>3 DEF TasksInv, EverybodyWaits
  <2>2. CASE Owes(handler[h]) /\ handler[h].task.event = e
    BY <1>3, <2>2
  <2>3. CASE \E g \in Handler \ {h} : Owes(handler[g]) /\ handler[g].task.event = e
    BY <2>3 DEF Waiting, OnlyRun
  <2>4. CASE ~ \E g \in Handler : Owes(handler[g]) /\ handler[g].task.event = e
    BY <2>1, <2>4 DEF Waiting, receiptVars
  <2> QED
    BY <2>2, <2>3, <2>4
<1> QED
  BY <1>1, <1>2, <1>3 DEF TasksInv, EverybodyWaits

(* A callback's step moves only the callback.                              *)
LEMMA CallbackMoves ==
  ASSUME SenderInv', SenderInv, NEW h \in Handler,
         \/ HandlerNext(h) /\ ~ExitForFunds(h)
         \/ Disconnect(h) \/ RunThrows(h) \/ NewReceiptTaskThrows(h) \/ SetNonceFails(h)
  PROVE  OnlyRun(h)
<1>1. handler \in [Handler -> Run] /\ handler' \in [Handler -> Run]
  BY DEF SenderInv, CacheTypeOK
<1>2. \A g \in Handler \ {h} : handler'[g] = handler[g]
  BY <1>1 DEF HandlerNext, SkipEvent, ProcessEventTask, LockAndChooseNonce, SendToSelf,
     SendTransaction, EnqueueReceipt, ReadOldNonce, SetNonce, Settle, SettleMessage, AckMsg, Requeue,
     Answered, Disconnect, RunThrows, NewReceiptTaskThrows, SetNonceFails
<1> QED
  BY <1>1, <1>2 DEF OnlyRun

(* A callback that goes on keeps its task and message.                     *)
LEMMA MovedOn ==
  ASSUME CacheTypeOK, NEW h \in Handler, NEW pc, handler' = [handler EXCEPT ![h].pc = pc]
  PROVE  /\ handler'[h].pc = pc /\ handler'[h].task = handler[h].task
         /\ handler'[h].held = handler[h].held /\ handler'[h].result = handler[h].result
         /\ handler'[h].tx = handler[h].tx
BY DEF CacheTypeOK, Run

(* An event waits while a callback owes it.                                *)
LEMMA StillOwes ==
  ASSUME NEW h \in Handler, Owes(handler'[h]), NEW e, handler'[h].task.event = e
  PROVE  Waiting(e)'
BY DEF Waiting, Owes

(* An event whose task is put back waits.                                  *)
LEMMA PutBack ==
  ASSUME NEW task, unsent' = With(unsent, task)
  PROVE  Waiting(task.event)'
BY WithMembers DEF Waiting

(* A callback reads its task, a nonce or the cache.                        *)
LEMMA CallbackReads ==
  ASSUME SenderInv, SenderInv', TasksInv, NEW h \in Handler,
         \/ SkipEvent(h) \/ ProcessEventTask(h) \/ LockAndChooseNonce(h) \/ ReadOldNonce(h)
         \/ SetNonce(h) \/ SetNonceFails(h)
  PROVE  TasksInv'
<1>1. CacheTypeOK /\ BagsOK /\ handler \in [Handler -> Run]
  BY DEF SenderInv, TasksInv, CacheTypeOK
<1>2. UNCHANGED <<mined, executed, receiptVars, sendQueue, unsent, forgotten>>
  BY DEF SkipEvent, ProcessEventTask, LockAndChooseNonce, ReadOldNonce, SetNonce, SetNonceFails,
     AckMsg, chainVars, historyVars
<1>3. OnlyRun(h)
  BY CallbackMoves DEF HandlerNext, SkipEvent, ProcessEventTask, LockAndChooseNonce, ReadOldNonce,
     SetNonce, ExitForFunds
<1>4. CASE SkipEvent(h)
  <2>1. handler[h].task.event \in executed
    BY <1>4 DEF SkipEvent
  <2>2. \/ handler' = [handler EXCEPT ![h].pc = "filling"]
        \/ handler' = [handler EXCEPT ![h] = Idle]
    BY <1>4 DEF SkipEvent, AckMsg
  <2>3. CASE handler' = [handler EXCEPT ![h].pc = "filling"]
    BY <1>1, <1>2, <1>3, <2>1, <2>3, MovedOn, OneMoved DEF BagsOK
  <2>4. CASE handler' = [handler EXCEPT ![h] = Idle]
    <3>1. handler'[h] = Idle
      BY <1>1, <2>4
    <3> QED
      BY <1>1, <1>2, <1>3, <2>1, <3>1, OneMoved DEF BagsOK, Idle
  <2> QED
    BY <2>2, <2>3, <2>4
<1>5. CASE LockAndChooseNonce(h)
  <2>1. PICK n \in Nat \cup {handler[h].task.nonce, ReadNonce, Count} :
          handler' = [handler EXCEPT ![h].pc = "sending", ![h].nonce = n]
    BY <1>5 DEF LockAndChooseNonce
  <2>2. /\ handler'[h].pc = "sending" /\ handler'[h].task = handler[h].task
        /\ handler'[h].held = handler[h].held
    BY <1>1, <2>1 DEF Run
  <2>3. Owes(handler[h]) => Owes(handler'[h])
    BY <2>2 DEF Owes
  <2> QED
    BY <1>1, <1>2, <1>3, <2>2, <2>3, StillOwes, OneMoved DEF BagsOK
<1>6. CASE ProcessEventTask(h) \/ ReadOldNonce(h) \/ SetNonce(h) \/ SetNonceFails(h)
  <2>1. PICK pc \in {"locking", "setting", "settling"} :
          /\ handler' = [handler EXCEPT ![h].pc = pc]
          /\ pc # "locking" => handler[h].pc \in {"updating", "setting"}
    BY <1>6 DEF ProcessEventTask, ReadOldNonce, SetNonce, SetNonceFails
  <2>2. /\ handler'[h].pc = pc /\ handler'[h].task = handler[h].task
        /\ handler'[h].held = handler[h].held /\ handler'[h].result = handler[h].result
    BY <1>1, <2>1, MovedOn
  <2>3. Owes(handler[h]) => Owes(handler'[h])
    BY <2>1, <2>2 DEF Owes
  <2> QED
    BY <1>1, <1>2, <1>3, <2>2, <2>3, StillOwes, OneMoved DEF BagsOK
<1> QED
  BY <1>4, <1>5, <1>6

(* The callback ends, and its task is published again, or is not owed.     *)
LEMMA CallbackEnds ==
  ASSUME SenderInv, TasksInv, NEW h \in Handler, handler' = [handler EXCEPT ![h] = Idle],
         UNCHANGED <<mined, executed, receiptVars, sendQueue>>, forgotten \subseteq forgotten',
         \/ \E task \in EventTask : unsent' = With(unsent, task) /\ task.event = handler[h].task.event
         \/ UNCHANGED unsent /\ (Owes(handler[h]) => handler[h].task.event \in executed \cup forgotten')
  PROVE  TasksInv'
<1>1. CacheTypeOK /\ BagsOK /\ handler \in [Handler -> Run]
  BY DEF SenderInv, TasksInv, CacheTypeOK
<1>2. OnlyRun(h) /\ handler'[h] = Idle
  BY <1>1, IdleIsARun DEF OnlyRun
<1>3. IsABag(unsent') /\ BagToSet(unsent) \subseteq BagToSet(unsent')
  BY <1>1, WithIsABag, WithMembers DEF BagsOK
<1>4. \A e \in Event : Owes(handler[h]) /\ handler[h].task.event = e =>
        e \in executed' \cup forgotten' \/ Waiting(e)'
  BY PutBack
<1> QED
  BY <1>2, <1>3, <1>4, OneMoved DEF Idle

(* A callback fills a nonce of an event that is done.                      *)
LEMMA CallbackFills ==
  ASSUME SenderInv, SenderInv', TasksInv, NEW h \in Handler, SendToSelf(h)
  PROVE  TasksInv'
<1> DEFINE tx == [payload |-> SelfTransfer, nonce |-> handler[h].task.nonce, price |-> BasePrice]
<1>1. CacheTypeOK /\ BagsOK /\ handler[h].task \in EventTask
  BY TaskAtWork DEF SenderInv, TasksInv, SendToSelf
<1>2. handler[h].task.event \in executed
  BY DEF TasksInv, RunsCarryTheirEvents, SendToSelf
<1>3. UNCHANGED <<mined, executed, receiptVars, sendQueue, forgotten>>
  BY DEF SendToSelf
<1>4. \/ handler' = [handler EXCEPT ![h].pc = "receipting", ![h].tx = tx,
                                    ![h].result = "sendDummyTxToFillNonce"]
         /\ UNCHANGED unsent
      \/ handler' = [handler EXCEPT ![h] = Idle]
         /\ (UNCHANGED unsent \/ unsent' = With(unsent, handler[h].task))
  BY DEF SendToSelf, AckMsg, Requeue
<1>5. CASE handler' = [handler EXCEPT ![h].pc = "receipting", ![h].tx = tx,
                                      ![h].result = "sendDummyTxToFillNonce"]
           /\ UNCHANGED unsent
  <2>1. OnlyRun(h)
    BY CallbackMoves DEF HandlerNext, SendToSelf, ExitForFunds
  <2>2. handler'[h].pc = "receipting" /\ handler'[h].task = handler[h].task
    <3> HIDE DEF tx
    <3> QED
      BY <1>1, <1>5 DEF CacheTypeOK, Run
  <2>3. IsFor(handler'[h].task.event, handler'[h].tx)
    BY <1>2, <2>2 DEF IsFor
  <2> QED
    BY <1>1, <1>2, <1>3, <1>5, <2>1, <2>2, <2>3, OneMoved DEF BagsOK
<1>6. CASE handler' = [handler EXCEPT ![h] = Idle]
           /\ (UNCHANGED unsent \/ unsent' = With(unsent, handler[h].task))
  BY <1>1, <1>2, <1>3, <1>6, CallbackEnds
<1> QED
  BY <1>4, <1>5, <1>6

(* A callback sends the transaction of its event.                          *)
LEMMA CallbackSends ==
  ASSUME SenderInv, SenderInv', TasksInv, NEW h \in Handler, NEW price \in Price,
         SendTransaction(h, price)
  PROVE  TasksInv'
<1> DEFINE n == handler[h].nonce
           tx == [payload |-> handler[h].task.event, nonce |-> n, price |-> price]
<1>1. CacheTypeOK /\ BagsOK
  BY DEF SenderInv, TasksInv
<1>2. UNCHANGED <<mined, executed, receiptVars, sendQueue, unsent, forgotten>>
  BY DEF SendTransaction
<1>3. OnlyRun(h)
  BY CallbackMoves DEF HandlerNext, SendTransaction, ExitForFunds
<1>4. PICK pc, m, answered, result :
        /\ Answered(h, pc, answered, m, result) /\ pc \in {"receipting", "updating"}
        /\ pc = "receipting" => answered.payload = handler[h].task.event
        /\ pc = "updating" => result \notin {"success", "txImported", "sendDummyTxToFillNonce"}
  <2>1. tx.payload = handler[h].task.event
    OBVIOUS
  <2> HIDE DEF tx
  <2>2. \/ Answered(h, "receipting", tx, n, "success")
        \/ Answered(h, "receipting", tx, n, "txImported")
        \/ Answered(h, "updating", NoTx, Count, "nonceTooLow")
        \/ \E result \in {"failed", "timeout", "insufficientFunds", "blockGasLimitExceeded"} :
             Answered(h, "updating", NoTx, n, result)
    BY DEF SendTransaction, tx
  <2> QED
    BY <2>1, <2>2
<1>5. /\ handler'[h].pc = pc /\ handler'[h].tx = answered /\ handler'[h].result = result
      /\ handler'[h].task = handler[h].task /\ handler'[h].held = handler[h].held
  BY <1>1, <1>4 DEF Answered, CacheTypeOK, Run
<1>6. Owes(handler[h]) => Owes(handler'[h])
  BY <1>4, <1>5 DEF Owes
<1>7. handler'[h].pc = "receipting" => IsFor(handler'[h].task.event, handler'[h].tx)
  BY <1>4, <1>5 DEF IsFor
<1> QED
  BY <1>1, <1>2, <1>3, <1>4, <1>5, <1>6, <1>7, StillOwes, OneMoved DEF BagsOK

(* From here on the receiptor answers for the task.                        *)
LEMMA CallbackHandsOver ==
  ASSUME SenderInv, SenderInv', TasksInv, NEW h \in Handler, EnqueueReceipt(h)
  PROVE  TasksInv'
<1> DEFINE run == handler[h]
           task == [event |-> run.task.event, tx |-> run.tx]
<1>1. CacheTypeOK /\ BagsOK /\ run.pc = "receipting"
  BY DEF SenderInv, TasksInv, EnqueueReceipt
<1>2. /\ UNCHANGED <<mined, executed, sendQueue, unsent, unsentReceipts, receiptor, forgotten>>
      /\ receiptQueue' = With(receiptQueue, task)
  BY DEF EnqueueReceipt, chainVars, historyVars
<1>3. OnlyRun(h) /\ handler'[h].pc \in {"updating", "settling"}
  <2>1. OnlyRun(h)
    BY CallbackMoves DEF HandlerNext, EnqueueReceipt, ExitForFunds
  <2>2. PICK pc, m : pc \in {"updating", "settling"} /\ Answered(h, pc, NoTx, m, run.result)
    BY DEF EnqueueReceipt
  <2> QED
    BY <1>1, <2>1, <2>2 DEF Answered, CacheTypeOK, Run
<1>4. IsFor(task.event, task.tx) /\ task.event = run.task.event
  BY <1>1 DEF TasksInv, RunsCarryTheirEvents
<1> HIDE DEF task
<1>5. BagsOK' /\ BagToSet(receiptQueue') = BagToSet(receiptQueue) \cup {task}
  BY <1>1, <1>2, WithIsABag, WithMembers DEF BagsOK
<1>6. MinedDone' /\ ReceiptsCarryTheirEvents'
  BY <1>2, <1>4, <1>5 DEF TasksInv, MinedDone, ReceiptsCarryTheirEvents, IsFor
<1>7. RunsCarryTheirEvents'
  BY <1>2, <1>3 DEF TasksInv, RunsCarryTheirEvents, OnlyRun, IsFor
<1>8. ASSUME NEW e \in Event \ (executed' \cup forgotten')
      PROVE  Waiting(e)'
  <2>1. Waiting(e)
    BY <1>2, <1>8 DEF TasksInv, EverybodyWaits
  <2>2. CASE run.task.event = e
    BY <1>4, <1>5, <2>2 DEF Waiting
  <2>3. CASE \E g \in Handler \ {h} : Owes(handler[g]) /\ handler[g].task.event = e
    BY <1>3, <2>3 DEF Waiting, OnlyRun
  <2>4. CASE ~ \E g \in Handler : Owes(handler[g]) /\ handler[g].task.event = e
    BY <1>2, <1>5, <2>1, <2>4 DEF Waiting
  <2> QED
    BY <2>2, <2>3, <2>4
<1> QED
  BY <1>5, <1>6, <1>7, <1>8 DEF TasksInv, EverybodyWaits

(* A callback settles its message.                                         *)
LEMMA CallbackSettles ==
  ASSUME SenderInv, SenderInv', TasksInv, NEW h \in Handler, Settle(h)
  PROVE  TasksInv'
<1> DEFINE task == handler[h].task
<1>1. task \in EventTask /\ handler[h].pc = "settling"
  BY TaskAtWork DEF SenderInv, Settle
<1>2. [task EXCEPT !.nonce = NoNonce] \in EventTask
      /\ [task EXCEPT !.nonce = NoNonce].event = task.event
  BY <1>1 DEF EventTask
<1>3. UNCHANGED <<mined, executed, receiptVars, sendQueue>> /\ handler' = [handler EXCEPT ![h] = Idle]
  BY DEF Settle, SettleMessage, AckMsg, Requeue, chainVars
<1>4. \/ \E t \in EventTask : unsent' = With(unsent, t) /\ t.event = task.event
      \/ UNCHANGED unsent /\ task.event \in forgotten'
      \/ UNCHANGED unsent
         /\ handler[h].result \in {"success", "txImported", "sendDummyTxToFillNonce"}
  BY <1>1, <1>2 DEF Settle, SettleMessage, AckMsg, Requeue
<1>5. forgotten \subseteq forgotten'
  BY DEF Settle, SettleMessage
<1> QED
  BY <1>1, <1>3, <1>4, <1>5, CallbackEnds DEF Owes

(* A callback throws and puts its task back.                               *)
LEMMA CallbackThrows ==
  ASSUME SenderInv, SenderInv', TasksInv, NEW h \in Handler,
         RunThrows(h) \/ NewReceiptTaskThrows(h)
  PROVE  TasksInv'
<1>1. CacheTypeOK /\ BagsOK /\ handler[h].task \in EventTask
  BY TaskAtWork DEF SenderInv, TasksInv, RunThrows, NewReceiptTaskThrows
<1>2. UNCHANGED <<mined, executed, receiptVars, sendQueue, forgotten>>
  BY DEF RunThrows, NewReceiptTaskThrows, chainVars
<1>3. \/ Requeue(h, handler[h].task)
      \/ /\ handler[h].pc = "receipting" /\ UNCHANGED unsent
         /\ Answered(h, "updating", NoTx, handler[h].nonce, "failed")
  BY DEF RunThrows, NewReceiptTaskThrows
<1>4. CASE Requeue(h, handler[h].task)
  BY <1>1, <1>2, <1>4, CallbackEnds DEF Requeue
<1>5. CASE /\ handler[h].pc = "receipting" /\ UNCHANGED unsent
           /\ Answered(h, "updating", NoTx, handler[h].nonce, "failed")
  <2>1. /\ handler'[h].pc = "updating" /\ handler'[h].result = "failed"
        /\ handler'[h].task = handler[h].task /\ handler'[h].held = handler[h].held
    BY <1>1, <1>5 DEF Answered, CacheTypeOK, Run
  <2>2. OnlyRun(h)
    BY CallbackMoves
  <2>3. Owes(handler[h]) => Owes(handler'[h])
    BY <2>1 DEF Owes
  <2> QED
    BY <1>1, <1>2, <1>5, <2>1, <2>2, <2>3, StillOwes, OneMoved DEF BagsOK
<1> QED
  BY <1>3, <1>4, <1>5

-----------------------------------------------------------------------------
(* Processes that die: what the broker had given them comes back.          *)

LEMMA DisconnectKeepsTasks ==
  ASSUME SenderInv, SenderInv', TasksInv, NEW h \in Handler, Disconnect(h)
  PROVE  TasksInv'
<1>1. CacheTypeOK /\ BagsOK
  BY DEF SenderInv, TasksInv
<1>2. /\ UNCHANGED <<mined, executed, unsent, receiptVars, forgotten>>
      /\ sendQueue' = With(sendQueue, handler[h].task)
  BY DEF Disconnect, chainVars
<1>3. /\ handler'[h].pc = handler[h].pc /\ handler'[h].task = handler[h].task
      /\ handler'[h].tx = handler[h].tx
      /\ OnlyRun(h)
  <2>1. OnlyRun(h)
    BY CallbackMoves
  <2> QED
    BY <1>1, <2>1 DEF Disconnect, CacheTypeOK, Run
<1>4. BagsOK' /\ BagToSet(sendQueue') = BagToSet(sendQueue) \cup {handler[h].task}
  BY <1>1, <1>2, WithIsABag, WithMembers DEF BagsOK, receiptVars
<1>5. MinedDone' /\ ReceiptsCarryTheirEvents'
  BY <1>2 DEF TasksInv, MinedDone, ReceiptsCarryTheirEvents, IsFor, receiptVars
<1>6. RunsCarryTheirEvents'
  BY <1>2, <1>3 DEF TasksInv, RunsCarryTheirEvents, OnlyRun, IsFor
<1>7. ASSUME NEW e \in Event \ (executed' \cup forgotten')
      PROVE  Waiting(e)'
  <2>1. Waiting(e)
    BY <1>2, <1>7 DEF TasksInv, EverybodyWaits
  <2>2. CASE handler[h].task.event = e
    BY <1>4, <2>2 DEF Waiting
  <2>3. CASE \E g \in Handler \ {h} : Owes(handler[g]) /\ handler[g].task.event = e
    BY <1>3, <2>3 DEF Waiting, OnlyRun
  <2>4. CASE ~ \E g \in Handler : Owes(handler[g]) /\ handler[g].task.event = e
    BY <1>2, <1>4, <2>1, <2>4 DEF Waiting, receiptVars
  <2> QED
    BY <2>2, <2>3, <2>4
<1> QED
  BY <1>4, <1>5, <1>6, <1>7 DEF TasksInv, EverybodyWaits

(* A process dies: its messages return to the queue, the unsent are lost.  *)
LEMMA DyingKeepsTasks ==
  ASSUME SenderInv, TasksInv, NEW holder, Dies(holder),
         UNCHANGED <<mined, executed, receiptVars>>, IsABag(sendQueue'),
         BagToSet(sendQueue) \subseteq BagToSet(sendQueue'),
         forgotten \cup Unsent \subseteq forgotten',
         \A h \in Handler : handler[h].held =>
           handler[h].task \in BagToSet(sendQueue') \/ handler[h].task.event \in forgotten'
  PROVE  TasksInv'
<1>1. \A h \in Handler : handler'[h] = Idle
  BY DEF Dies
<1>2. BagsOK' /\ MinedDone' /\ ReceiptsCarryTheirEvents' /\ RunsCarryTheirEvents'
  BY <1>1, EmptyBagIsABag DEF TasksInv, BagsOK, MinedDone, ReceiptsCarryTheirEvents,
     RunsCarryTheirEvents, IsFor, receiptVars, Dies, Idle
<1>3. ASSUME NEW e \in Event \ (executed' \cup forgotten')
      PROVE  Waiting(e)'
  <2>1. Waiting(e)
    BY <1>3 DEF TasksInv, EverybodyWaits
  <2>2. ASSUME NEW task \in BagToSet(unsent), task.event = e
        PROVE  FALSE
    BY <1>3, <2>2 DEF Unsent
  <2>3. ASSUME NEW h \in Handler, Owes(handler[h]), handler[h].task.event = e
        PROVE  Waiting(e)'
    BY <1>3, <2>3 DEF Owes, Waiting
  <2> QED
    BY <2>1, <2>2, <2>3 DEF Waiting, receiptVars
<1> QED
  BY <1>2, <1>3 DEF TasksInv, EverybodyWaits

(* The process crashes.                                                    *)
LEMMA CrashKeepsTasks ==
  ASSUME SenderInv, TasksInv, CrashSender
  PROVE  TasksInv'
<1>1. IsABag(sendQueue')
  BY BagSumIsABag, BagOfSetIsABag DEF TasksInv, BagsOK, CrashSender
<1>2. BagToSet(sendQueue') = BagToSet(sendQueue) \cup TasksHeldBy(Handler)
  BY BagSums, BagOfSet DEF CrashSender
<1>3. \A h \in Handler : handler[h].held => handler[h].task \in BagToSet(sendQueue')
  BY <1>2 DEF TasksHeldBy
<1> QED
  BY <1>1, <1>2, <1>3, DyingKeepsTasks DEF CrashSender, chainVars

(* The process exits, with one, two or no copies of its task left.         *)
LEMMA ExitKeepsTasks ==
  ASSUME SenderInv, TasksInv, NEW h \in Handler, ExitForFunds(h)
  PROVE  TasksInv'
<1> DEFINE run == handler[h]
           others == SetToBag(TasksHeldBy(Handler \ {h}))
<1>1. PICK copies \in 0..2 :
        /\ sendQueue' = sendQueue (+) others (+) [task \in {run.task : i \in 1..copies} |-> copies]
        /\ forgotten' = forgotten \cup Unsent \cup
                          (IF copies = 0 /\ run.held THEN {run.task.event} ELSE {})
  BY DEF ExitForFunds
<1> DEFINE kept == [task \in {run.task : i \in 1..copies} |-> copies]
<1>2. IsABag(kept) /\ BagToSet(kept) = {run.task : i \in 1..copies}
  BY DEF IsABag, BagToSet
<1>3. IsABag(others) /\ BagToSet(others) = TasksHeldBy(Handler \ {h})
  BY BagOfSetIsABag, BagOfSet
<1> HIDE DEF kept, others
<1>4. IsABag(sendQueue')
  BY <1>1, <1>2, <1>3, BagSumIsABag DEF TasksInv, BagsOK, kept
<1>5. BagToSet(sendQueue') = BagToSet(sendQueue) \cup TasksHeldBy(Handler \ {h}) \cup BagToSet(kept)
  BY <1>1, <1>3, BagSums DEF kept
<1>6. ASSUME NEW g \in Handler, handler[g].held
      PROVE  handler[g].task \in BagToSet(sendQueue') \/ handler[g].task.event \in forgotten'
  <2>1. CASE g # h
    BY <1>5, <1>6, <2>1 DEF TasksHeldBy
  <2>2. CASE g = h /\ copies = 0
    BY <1>1, <1>6, <2>2
  <2>3. CASE g = h /\ copies # 0
    BY <1>2, <1>5, <2>3
  <2> QED
    BY <2>1, <2>2, <2>3
<1> QED
  BY <1>1, <1>4, <1>5, <1>6, DyingKeepsTasks DEF ExitForFunds, chainVars

-----------------------------------------------------------------------------
(* The node, the queues and the receiptor                                  *)

(* Nothing but the queues and the receiptor moved.                         *)
LEMMA QueuesMoved ==
  ASSUME TasksInv, BagsOK', UNCHANGED <<mined, executed, handler>>, forgotten \subseteq forgotten',
         ReceiptsCarryTheirEvents',
         \A e \in Event \ forgotten' :
           /\ \E task \in BagToSet(sendQueue) \cup BagToSet(unsent) : task.event = e
           /\ e \notin executed
           => Waiting(e)',
         \A e \in Event \ forgotten' :
           /\ \/ \E task \in BagToSet(receiptQueue) \cup BagToSet(unsentReceipts) : task.event = e
              \/ receiptor.pc \in {"asking", "hung"} /\ receiptor.task.event = e
           /\ e \notin executed
           => Waiting(e)'
  PROVE  TasksInv'
<1>1. MinedDone' /\ RunsCarryTheirEvents'
  BY DEF TasksInv, MinedDone, RunsCarryTheirEvents, IsFor
<1>2. ASSUME NEW e \in Event \ (executed' \cup forgotten')
      PROVE  Waiting(e)'
  <2>1. Waiting(e)
    BY <1>2 DEF TasksInv, EverybodyWaits
  <2>2. CASE \E h \in Handler : Owes(handler[h]) /\ handler[h].task.event = e
    BY <2>2 DEF Waiting
  <2> QED
    BY <1>2, <2>1, <2>2 DEF Waiting
<1> QED
  BY <1>1, <1>2 DEF TasksInv, EverybodyWaits

(* The node executes or drops transactions.                                *)
LEMMA NodeKeepsTasks ==
  ASSUME SenderInv, TasksInv, NodeNext
  PROVE  TasksInv'
<1>1. UNCHANGED <<senderVars, receiptVars, forgotten>> /\ executed \subseteq executed'
  BY DEF NodeNext, Mine, DropTx, ExecutedByOthers, historyVars
<1>2. MinedDone'
  <2>1. CASE Mine
    <3>1. Len(mined) \in Nat /\ mined \in Seq([tx : Tx, status : BOOLEAN])
      BY DEF SenderInv, NodeTypeOK
    <3>2. PICK entry : /\ mined' = Append(mined, entry)
                       /\ entry.tx.payload \in executed' \cup {SelfTransfer}
      BY <2>1 DEF Mine
    <3> QED
      BY <1>1, <3>1, <3>2 DEF TasksInv, MinedDone
  <2>2. CASE UNCHANGED mined
    BY <1>1, <2>2 DEF TasksInv, MinedDone
  <2> QED
    BY <2>1, <2>2 DEF NodeNext, DropTx, ExecutedByOthers
<1>3. BagsOK' /\ ReceiptsCarryTheirEvents' /\ RunsCarryTheirEvents'
  BY <1>1 DEF TasksInv, BagsOK, ReceiptsCarryTheirEvents, RunsCarryTheirEvents, IsFor, senderVars,
     receiptVars
<1>4. EverybodyWaits'
  BY <1>1 DEF TasksInv, EverybodyWaits, Waiting, senderVars, receiptVars
<1> QED
  BY <1>2, <1>3, <1>4 DEF TasksInv

(* A callback takes a task out of the queue.                               *)
LEMMA ReceivingKeepsTasks ==
  ASSUME SenderInv, SenderInv', TasksInv, NEW h \in Handler, NEW task \in BagToSet(sendQueue),
         Receive(h, task)
  PROVE  TasksInv'
<1>1. CacheTypeOK /\ BagsOK /\ handler \in [Handler -> Run]
  BY DEF SenderInv, TasksInv, CacheTypeOK
<1>2. /\ UNCHANGED <<mined, executed, unsent, receiptVars, forgotten>>
      /\ sendQueue' = Without(sendQueue, task)
      /\ handler' = [handler EXCEPT ![h] = Held(task)]
  BY DEF Receive, chainVars, historyVars
<1>3. /\ handler'[h] = Held(task) /\ ~Owes(handler[h])
      /\ \A g \in Handler \ {h} : handler'[g] = handler[g]
  BY <1>1, <1>2 DEF Receive, Run, Owes
<1>4. Held(task).pc = "processing" /\ Held(task).task = task /\ Owes(Held(task))
  BY DEF Held, Idle, Owes
<1>5. BagsOK' /\ BagToSet(sendQueue) \subseteq BagToSet(sendQueue') \cup {task}
  BY <1>1, <1>2, WithoutIsABag, WithoutLeaves DEF BagsOK, receiptVars
<1>6. MinedDone' /\ ReceiptsCarryTheirEvents'
  BY <1>2 DEF TasksInv, MinedDone, ReceiptsCarryTheirEvents, IsFor, receiptVars
<1>7. RunsCarryTheirEvents'
  BY <1>2, <1>3, <1>4 DEF TasksInv, RunsCarryTheirEvents, IsFor
<1>8. ASSUME NEW e \in Event \ (executed' \cup forgotten')
      PROVE  Waiting(e)'
  <2>1. Waiting(e)
    BY <1>2, <1>8 DEF TasksInv, EverybodyWaits
  <2>2. CASE task.event = e
    BY <1>3, <1>4, <2>2 DEF Waiting
  <2>3. CASE \E g \in Handler : Owes(handler[g]) /\ handler[g].task.event = e
    BY <1>3, <2>3 DEF Waiting
  <2>4. CASE task.event # e /\ ~ \E g \in Handler : Owes(handler[g]) /\ handler[g].task.event = e
    BY <1>2, <1>5, <2>1, <2>4 DEF Waiting, receiptVars
  <2> QED
    BY <2>2, <2>3, <2>4
<1> QED
  BY <1>5, <1>6, <1>7, <1>8 DEF TasksInv, EverybodyWaits

(* Messages are delivered and received.                                    *)
LEMMA QueuesKeepTasks ==
  ASSUME SenderInv, SenderInv', TasksInv, QueueNext
  PROVE  TasksInv'
<1>1. BagsOK /\ ReceiptsCarryTheirEvents
  BY DEF TasksInv
<1>2. ASSUME NEW task \in BagToSet(unsent), Deliver(task)
      PROVE  TasksInv'
  <2>1. /\ UNCHANGED <<mined, executed, handler, receiptVars, forgotten>>
        /\ unsent' = Without(unsent, task) /\ sendQueue' = With(sendQueue, task)
    BY <1>2 DEF Deliver, chainVars, historyVars
  <2>2. BagsOK' /\ BagToSet(sendQueue') = BagToSet(sendQueue) \cup {task}
        /\ BagToSet(unsent) \subseteq BagToSet(unsent') \cup {task}
    BY <1>1, <2>1, WithoutIsABag, WithoutLeaves, WithIsABag, WithMembers DEF BagsOK, receiptVars
  <2>3. ReceiptsCarryTheirEvents'
    BY <1>1, <2>1 DEF ReceiptsCarryTheirEvents, IsFor, receiptVars
  <2>4. \A e \in Event :
          (\E t \in BagToSet(sendQueue) \cup BagToSet(unsent) : t.event = e) => Waiting(e)'
    BY <2>2 DEF Waiting
  <2>5. \A e \in Event :
          \/ \E t \in BagToSet(receiptQueue) \cup BagToSet(unsentReceipts) : t.event = e
          \/ receiptor.pc \in {"asking", "hung"} /\ receiptor.task.event = e
          => Waiting(e)'
    BY <2>1 DEF Waiting, receiptVars
  <2> QED
    BY <2>1, <2>2, <2>3, <2>4, <2>5, QueuesMoved
<1>3. ASSUME NEW task \in BagToSet(receiptQueue), ReceiveReceipt(task)
      PROVE  TasksInv'
  <2>1. /\ UNCHANGED <<mined, executed, handler, sendQueue, unsent, unsentReceipts, forgotten>>
        /\ receiptQueue' = Without(receiptQueue, task)
        /\ receiptor' = [pc |-> "asking", task |-> task] /\ receiptor.pc = "idle"
    BY <1>3 DEF ReceiveReceipt, chainVars, senderVars, historyVars
  <2>2. BagsOK' /\ BagToSet(receiptQueue) \subseteq BagToSet(receiptQueue') \cup {task}
        /\ BagToSet(receiptQueue') \subseteq BagToSet(receiptQueue)
    BY <1>1, <2>1, WithoutIsABag, WithoutLeaves, WithoutMembers DEF BagsOK
  <2>3. ReceiptsCarryTheirEvents'
    BY <1>1, <1>3, <2>1, <2>2 DEF ReceiptsCarryTheirEvents, IsFor
  <2>4. \A e \in Event :
          (\E t \in BagToSet(sendQueue) \cup BagToSet(unsent) : t.event = e) => Waiting(e)'
    BY <2>1 DEF Waiting
  <2>5. \A e \in Event :
          \/ \E t \in BagToSet(receiptQueue) \cup BagToSet(unsentReceipts) : t.event = e
          \/ receiptor.pc \in {"asking", "hung"} /\ receiptor.task.event = e
          => Waiting(e)'
    BY <2>1, <2>2 DEF Waiting
  <2> QED
    BY <2>1, <2>2, <2>3, <2>4, <2>5, QueuesMoved
<1>4. ASSUME NEW task \in BagToSet(unsentReceipts), DeliverReceipt(task)
      PROVE  TasksInv'
  <2>1. /\ UNCHANGED <<mined, executed, handler, sendQueue, unsent, receiptor, forgotten>>
        /\ unsentReceipts' = Without(unsentReceipts, task)
        /\ receiptQueue' = With(receiptQueue, task)
    BY <1>4 DEF DeliverReceipt, chainVars, senderVars, historyVars
  <2>2. BagsOK' /\ BagToSet(receiptQueue') = BagToSet(receiptQueue) \cup {task}
        /\ BagToSet(unsentReceipts) \subseteq BagToSet(unsentReceipts') \cup {task}
        /\ BagToSet(unsentReceipts') \subseteq BagToSet(unsentReceipts)
    BY <1>1, <2>1, WithoutIsABag, WithoutLeaves, WithoutMembers, WithIsABag, WithMembers DEF BagsOK
  <2>3. ReceiptsCarryTheirEvents'
    BY <1>1, <1>4, <2>1, <2>2 DEF ReceiptsCarryTheirEvents, IsFor
  <2>4. \A e \in Event :
          (\E t \in BagToSet(sendQueue) \cup BagToSet(unsent) : t.event = e) => Waiting(e)'
    BY <2>1 DEF Waiting
  <2>5. \A e \in Event :
          \/ \E t \in BagToSet(receiptQueue) \cup BagToSet(unsentReceipts) : t.event = e
          \/ receiptor.pc \in {"asking", "hung"} /\ receiptor.task.event = e
          => Waiting(e)'
    BY <2>1, <2>2 DEF Waiting
  <2> QED
    BY <2>1, <2>2, <2>3, <2>4, <2>5, QueuesMoved
<1> QED
  BY <1>2, <1>3, <1>4, ReceivingKeepsTasks DEF QueueNext

(* The receiptor confirms, waits for, or sends an event again.             *)
LEMMA ReceiptorKeepsTasks ==
  ASSUME SenderInv, SenderInv', TasksInv, ReceiptorNext
  PROVE  TasksInv'
<1>1. BagsOK /\ ReceiptsCarryTheirEvents /\ receiptor \in ReceiptorRun
  BY DEF TasksInv, SenderInv, QueuesTypeOK
<1>2. UNCHANGED <<mined, executed, handler, unsent>> /\ forgotten \subseteq forgotten'
  BY DEF ReceiptorNext, ConfirmReceipt, WaitForReceipt, ResendEvent, RejectMsg, GetReceiptThrows,
     CrashReceiptor, chainVars, senderVars, historyVars
<1>3. CASE ConfirmReceipt
  <2>1. /\ UNCHANGED <<sendQueue, receiptQueue, unsentReceipts, forgotten>>
        /\ receiptor' = IdleReceiptor /\ receiptor.pc = "asking"
    BY <1>3 DEF ConfirmReceipt, senderVars, historyVars
  <2>2. receiptor.task.event \in executed
    <3> DEFINE tx == receiptor.task.tx
    <3>1. receiptor.task \in ReceiptTask
      BY <1>1, <2>1 DEF ReceiptorRun
    <3>2. tx.nonce \in Nat /\ receiptor.task.event \in Event
      BY <3>1 DEF ReceiptTask, Tx, Nonce
    <3>3. tx.nonce + 1 \in 1..Len(mined) /\ mined[tx.nonce + 1].tx = tx
      BY <1>3, <3>2, CountIsANumber DEF ConfirmReceipt, IsMined, Count, SenderInv
    <3>4. tx.payload \in executed \cup {SelfTransfer}
      BY <3>3 DEF TasksInv, MinedDone
    <3>5. IsFor(receiptor.task.event, tx)
      BY <1>1, <2>1 DEF ReceiptsCarryTheirEvents
    <3> QED
      BY <3>2, <3>4, <3>5, SenderAssumption DEF IsFor
  <2>3. BagsOK' /\ ReceiptsCarryTheirEvents'
    BY <1>1, <1>2, <2>1 DEF BagsOK, ReceiptsCarryTheirEvents, IsFor, IdleReceiptor
  <2> QED
    BY <1>2, <2>1, <2>2, <2>3, QueuesMoved DEF Waiting
<1>4. CASE WaitForReceipt
  <2>1. /\ UNCHANGED <<sendQueue, receiptQueue, forgotten>> /\ receiptor.pc = "asking"
        /\ unsentReceipts' = With(unsentReceipts, receiptor.task) /\ receiptor' = IdleReceiptor
    BY <1>4 DEF WaitForReceipt, senderVars, historyVars
  <2>2. BagsOK' /\ BagToSet(unsentReceipts') = BagToSet(unsentReceipts) \cup {receiptor.task}
    BY <1>1, <1>2, <2>1, WithIsABag, WithMembers DEF BagsOK
  <2>3. ReceiptsCarryTheirEvents'
    BY <1>1, <1>2, <2>1, <2>2 DEF ReceiptsCarryTheirEvents, IsFor, IdleReceiptor
  <2> QED
    BY <1>2, <2>1, <2>2, <2>3, QueuesMoved DEF Waiting
<1>5. CASE ResendEvent
  <2>1. PICK task : sendQueue' = With(sendQueue, task) /\ task.event = receiptor.task.event
    BY <1>5 DEF ResendEvent
  <2>2. /\ UNCHANGED <<receiptQueue, unsentReceipts, forgotten>> /\ receiptor.pc = "asking"
        /\ receiptor'.pc = "rejecting" /\ receiptor'.task = receiptor.task
    BY <1>1, <1>5 DEF ResendEvent, ReceiptorRun
  <2>3. BagsOK' /\ BagToSet(sendQueue') = BagToSet(sendQueue) \cup {task}
    BY <1>1, <1>2, <2>1, <2>2, WithIsABag, WithMembers DEF BagsOK
  <2>4. ReceiptsCarryTheirEvents'
    BY <1>1, <1>2, <2>2 DEF ReceiptsCarryTheirEvents, IsFor
  <2> QED
    BY <1>2, <2>1, <2>2, <2>3, <2>4, QueuesMoved DEF Waiting
<1>6. CASE RejectMsg \/ GetReceiptThrows
  <2>1. /\ UNCHANGED <<sendQueue, receiptQueue, unsentReceipts, forgotten>>
        /\ \/ receiptor.pc = "rejecting" /\ receiptor' = IdleReceiptor
           \/ receiptor'.pc = "hung" /\ receiptor'.task = receiptor.task /\ receiptor.pc = "asking"
    BY <1>1, <1>6 DEF RejectMsg, GetReceiptThrows, ReceiptorRun, senderVars, historyVars
  <2>2. BagsOK' /\ ReceiptsCarryTheirEvents'
    BY <1>1, <1>2, <2>1 DEF BagsOK, ReceiptsCarryTheirEvents, IsFor, IdleReceiptor
  <2> QED
    BY <1>2, <2>1, <2>2, QueuesMoved DEF Waiting
<1>7. CASE CrashReceiptor
  <2>1. /\ UNCHANGED sendQueue
        /\ receiptQueue' = IF receiptor.pc = "idle" THEN receiptQueue
                           ELSE With(receiptQueue, receiptor.task)
        /\ receiptor' = IdleReceiptor /\ unsentReceipts' = EmptyBag
        /\ forgotten' = forgotten \cup {task.event : task \in BagToSet(unsentReceipts)}
    BY <1>7 DEF CrashReceiptor, senderVars
  <2>2. BagsOK'
        /\ BagToSet(receiptQueue') =
             BagToSet(receiptQueue) \cup (IF receiptor.pc = "idle" THEN {} ELSE {receiptor.task})
        /\ BagToSet(unsentReceipts') = {}
    BY <1>1, <1>2, <2>1, WithIsABag, WithMembers, EmptyBagIsABag, EmptyBagMembers DEF BagsOK
  <2>3. ReceiptsCarryTheirEvents'
    BY <1>1, <1>2, <2>1, <2>2 DEF ReceiptsCarryTheirEvents, IsFor, IdleReceiptor
  <2>4. \A e \in Event \ forgotten' :
          \/ \E t \in BagToSet(receiptQueue) \cup BagToSet(unsentReceipts) : t.event = e
          \/ receiptor.pc \in {"asking", "hung"} /\ receiptor.task.event = e
          => Waiting(e)'
    BY <2>1, <2>2 DEF Waiting
  <2>5. \A e \in Event :
          (\E t \in BagToSet(sendQueue) \cup BagToSet(unsent) : t.event = e) => Waiting(e)'
    BY <1>2, <2>1 DEF Waiting
  <2> QED
    BY <1>2, <2>2, <2>3, <2>4, <2>5, QueuesMoved
<1> QED
  BY <1>3, <1>4, <1>5, <1>6, <1>7 DEF ReceiptorNext

(* A step that leaves tasks alone.                                         *)
LEMMA NothingMoved ==
  ASSUME TasksInv, UNCHANGED <<mined, executed, handler, sendQueue, unsent, receiptVars, forgotten>>
  PROVE  TasksInv'
BY DEF TasksInv, BagsOK, MinedDone, ReceiptsCarryTheirEvents, RunsCarryTheirEvents, IsFor,
   EverybodyWaits, Waiting, receiptVars

-----------------------------------------------------------------------------
(* The invariant holds at first.                                           *)
LEMMA TasksInvInit == SenderInit => TasksInv
<1> SUFFICES ASSUME SenderInit PROVE TasksInv
  OBVIOUS
<1>1. BagsOK
  BY BagOfSetIsABag, EmptyBagIsABag DEF SenderInit, BagsOK
<1>2. MinedDone /\ RunsCarryTheirEvents /\ ReceiptsCarryTheirEvents
  BY EmptyBagMembers DEF SenderInit, MinedDone, RunsCarryTheirEvents, ReceiptsCarryTheirEvents,
     Idle, IdleReceiptor
<1>3. ASSUME NEW e \in Event PROVE Waiting(e)
  <2>1. NewTask(e) \in BagToSet(sendQueue) /\ NewTask(e).event = e
    BY BagOfSet DEF SenderInit, NewTask
  <2> QED
    BY <2>1 DEF Waiting
<1> QED
  BY <1>1, <1>2, <1>3 DEF TasksInv, EverybodyWaits

(* Every step keeps it.                                                    *)
LEMMA TasksInvStep == SenderInv /\ SenderInv' /\ TasksInv /\ [SenderNext]_vars => TasksInv'
<1> SUFFICES ASSUME SenderInv, SenderInv', TasksInv, [SenderNext]_vars PROVE TasksInv'
  OBVIOUS
<1>1. CASE NodeNext \/ QueueNext \/ ReceiptorNext
  BY <1>1, NodeKeepsTasks, QueuesKeepTasks, ReceiptorKeepsTasks
<1>2. ASSUME NEW h \in Handler, HandlerNext(h)
      PROVE  TasksInv'
  BY <1>2, CallbackReads, CallbackFills, CallbackSends, CallbackHandsOver, CallbackSettles,
     ExitKeepsTasks DEF HandlerNext
<1>3. CASE SenderFaultNext
  <2>1. ASSUME NEW h \in Handler,
               Disconnect(h) \/ RunThrows(h) \/ NewReceiptTaskThrows(h) \/ SetNonceFails(h)
        PROVE  TasksInv'
    BY <2>1, DisconnectKeepsTasks, CallbackThrows, CallbackReads
  <2>2. CASE ExpireLock
    BY <2>2, NothingMoved DEF ExpireLock, chainVars
  <2> QED
    BY <1>3, <2>1, <2>2, CrashKeepsTasks DEF SenderFaultNext
<1>4. CASE UNCHANGED vars
  BY <1>4, NothingMoved DEF vars, chainVars, senderVars, historyVars
<1> QED
  BY <1>1, <1>2, <1>3, <1>4 DEF SenderNext

(* sender.main.ts acknowledges, rejects and publishes in several orders,   *)
(* receiptor.main.ts in others, and most of the calls are not awaited:     *)
(* still an event that is not executed has a task somewhere, unless it is  *)
(* dropped for the gas limit of a block or was unsent in a dying process.  *)
THEOREM NothingIsForgotten == SenderSpec => []NothingForgotten
<1>1. SenderInv /\ TasksInv => NothingForgotten
  <2> SUFFICES ASSUME SenderInv, TasksInv, NEW e \in Event \ (executed \cup forgotten)
               PROVE  \E task \in EventTasks \cup ReceiptTasks : task.event = e
    BY DEF NothingForgotten
  <2>1. Waiting(e)
    BY DEF TasksInv, EverybodyWaits
  <2>2. \A h \in Handler : Owes(handler[h]) => handler[h].task \in TasksAtWork
    BY DEF SenderInv, CacheTypeOK, Run, Owes, TasksAtWork
  <2> QED
    BY <2>1, <2>2 DEF Waiting, EventTasks, ReceiptTasks
<1>2. SenderInit => SenderInv /\ TasksInv
  BY SenderInvInit, TasksInvInit
<1>3. SenderInv /\ TasksInv /\ [SenderNext]_vars => (SenderInv /\ TasksInv)'
  BY SenderInvStep, TasksInvStep
<1> QED
  BY <1>1, <1>2, <1>3, PTL DEF SenderSpec

-----------------------------------------------------------------------------
(***************************************************************************)
(* Every nonce below the cached one is filled.  Only a dropped transaction *)
(* makes a hole (FilledInv); while nothing went wrong the transaction had  *)
(* a receipt to wait for (WatchedInv), and with that the hole is pursued:  *)
(* the receipt is given up, the event resent with its nonce, until some    *)
(* transaction fills it.                                                   *)
(***************************************************************************)

(* No two faults have happened.                                            *)
Single == \A f, g \in faults : f = g

Told == {"success", "txImported", "sendDummyTxToFillNonce"}
AfterChoice == {"sending", "receipting", "updating", "setting", "settling"}

(* The tasks in the sender's queue, on their way to it or not, and those   *)
(* of the receiptor until it has resent their event.                       *)
QueuedTasks == BagToSet(sendQueue) \cup BagToSet(unsent)
LiveReceipts ==
  BagToSet(receiptQueue) \cup BagToSet(unsentReceipts) \cup
  (IF receiptor.pc \in {"asking", "hung"} THEN {receiptor.task} ELSE {})

(* A task that will be sent, or put back, with the nonce it has.           *)
Retries(task, n) == task.retry /\ task.nonce = n
RunPursues(run, n) ==
  \/ run.pc # "idle" /\ Retries(run.task, n) /\ run.result \notin Told \cup {"nonceTooLow"}
  \/ run.pc = "receipting" /\ run.tx.nonce = n
Pursued(n) ==
  \/ \E task \in QueuedTasks : Retries(task, n)
  \/ \E h \in Handler : RunPursues(handler[h], n)
  \/ \E task \in LiveReceipts : task.tx.nonce = n

Covered(n) == pool[n] # NoTx \/ ("drop" \in faults /\ (Pursued(n) \/ ~Single))
FilledBelow(m) == \A n \in Nonce : Count <= n /\ n < m => Covered(n)

(* The nonces anybody may take, or say he took.                            *)
RunUses(run, m) ==
  \/ run.pc \in AfterChoice /\ m = run.nonce
  \/ run.pc = "receipting" /\ m = run.tx.nonce + 1
  \/ run.pc # "idle" /\ m = run.task.nonce /\ m # NoNonce
Used(m) ==
  \/ m = cachedNonce /\ m # NoNonce
  \/ \E h \in Handler : RunUses(handler[h], m)
  \/ \E task \in QueuedTasks : m = task.nonce /\ m # NoNonce
  \/ \E task \in LiveReceipts : m = task.tx.nonce + 1
  \/ receiptor.pc # "idle" /\ m = receiptor.task.tx.nonce + 1
  \/ m \in Nonce /\ pool[m] # NoTx
Reach == 0..(MaxNonce + 1)
FilledInv == \A m \in Reach : Used(m) => FilledBelow(m)

Watched(tx) ==
  \/ \E h \in Handler : handler[h].pc = "receipting" /\ handler[h].tx = tx
  \/ \E task \in LiveReceipts : task.tx = tx
WatchedInv == faults = {} => \A n \in Nonce : pool[n] # NoTx => Watched(pool[n])

NodeOK ==
  /\ Count \in Reach
  /\ \A n \in Nonce : pool[n] # NoTx => pool[n].nonce = n /\ n >= Count
  /\ \A i \in 1..Count : mined[i].tx.nonce = i - 1

(* What a callback has heard from the node, and which fault that means.    *)
RunOK(run) ==
  /\ run.nonce \in Reach
  /\ run.result = "insufficientFunds" => "funds" \in faults
  /\ run.result = "blockGasLimitExceeded" => "gasLimit" \in faults
  /\ run.pc = "receipting" => run.result \in Told
  /\ run.pc \in {"processing", "filling", "locking", "sending"} => run.result = "none"
  /\ run.pc \in {"updating", "setting", "settling"} => run.result # "none"
  /\ run.pc = "filling" => run.task.retry
  /\ run.pc \in {"processing", "filling", "locking"} => run.nonce = 0
  /\ run.pc = "sending" /\ run.task.retry /\ run.task.nonce # NoNonce =>
       run.nonce = run.task.nonce \/ run.task.nonce < Count
  /\ run.pc = "receipting" /\ run.result # "sendDummyTxToFillNonce" => run.tx.nonce = run.nonce

FaultsOK ==
  /\ faults \subseteq Faults
  /\ receiptor.pc = "hung" => "receiptError" \in faults

NonceInv ==
  /\ NodeOK /\ FaultsOK
  /\ cachedNonce \in Reach \cup {NoNonce}
  /\ \A h \in Handler : RunOK(handler[h])
  /\ FilledInv /\ WatchedInv

-----------------------------------------------------------------------------
(* What a step does to a callback                                          *)

(* It has an answer of the node.                                           *)
LEMMA AnswerLeaves ==
  ASSUME CacheTypeOK, NEW h \in Handler, NEW pc, NEW tx, NEW nonce, NEW result,
         Answered(h, pc, tx, nonce, result)
  PROVE  /\ handler'[h].pc = pc /\ handler'[h].tx = tx /\ handler'[h].nonce = nonce
         /\ handler'[h].result = result
         /\ handler'[h].task = handler[h].task /\ handler'[h].held = handler[h].held
BY DEF Answered, CacheTypeOK, Run

(* It chooses its nonce.                                                   *)
LEMMA ChoiceLeaves ==
  ASSUME SenderInv, NEW h \in Handler, LockAndChooseNonce(h)
  PROVE  /\ handler[h].pc = "locking" /\ handler'[h].pc = "sending"
         /\ handler'[h].task = handler[h].task /\ handler'[h].held = handler[h].held
         /\ handler'[h].tx = handler[h].tx /\ handler'[h].result = handler[h].result
         /\ IF IsRetryOf(handler[h].task, Count)
            THEN handler'[h].nonce = handler[h].task.nonce
            ELSE \/ handler'[h].nonce = ReadNonce /\ faults' = faults
                 \/ handler'[h].nonce = Count /\ Happens("redis")
         /\ faults' = faults \/ Happens("redis")
<1> DEFINE k == IF IsRetryOf(handler[h].task, Count) THEN handler[h].task.nonce ELSE ReadNonce
           l == IF IsRetryOf(handler[h].task, Count) THEN handler[h].task.nonce ELSE Count
<1>1. \/ handler' = [handler EXCEPT ![h].pc = "sending", ![h].nonce = k] /\ faults' = faults
      \/ handler' = [handler EXCEPT ![h].pc = "sending", ![h].nonce = l] /\ Happens("redis")
  BY DEF LockAndChooseNonce
<1>2. handler \in [Handler -> Run] /\ handler[h].pc = "locking"
  BY DEF SenderInv, CacheTypeOK, LockAndChooseNonce
<1>3. PICK n \in {k, l} :
        /\ handler' = [handler EXCEPT ![h].pc = "sending", ![h].nonce = n]
        /\ (n = k /\ faults' = faults) \/ (n = l /\ Happens("redis"))
  BY <1>1
<1> HIDE DEF k, l
<1>4. /\ handler'[h].pc = "sending" /\ handler'[h].nonce = n
      /\ handler'[h].task = handler[h].task /\ handler'[h].held = handler[h].held
      /\ handler'[h].tx = handler[h].tx /\ handler'[h].result = handler[h].result
  BY <1>2, <1>3 DEF Run
<1> QED
  BY <1>2, <1>3, <1>4 DEF k, l

(* It goes on to another place.                                            *)
LEMMA MoveLeaves ==
  ASSUME CacheTypeOK, NEW h \in Handler, NEW pc, handler' = [handler EXCEPT ![h].pc = pc]
  PROVE  /\ handler'[h].pc = pc /\ handler'[h].task = handler[h].task
         /\ handler'[h].held = handler[h].held /\ handler'[h].result = handler[h].result
         /\ handler'[h].tx = handler[h].tx /\ handler'[h].nonce = handler[h].nonce
BY DEF CacheTypeOK, Run

(* It fills a nonce.                                                       *)
SelfTx(h) == [payload |-> SelfTransfer, nonce |-> handler[h].task.nonce, price |-> BasePrice]
(* The node takes its own transaction, has it, or has another.             *)
LEMMA FillLeaves ==
  ASSUME SenderInv, NEW h \in Handler, SendToSelf(h)
  PROVE  /\ handler[h].pc = "filling"
         /\ \/ /\ TakeIn(SelfTx(h)) \/ (Knows(SelfTx(h)) /\ UNCHANGED pool)
               /\ handler'[h].pc = "receipting" /\ handler'[h].tx = SelfTx(h)
               /\ handler'[h].task = handler[h].task /\ handler'[h].held = handler[h].held
               /\ handler'[h].nonce = handler[h].nonce
               /\ handler'[h].result = "sendDummyTxToFillNonce"
               /\ UNCHANGED <<unsent, faults>>
            \/ /\ ~Accepts(SelfTx(h)) /\ ~Knows(SelfTx(h))
               /\ handler'[h] = Idle /\ UNCHANGED <<pool, faults>>
               /\ unsent' = unsent \/ unsent' = With(unsent, handler[h].task)
            \/ /\ TimesOut(SelfTx(h)) /\ handler'[h] = Idle
               /\ unsent' = With(unsent, handler[h].task)
<1> DEFINE tx == SelfTx(h)
<1>1. handler \in [Handler -> Run] /\ handler[h].pc = "filling"
  BY DEF SenderInv, CacheTypeOK, SendToSelf
<1>2. ASSUME handler' = [handler EXCEPT ![h].pc = "receipting", ![h].tx = tx,
                                        ![h].result = "sendDummyTxToFillNonce"]
      PROVE  /\ handler'[h].pc = "receipting" /\ handler'[h].tx = tx
             /\ handler'[h].task = handler[h].task /\ handler'[h].held = handler[h].held
             /\ handler'[h].nonce = handler[h].nonce
             /\ handler'[h].result = "sendDummyTxToFillNonce"
  <2> HIDE DEF tx
  <2> QED
    BY <1>1, <1>2 DEF Run
<1>3. handler' = [handler EXCEPT ![h] = Idle] => handler'[h] = Idle
  BY <1>1
<1>4. \/ /\ TakeIn(tx) \/ (Knows(tx) /\ UNCHANGED pool)
         /\ handler' = [handler EXCEPT ![h].pc = "receipting", ![h].tx = tx,
                                        ![h].result = "sendDummyTxToFillNonce"]
         /\ UNCHANGED <<unsent, faults>>
      \/ /\ ~Accepts(tx) /\ ~Knows(tx)
         /\ handler' = [handler EXCEPT ![h] = Idle] /\ UNCHANGED <<pool, faults>>
         /\ unsent' = unsent \/ unsent' = With(unsent, handler[h].task)
      \/ /\ TimesOut(tx) /\ handler' = [handler EXCEPT ![h] = Idle]
         /\ unsent' = With(unsent, handler[h].task)
  BY DEF SendToSelf, AckMsg, Requeue, SelfTx, Occupied
<1> HIDE DEF tx
<1> QED
  BY <1>1, <1>2, <1>3, <1>4 DEF tx

(* The node answers its transaction.                                       *)
EventTx(h, price) ==
  [payload |-> handler[h].task.event, nonce |-> handler[h].nonce, price |-> price]
SendAnswer(h, tx) ==
  \/ /\ (TakeIn(tx) /\ handler'[h].result = "success")
        \/ (Knows(tx) /\ UNCHANGED pool /\ handler'[h].result = "txImported")
     /\ handler'[h].pc = "receipting" /\ handler'[h].tx = tx
     /\ handler'[h].nonce = handler[h].nonce /\ UNCHANGED faults
  \/ /\ ~Accepts(tx) /\ ~Knows(tx) /\ UNCHANGED <<pool, faults>>
     /\ handler'[h].pc = "updating" /\ handler'[h].nonce = Count
     /\ handler'[h].result = "nonceTooLow"
  \/ /\ handler'[h].pc = "updating" /\ handler'[h].nonce = handler[h].nonce
     /\ \/ /\ ~Accepts(tx) /\ ~Knows(tx) /\ handler'[h].result = "failed"
           /\ UNCHANGED <<pool, faults>>
        \/ TimesOut(tx) /\ handler'[h].result = "timeout"
        \/ Happens("refused") /\ handler'[h].result = "failed" /\ UNCHANGED pool
        \/ Happens("funds") /\ handler'[h].result = "insufficientFunds" /\ UNCHANGED pool
        \/ Happens("gasLimit") /\ handler'[h].result = "blockGasLimitExceeded" /\ UNCHANGED pool
(* It goes on with the answer, and has heard which fault there was.        *)
LEMMA SendLeaves ==
  ASSUME SenderInv, NEW h \in Handler, NEW price \in Price, SendTransaction(h, price)
  PROVE  /\ handler[h].pc = "sending" /\ handler[h].nonce \in Nonce
         /\ handler'[h].task = handler[h].task /\ handler'[h].held = handler[h].held
         /\ price \in GasPrices(handler[h].task)
         /\ SendAnswer(h, EventTx(h, price))
<1> DEFINE tx == EventTx(h, price)
           n == handler[h].nonce
<1>1. CacheTypeOK
  BY DEF SenderInv
<1>2. /\ handler[h].pc = "sending" /\ n \in Nonce /\ price \in GasPrices(handler[h].task)
      /\ \/ /\ TakeIn(tx)
            /\ Answered(h, "receipting", tx, n, "success") /\ UNCHANGED faults
         \/ /\ Knows(tx)
            /\ Answered(h, "receipting", tx, n, "txImported") /\ UNCHANGED <<pool, faults>>
         \/ /\ ~Accepts(tx) /\ ~Knows(tx)
            /\ Answered(h, "updating", NoTx, Count, "nonceTooLow") /\ UNCHANGED <<pool, faults>>
         \/ /\ ~Accepts(tx) /\ ~Knows(tx)
            /\ Answered(h, "updating", NoTx, n, "failed") /\ UNCHANGED <<pool, faults>>
         \/ /\ TimesOut(tx)
            /\ Answered(h, "updating", NoTx, n, "timeout")
         \/ /\ Happens("refused") /\ UNCHANGED pool
            /\ Answered(h, "updating", NoTx, n, "failed")
         \/ /\ Happens("funds") /\ UNCHANGED pool
            /\ Answered(h, "updating", NoTx, n, "insufficientFunds")
         \/ /\ Happens("gasLimit") /\ UNCHANGED pool
            /\ Answered(h, "updating", NoTx, n, "blockGasLimitExceeded")
  BY DEF SendTransaction, EventTx, Occupied
<1> HIDE DEF tx, n
<1>3. \A pc, t, k, result :
        Answered(h, pc, t, k, result) =>
          /\ handler'[h].pc = pc /\ handler'[h].tx = t /\ handler'[h].nonce = k
          /\ handler'[h].result = result
          /\ handler'[h].task = handler[h].task /\ handler'[h].held = handler[h].held
  BY <1>1, AnswerLeaves
<1>4. handler'[h].task = handler[h].task /\ handler'[h].held = handler[h].held
  BY <1>2, <1>3
<1>5. SendAnswer(h, tx)
  BY <1>2, <1>3 DEF SendAnswer, n
<1> QED
  BY <1>2, <1>4, <1>5 DEF tx, n

-----------------------------------------------------------------------------
(* Faults                                                                  *)

(* A fault that is the only one was the first.                             *)
LEMMA FirstFault ==
  ASSUME NEW kind, Happens(kind), Single'
  PROVE  faults = {} /\ faults' = {kind}
BY DEF Happens, Single

(* A step brings a new fault or none.                                      *)
FaultStep == faults' = faults \/ \E kind \in Faults : Happens(kind)
(* Every step is of that kind.                                             *)
LEMMA FaultsGrow ==
  ASSUME SenderNext
  PROVE  FaultStep
<1>1. \A kind : Happens(kind) => FaultStep
  BY DEF Happens, FaultStep
<1>2. CASE NodeNext \/ QueueNext \/ ReceiptorNext
  BY <1>1, <1>2 DEF NodeNext, QueueNext, ReceiptorNext, Mine, DropTx, ExecutedByOthers, Receive,
     Deliver, ReceiveReceipt, DeliverReceipt, ConfirmReceipt, WaitForReceipt, ResendEvent,
     RejectMsg, GetReceiptThrows, CrashReceiptor, historyVars, FaultStep
<1>3. CASE SenderFaultNext
  BY <1>1, <1>3 DEF SenderFaultNext, CrashSender, ExpireLock, Disconnect, RunThrows,
     NewReceiptTaskThrows, SetNonceFails, FaultStep
<1>4. ASSUME NEW h \in Handler, HandlerNext(h) PROVE FaultStep
  BY <1>1, <1>4 DEF HandlerNext, SkipEvent, ProcessEventTask, LockAndChooseNonce, SendToSelf, TimesOut,
     SendTransaction, EnqueueReceipt, ReadOldNonce, SetNonce, Settle, ExitForFunds, historyVars,
     FaultStep
<1> QED
  BY <1>2, <1>3, <1>4 DEF SenderNext

-----------------------------------------------------------------------------
(* Holes                                                                   *)

(* A nonce stays covered when its transaction does, or when after a drop   *)
(* alone somebody still pursues it.                                        *)
LEMMA CoveredStays ==
  ASSUME FaultStep, NEW n \in Nonce, Covered(n),
         pool[n] # NoTx => pool'[n] # NoTx,
         faults' = faults /\ faults = {"drop"} /\ Pursued(n) => pool'[n] # NoTx \/ Pursued(n)'
  PROVE  Covered(n)'
<1>1. CASE pool[n] # NoTx
  BY <1>1 DEF Covered
<1>2. CASE "drop" \in faults /\ (Pursued(n) \/ ~Single)
  <2>1. faults \subseteq faults'
    BY DEF FaultStep, Happens
  <2>2. ~Single => ~Single'
    BY <2>1 DEF Single
  <2>3. ASSUME Single' PROVE pool'[n] # NoTx \/ Pursued(n)'
    <3>1. faults' = faults
      BY <1>2, <2>3, FirstFault DEF FaultStep
    <3>2. faults = {"drop"}
      BY <1>2, <2>2, <2>3 DEF Single
    <3> QED
      BY <1>2, <2>2, <2>3, <3>1, <3>2
  <2> QED
    BY <1>2, <2>1, <2>3 DEF Covered
<1> QED
  BY <1>1, <1>2 DEF Covered

(* What is filled stays so, and what is used next is filled.               *)
CoverStep == \A n \in Nonce : Count' <= n /\ Covered(n) => Covered(n)'
UseStep ==
  \A m \in Reach :
    Used(m)' =>
      \/ Used(m)
      \/ FilledBelow(m)
      \/ m - 1 \in Nonce /\ Used(m - 1) /\ pool'[m - 1] # NoTx
(* Then all that may be used is filled up to there, as before.             *)
LEMMA FilledStays ==
  ASSUME FilledInv, Count \in Nat, Count' \in Nat, Count <= Count', CoverStep, UseStep
  PROVE  FilledInv'
<1>1. \A m \in Reach : FilledBelow(m) => FilledBelow(m)'
  BY DEF FilledBelow, Nonce, Reach, CoverStep
<1>2. ASSUME NEW m \in Reach, Used(m)'
      PROVE  FilledBelow(m)'
  <2>1. CASE Used(m) \/ FilledBelow(m)
    BY <1>1, <2>1 DEF FilledInv
  <2>2. CASE m - 1 \in Nonce /\ Used(m - 1) /\ pool'[m - 1] # NoTx
    <3>1. m - 1 \in Reach
      BY <2>2, SenderAssumption DEF Nonce, Reach
    <3>2. FilledBelow(m - 1)'
      BY <1>1, <2>2, <3>1 DEF FilledInv
    <3>3. Covered(m - 1)'
      BY <2>2 DEF Covered
    <3>4. \A n \in Nonce : n < m => n < m - 1 \/ n = m - 1
      BY SenderAssumption DEF Nonce, Reach
    <3> QED
      BY <3>2, <3>3, <3>4 DEF FilledBelow
  <2> QED
    BY <1>2, <2>1, <2>2 DEF UseStep
<1> QED
  BY <1>2 DEF FilledInv

(* One callback took a step.                                               *)
LEMMA OneCallback ==
  ASSUME NonceInv, NEW h \in Handler, OnlyRun(h), UNCHANGED <<mined, receiptor>>, FaultStep,
         \A n \in Nonce :
           \/ pool'[n] = pool[n]
           \/ /\ pool'[n] # NoTx /\ pool'[n].nonce = n /\ n >= Count /\ RunUses(handler[h], n)
              /\ faults' = {} => handler'[h].pc = "receipting" /\ handler'[h].tx = pool'[n],
         QueuedTasks \subseteq QueuedTasks',
         \A task \in QueuedTasks' :
           task \in QueuedTasks \/ (handler[h].pc # "idle" /\ task.nonce \in {NoNonce, handler[h].task.nonce}),
         LiveReceipts \subseteq LiveReceipts',
         \A task \in LiveReceipts' :
           task \in LiveReceipts \/ (handler[h].pc = "receipting" /\ task.tx = handler[h].tx),
         cachedNonce' = cachedNonce \/ (handler[h].pc \in AfterChoice /\ cachedNonce' = handler[h].nonce),
         \A m \in Reach : RunUses(handler'[h], m) =>
           \/ RunUses(handler[h], m) \/ FilledBelow(m)
           \/ m - 1 \in Nonce /\ RunUses(handler[h], m - 1) /\ pool'[m - 1] # NoTx,
         \A n \in Nonce :
           Count <= n /\ faults' = faults /\ faults = {"drop"} /\ RunPursues(handler[h], n) =>
             \/ pool'[n] # NoTx \/ RunPursues(handler'[h], n)
             \/ \E task \in QueuedTasks' : Retries(task, n)
             \/ \E task \in LiveReceipts' : task.tx.nonce = n,
         faults' = {} /\ handler[h].pc = "receipting" =>
           \E task \in LiveReceipts' : task.tx = handler[h].tx,
         RunOK(handler[h])'
  PROVE  NonceInv'
<1>1. Count' = Count /\ Count \in Nat /\ faults \subseteq faults' /\ Count' \in Nat
  BY DEF NonceInv, NodeOK, Reach, Count, FaultStep, Happens
<1>2. \A g \in Handler \ {h} : handler'[g] = handler[g]
  BY DEF OnlyRun
<1>3. NodeOK'
  <2>1. \A n \in Nonce : pool'[n] # NoTx => pool'[n].nonce = n /\ n >= Count'
    BY <1>1 DEF NonceInv, NodeOK
  <2> QED
    BY <1>1, <2>1 DEF NonceInv, NodeOK, Count
<1>4. FaultsOK'
  BY DEF NonceInv, FaultsOK, FaultStep, Happens
<1>5. ASSUME NEW g \in Handler PROVE RunOK(handler[g])'
  <2>1. CASE g # h
    <3>1. handler'[g] = handler[g] /\ RunOK(handler[g])
      BY <1>2, <2>1 DEF NonceInv
    <3> QED
      BY <1>1, <3>1 DEF RunOK
  <2> QED
    BY <2>1
<1>6. cachedNonce' \in Reach \cup {NoNonce}
  BY DEF NonceInv, RunOK
<1>7. FilledInv'
  <2>1. ASSUME NEW n \in Nonce, Count' <= n, Covered(n) PROVE Covered(n)'
    <3>1. pool[n] # NoTx => pool'[n] # NoTx
      OBVIOUS
    <3>2. ASSUME faults' = faults, faults = {"drop"}, Pursued(n), pool'[n] = NoTx
          PROVE  Pursued(n)'
      <4>1. CASE \E task \in QueuedTasks : Retries(task, n)
        BY <4>1 DEF Pursued
      <4>2. CASE \E task \in LiveReceipts : task.tx.nonce = n
        BY <4>2 DEF Pursued
      <4>3. CASE \E g \in Handler \ {h} : RunPursues(handler[g], n)
        BY <1>2, <4>3 DEF Pursued
      <4>4. CASE RunPursues(handler[h], n)
        BY <1>1, <2>1, <3>2, <4>4 DEF Pursued
      <4> QED
        BY <3>2, <4>1, <4>2, <4>3, <4>4 DEF Pursued
    <3> QED
      BY <2>1, <3>1, <3>2, CoveredStays
  <2>2. ASSUME NEW m \in Reach, Used(m)'
        PROVE  \/ Used(m) \/ FilledBelow(m)
               \/ m - 1 \in Nonce /\ Used(m - 1) /\ pool'[m - 1] # NoTx
    <3>1. CASE m = cachedNonce' /\ m # NoNonce
      BY <3>1 DEF Used, RunUses
    <3>2. CASE \E g \in Handler \ {h} : RunUses(handler'[g], m)
      BY <1>2, <3>2 DEF Used
    <3>3. CASE RunUses(handler'[h], m)
      BY <3>3 DEF Used
    <3>4. CASE \E task \in QueuedTasks' : m = task.nonce /\ m # NoNonce
      BY <3>4 DEF Used, RunUses
    <3>5. CASE \E task \in LiveReceipts' : m = task.tx.nonce + 1
      BY <3>5 DEF Used, RunUses
    <3>6. CASE m \in Nonce /\ pool'[m] # NoTx
      BY <3>6 DEF Used
    <3>7. CASE receiptor.pc # "idle" /\ m = receiptor.task.tx.nonce + 1
      BY <3>7 DEF Used
    <3> QED
      BY <2>2, <3>1, <3>2, <3>3, <3>4, <3>5, <3>6, <3>7 DEF Used
  <2>3. FilledInv
    BY DEF NonceInv
  <2>4. CoverStep
    BY <2>1 DEF CoverStep
  <2>5. UseStep
    BY <2>2 DEF UseStep
  <2> QED
    BY <1>1, <2>3, <2>4, <2>5, FilledStays
<1>8. WatchedInv'
  <2> SUFFICES ASSUME faults' = {}, NEW n \in Nonce, NEW tx, tx = pool'[n], tx # NoTx
               PROVE  \/ \E g \in Handler : handler'[g].pc = "receipting" /\ handler'[g].tx = tx
                      \/ \E task \in LiveReceipts' : task.tx = tx
    BY DEF WatchedInv, Watched
  <2>1. CASE pool'[n] = pool[n]
    <3>1. \/ \E g \in Handler : handler[g].pc = "receipting" /\ handler[g].tx = tx
          \/ \E task \in LiveReceipts : task.tx = tx
      BY <1>1, <2>1 DEF NonceInv, WatchedInv, Watched
    <3>2. CASE \E g \in Handler \ {h} : handler[g].pc = "receipting" /\ handler[g].tx = tx
      BY <1>2, <3>2
    <3>3. CASE handler[h].pc = "receipting" /\ handler[h].tx = tx
      BY <3>3
    <3>4. CASE \E task \in LiveReceipts : task.tx = tx
      BY <3>4
    <3> QED
      BY <3>1, <3>2, <3>3, <3>4
  <2>2. CASE pool'[n] # pool[n]
    BY <2>2
  <2> QED
    BY <2>1, <2>2
<1> QED
  BY <1>3, <1>4, <1>5, <1>6, <1>7, <1>8 DEF NonceInv

(* One callback took a step that the node and the receiptor do not see.    *)
Put(h) ==
  \/ UNCHANGED unsent
  \/ \E task : unsent' = With(unsent, task) /\ task.nonce \in {NoNonce, handler[h].task.nonce}
(* That is enough when it uses and pursues only what it did.               *)
LEMMA QuietCallback ==
  ASSUME NonceInv, NEW h \in Handler, OnlyRun(h), FaultStep, handler[h].pc # "idle",
         UNCHANGED <<mined, pool, receiptVars, sendQueue>>, Put(h),
         cachedNonce' = cachedNonce \/ (handler[h].pc \in AfterChoice /\ cachedNonce' = handler[h].nonce),
         \A m \in Reach : RunUses(handler'[h], m) => RunUses(handler[h], m) \/ FilledBelow(m),
         \A n \in Nonce :
           Count <= n /\ faults' = faults /\ faults = {"drop"} /\ RunPursues(handler[h], n) =>
             RunPursues(handler'[h], n) \/ \E task \in QueuedTasks' : Retries(task, n),
         faults' # {} \/ handler[h].pc # "receipting",
         RunOK(handler[h])'
  PROVE  NonceInv'
<1>1. /\ QueuedTasks \subseteq QueuedTasks'
      /\ \A task \in QueuedTasks' :
           task \in QueuedTasks \/ task.nonce \in {NoNonce, handler[h].task.nonce}
  <2>1. CASE UNCHANGED unsent
    BY <2>1 DEF QueuedTasks
  <2>2. ASSUME NEW task, unsent' = With(unsent, task), task.nonce \in {NoNonce, handler[h].task.nonce}
        PROVE  <1>1!1 /\ <1>1!2
    BY <2>2, WithMembers DEF QueuedTasks
  <2> QED
    BY <2>1, <2>2 DEF Put
<1>2. LiveReceipts' = LiveReceipts /\ UNCHANGED <<receiptor, pool>>
  BY DEF LiveReceipts, receiptVars
<1> QED
  BY <1>1, <1>2, OneCallback

(* A callback that ended uses and pursues nothing.                         *)
LEMMA IdleUsesNothing ==
  /\ \A m : ~RunUses(Idle, m)
  /\ RunOK(Idle)'
BY SenderAssumption DEF RunUses, Idle, AfterChoice, RunOK, Reach

(* What is known of a callback at work.                                    *)
LEMMA AtWork ==
  ASSUME SenderInv, NonceInv, NEW h \in Handler, handler[h].pc # "idle"
  PROVE  /\ CacheTypeOK /\ handler \in [Handler -> Run] /\ handler[h] \in Run
         /\ handler[h].task \in EventTask
         /\ RunOK(handler[h]) /\ handler[h].nonce \in Reach
         /\ Count \in Nat /\ Count \in Reach
BY TaskAtWork DEF SenderInv, CacheTypeOK, NonceInv, RunOK, NodeOK, Reach

(* A callback goes on to another place.                                    *)
LEMMA GoingOnInv ==
  ASSUME SenderInv, SenderInv', NonceInv, NEW h \in Handler,
         SkipEvent(h) \/ ProcessEventTask(h) \/ ReadOldNonce(h) \/ SetNonce(h) \/ SetNonceFails(h)
  PROVE  NonceInv'
<1>1. /\ handler[h].pc # "idle" /\ handler[h].pc # "receipting"
      /\ UNCHANGED <<mined, pool, receiptVars, sendQueue>>
      /\ Put(h) /\ FaultStep
      /\ cachedNonce' = cachedNonce \/ (handler[h].pc \in AfterChoice /\ cachedNonce' = handler[h].nonce)
  BY SenderAssumption DEF SkipEvent, ProcessEventTask, ReadOldNonce, SetNonce, SetNonceFails, AckMsg,
     chainVars, historyVars, Put, FaultStep, Happens, AfterChoice, redisVars
<1>2. CacheTypeOK /\ handler \in [Handler -> Run] /\ RunOK(handler[h]) /\ Count' = Count
      /\ handler[h].task \in EventTask
  BY <1>1, AtWork DEF Count
<1>3. OnlyRun(h)
  BY CallbackMoves DEF HandlerNext, SkipEvent, ProcessEventTask, ReadOldNonce, SetNonce, ExitForFunds
<1>4. CASE SkipEvent(h) /\ ~IsRetryOf(handler[h].task, Count)
  <2>1. handler'[h] = Idle
    BY <1>2, <1>4 DEF SkipEvent, AckMsg
  <2>2. \A n \in Nonce : Count <= n => ~RunPursues(handler[h], n)
    BY <1>4, <1>1, SenderAssumption DEF RunPursues, Retries, IsRetryOf, Nonce
  <2>3. /\ \A m \in Reach : ~RunUses(handler'[h], m)
        /\ RunOK(handler[h])'
    BY <2>1, IdleUsesNothing
  <2> QED
    BY <1>1, <1>3, <2>2, <2>3, QuietCallback
<1>5. CASE \/ SkipEvent(h) /\ IsRetryOf(handler[h].task, Count)
           \/ ProcessEventTask(h) \/ ReadOldNonce(h) \/ SetNonce(h) \/ SetNonceFails(h)
  <2>1. PICK pc :
          /\ handler' = [handler EXCEPT ![h].pc = pc]
          /\ \/ /\ handler[h].pc = "processing" /\ pc \in {"filling", "locking"}
                /\ pc = "filling" => handler[h].task.retry
             \/ handler[h].pc \in {"updating", "setting"} /\ pc \in {"setting", "settling"}
    BY <1>5 DEF SkipEvent, ProcessEventTask, ReadOldNonce, SetNonce, SetNonceFails, IsRetryOf
  <2>2. /\ handler'[h].pc = pc /\ handler'[h].task = handler[h].task
        /\ handler'[h].result = handler[h].result
        /\ handler'[h].tx = handler[h].tx /\ handler'[h].nonce = handler[h].nonce
    BY <1>2, <2>1, MoveLeaves
  <2>3. \A m : RunUses(handler'[h], m) => RunUses(handler[h], m)
    BY <2>1, <2>2 DEF RunUses, AfterChoice
  <2>4. \A n : RunPursues(handler[h], n) => RunPursues(handler'[h], n)
    BY <2>1, <2>2 DEF RunPursues
  <2>5. faults \subseteq faults'
    BY <1>1 DEF FaultStep, Happens
  <2>6. RunOK(handler[h])'
    BY <1>2, <2>1, <2>2, <2>5 DEF RunOK
  <2> QED
    BY <1>1, <1>3, <2>3, <2>4, <2>6, QuietCallback
<1> QED
  BY <1>4, <1>5

(* A callback chooses its nonce: the one of its task, the cached one, or   *)
(* the one the chain expects.                                              *)
LEMMA ChoosingInv ==
  ASSUME SenderInv, SenderInv', NonceInv, NEW h \in Handler, LockAndChooseNonce(h)
  PROVE  NonceInv'
<1>1. /\ handler[h].pc = "locking"
      /\ UNCHANGED <<mined, pool, receiptVars, sendQueue, cachedNonce>>
      /\ Put(h) /\ FaultStep
  BY DEF LockAndChooseNonce, chainVars, Put, FaultStep, Happens
<1>2. CacheTypeOK /\ handler \in [Handler -> Run] /\ RunOK(handler[h]) /\ Count' = Count
      /\ handler[h].task \in EventTask /\ Count \in Reach /\ Count \in Nat
  BY <1>1, AtWork DEF Count
<1>3. OnlyRun(h)
  BY CallbackMoves DEF HandlerNext, LockAndChooseNonce, ExitForFunds
<1>4. /\ handler'[h].pc = "sending" /\ handler'[h].task = handler[h].task
      /\ handler'[h].tx = handler[h].tx /\ handler'[h].result = handler[h].result
  BY ChoiceLeaves
<1>5. handler'[h].nonce \in Reach /\
      \/ IsRetryOf(handler[h].task, Count) /\ handler'[h].nonce = handler[h].task.nonce
      \/ ~IsRetryOf(handler[h].task, Count) /\
           (handler'[h].nonce = Count \/ (cachedNonce # NoNonce /\ handler'[h].nonce = cachedNonce))
  <2>1. CASE IsRetryOf(handler[h].task, Count)
    BY <1>2, <2>1, ChoiceLeaves, SenderAssumption DEF IsRetryOf, EventTask, Nonce, Reach
  <2>2. CASE ~IsRetryOf(handler[h].task, Count)
    <3>1. handler'[h].nonce \in {ReadNonce, Count}
      BY <2>2, ChoiceLeaves
    <3>2. ReadNonce = Count \/ (cachedNonce # NoNonce /\ ReadNonce = cachedNonce /\ cachedNonce \in Reach)
      BY DEF ReadNonce, NonceInv
    <3> QED
      BY <1>2, <2>2, <3>1, <3>2
  <2> QED
    BY <2>1, <2>2
<1>6. FilledBelow(Count)
  BY <1>2 DEF FilledBelow, Nonce
<1>7. cachedNonce # NoNonce => FilledBelow(cachedNonce)
  BY DEF NonceInv, FilledInv, Used
<1>8. \A m \in Reach : RunUses(handler'[h], m) => RunUses(handler[h], m) \/ FilledBelow(m)
  <2>1. IsRetryOf(handler[h].task, Count) => handler[h].task.nonce # NoNonce
    BY DEF IsRetryOf
  <2> QED
    BY <1>1, <1>4, <1>5, <1>6, <1>7, <2>1 DEF RunUses
<1>9. \A n : RunPursues(handler[h], n) => RunPursues(handler'[h], n)
  BY <1>1, <1>4 DEF RunPursues
<1>10. faults \subseteq faults'
  BY <1>1 DEF FaultStep, Happens
<1>11. RunOK(handler[h])'
  <2>1. handler[h].task.retry /\ handler[h].task.nonce # NoNonce =>
          handler'[h].nonce = handler[h].task.nonce \/ handler[h].task.nonce < Count
    BY <1>2, <1>5 DEF IsRetryOf, EventTask, Nonce
  <2> QED
    BY <1>1, <1>2, <1>4, <1>5, <1>10, <2>1 DEF RunOK
<1> QED
  BY <1>1, <1>3, <1>8, <1>9, <1>11, QuietCallback

(* A callback settles its message: what failed is put back, what is done   *)
(* is not pursued by the callback any more.                                *)
LEMMA SettlingInv ==
  ASSUME SenderInv, SenderInv', NonceInv, NEW h \in Handler, Settle(h)
  PROVE  NonceInv'
<1>1. /\ handler[h].pc = "settling" /\ UNCHANGED <<mined, pool, receiptVars, sendQueue, cachedNonce, faults>>
      /\ handler' = [handler EXCEPT ![h] = Idle]
      /\ FaultStep
  BY DEF Settle, SettleMessage, AckMsg, Requeue, chainVars, FaultStep
<1>2. CacheTypeOK /\ handler \in [Handler -> Run] /\ RunOK(handler[h])
      /\ handler[h].task \in EventTask
  BY <1>1, AtWork
<1>3. OnlyRun(h) /\ handler'[h] = Idle
  BY <1>1, <1>2, Ends
<1>4. \/ handler[h].result \in Told /\ UNCHANGED unsent
      \/ unsent' = With(unsent, handler[h].task)
      \/ handler[h].result = "blockGasLimitExceeded" /\ UNCHANGED unsent
      \/ handler[h].result = "nonceTooLow" /\ \E task : unsent' = With(unsent, task)
                                                   /\ task.nonce \in {NoNonce, handler[h].task.nonce}
  <2>1. [handler[h].task EXCEPT !.nonce = NoNonce].nonce = NoNonce
    BY <1>2 DEF EventTask
  <2> QED
    BY <2>1 DEF Settle, SettleMessage, AckMsg, Requeue, Told
<1>5. Put(h)
  BY <1>4 DEF Put
<1>6. ASSUME NEW n \in Nonce, faults = {"drop"}, RunPursues(handler[h], n)
      PROVE  \E task \in QueuedTasks' : Retries(task, n)
  <2>1. Retries(handler[h].task, n) /\ handler[h].result \notin Told \cup {"nonceTooLow"}
    BY <1>1, <1>6 DEF RunPursues
  <2>2. handler[h].result # "blockGasLimitExceeded"
    BY <1>2, <1>6 DEF RunOK
  <2> QED
    BY <1>4, <2>1, <2>2, WithMembers DEF QueuedTasks
<1>7. (\A m \in Reach : ~RunUses(handler'[h], m)) /\ RunOK(handler[h])'
  BY <1>3, IdleUsesNothing
<1> QED
  BY <1>1, <1>3, <1>5, <1>6, <1>7, QuietCallback

(* A callback throws before it has an answer, or when it saves the nonce.  *)
LEMMA ThrowingInv ==
  ASSUME SenderInv, SenderInv', NonceInv, NEW h \in Handler, RunThrows(h)
  PROVE  NonceInv'
<1>1. /\ handler[h].pc # "idle" /\ UNCHANGED <<mined, pool, receiptVars, sendQueue, cachedNonce>>
      /\ handler' = [handler EXCEPT ![h] = Idle] /\ unsent' = With(unsent, handler[h].task)
      /\ FaultStep /\ faults' # faults
  BY DEF RunThrows, Requeue, chainVars, FaultStep, Happens
<1>2. CacheTypeOK
  BY <1>1, AtWork
<1>3. OnlyRun(h) /\ handler'[h] = Idle
  BY <1>1, <1>2, Ends DEF CacheTypeOK
<1>4. Put(h) /\ faults' # {}
  BY <1>1 DEF Put, FaultStep, Happens
<1>5. (\A m \in Reach : ~RunUses(handler'[h], m)) /\ RunOK(handler[h])'
  BY <1>3, IdleUsesNothing
<1> QED
  BY <1>1, <1>3, <1>4, <1>5, QuietCallback

(* What the node does when it takes a transaction, or says it has another. *)
LEMMA NodeTakes ==
  ASSUME SenderInv, NEW tx \in Tx, TakeIn(tx)
  PROVE  /\ pool'[tx.nonce] = tx /\ tx # NoTx /\ tx.nonce >= Count
         /\ \A n \in Nonce : n # tx.nonce => pool'[n] = pool[n]
BY SenderAssumption DEF SenderInv, NodeTypeOK, TakeIn, Accepts, Tx

(* What it has when it refuses one whose nonce is not used up.             *)
LEMMA NodeHasAnother ==
  ASSUME SenderInv, NEW tx \in Tx, ~Accepts(tx), tx.nonce >= Count
  PROVE  pool[tx.nonce] # NoTx
<1>1. PICK price \in Nat \ {0} : price = tx.price
  <2>1. tx.price \in Price
    BY DEF Tx
  <2> QED
    BY <2>1, SenderAssumption
<1>2. ASSUME pool[tx.nonce] = NoTx PROVE FALSE
  <2>1. PriceOf(pool[tx.nonce]) = 0
    BY <1>2 DEF PriceOf
  <2>2. 0 < tx.price
    <3>1. 0 < price
      OBVIOUS
    <3> QED
      BY <1>1, <3>1
  <2> QED
    BY <2>1, <2>2 DEF Accepts
<1> QED
  BY <1>2

(* What a step that leaves receipts alone says about them.                 *)
LEMMA SameReceipts ==
  ASSUME UNCHANGED receiptVars
  PROVE  LiveReceipts' = LiveReceipts /\ UNCHANGED receiptor
BY DEF LiveReceipts, receiptVars

(* A callback sends the validator's account a transaction to itself: the   *)
(* nonce is filled, or was filled by another.                              *)
LEMMA FillingInv ==
  ASSUME SenderInv, SenderInv', NonceInv, NEW h \in Handler, SendToSelf(h)
  PROVE  NonceInv'
<1> DEFINE tx == SelfTx(h)
           k == handler[h].task.nonce
<1>1. /\ handler[h].pc = "filling" /\ UNCHANGED <<mined, receiptVars, sendQueue, cachedNonce>>
      /\ FaultStep
  BY DEF SendToSelf, FaultStep, TimesOut, Happens, redisVars
<1>2. CacheTypeOK /\ handler[h] \in Run /\ RunOK(handler[h]) /\ Count' = Count /\ Count \in Nat
      /\ handler[h].task \in EventTask
  BY <1>1, AtWork DEF Count
<1>3. OnlyRun(h)
  BY CallbackMoves DEF HandlerNext, SendToSelf, ExitForFunds
<1>4. tx \in Tx /\ tx.nonce = k /\ k \in Nonce /\ k # NoNonce /\ tx # NoTx
  BY <1>1, <1>2, BasePriceIsAPrice, SenderAssumption DEF SelfTx, Tx, Run, Nonce
<1> HIDE DEF tx
<1>5. \/ /\ TakeIn(tx) \/ (Knows(tx) /\ UNCHANGED pool)
         /\ handler'[h].pc = "receipting" /\ handler'[h].tx = tx
         /\ handler'[h].task = handler[h].task
         /\ handler'[h].nonce = handler[h].nonce
         /\ handler'[h].result = "sendDummyTxToFillNonce"
         /\ UNCHANGED <<unsent, faults>>
      \/ /\ ~Accepts(tx) /\ ~Knows(tx)
         /\ handler'[h] = Idle /\ UNCHANGED <<pool, faults>>
         /\ unsent' = unsent \/ unsent' = With(unsent, handler[h].task)
      \/ /\ TimesOut(tx) /\ handler'[h] = Idle
         /\ unsent' = With(unsent, handler[h].task)
  BY FillLeaves DEF tx
<1>6. LiveReceipts' = LiveReceipts /\ UNCHANGED receiptor
  BY <1>1, SameReceipts
<1>7. QueuedTasks \subseteq QueuedTasks' /\
      \A task \in QueuedTasks' : task \in QueuedTasks \/ task.nonce = k
  BY <1>1, <1>5, WithMembers DEF QueuedTasks
<1>8. RunUses(handler[h], k)
  BY <1>1, <1>4 DEF RunUses
<1>9. ASSUME NEW n \in Nonce
      PROVE  \/ pool'[n] = pool[n]
             \/ /\ pool'[n] # NoTx /\ pool'[n].nonce = n /\ n >= Count /\ RunUses(handler[h], n)
                /\ faults' = {} => handler'[h].pc = "receipting" /\ handler'[h].tx = pool'[n]
  <2>1. CASE ~TakeIn(tx)
    BY <1>5, <2>1 DEF TimesOut
  <2>2. CASE TakeIn(tx)
    <3>1. faults' = {} => handler'[h].pc = "receipting" /\ handler'[h].tx = tx
      BY <1>5, <2>2 DEF TakeIn, TimesOut, Happens
    <3> QED
      BY <1>4, <1>8, <2>2, <3>1, NodeTakes
  <2> QED
    BY <2>1, <2>2
<1>10. ASSUME NEW m \in Reach, RunUses(handler'[h], m)
       PROVE  \/ RunUses(handler[h], m) \/ FilledBelow(m)
              \/ m - 1 \in Nonce /\ RunUses(handler[h], m - 1) /\ pool'[m - 1] # NoTx
  <2>1. /\ TakeIn(tx) \/ (Knows(tx) /\ UNCHANGED pool)
        /\ handler'[h].pc = "receipting" /\ handler'[h].tx = tx
        /\ handler'[h].task = handler[h].task /\ handler'[h].nonce = handler[h].nonce
    BY <1>5, <1>10, IdleUsesNothing
  <2>2. CASE m = handler[h].nonce
    <3>1. m = 0
      BY <1>1, <1>2, <2>2 DEF RunOK
    <3> QED
      BY <1>2, <3>1 DEF FilledBelow, Nonce
  <2>3. CASE m = k + 1
    <3>1. pool'[k] # NoTx
      BY <1>4, <2>1, NodeTakes DEF Knows
    <3>2. m - 1 = k
      BY <1>4, <2>3 DEF Nonce
    <3> QED
      BY <1>4, <1>8, <3>1, <3>2
  <2>4. CASE m = k
    BY <1>8, <2>4
  <2> QED
    BY <1>4, <1>10, <2>1, <2>2, <2>3, <2>4 DEF RunUses
<1>11. ASSUME NEW n \in Nonce, Count <= n, faults' = faults, RunPursues(handler[h], n)
       PROVE  pool'[n] # NoTx
  <2>1. n = k
    BY <1>1, <1>11 DEF RunPursues, Retries
  <2>2. pool'[k] # NoTx
    <3>1. CASE TakeIn(tx) \/ (Knows(tx) /\ UNCHANGED pool)
      BY <1>4, <3>1, NodeTakes DEF Knows
    <3>2. CASE ~Accepts(tx) /\ UNCHANGED pool
      BY <1>4, <1>11, <2>1, <3>2, NodeHasAnother
    <3> QED
      BY <1>5, <1>11, <3>1, <3>2 DEF TimesOut, Happens
  <2> QED
    BY <2>1, <2>2
<1>12. RunOK(handler[h])'
  <2>1. CASE handler'[h] = Idle
    BY <2>1, IdleUsesNothing
  <2>2. CASE /\ handler'[h].pc = "receipting" /\ handler'[h].nonce = handler[h].nonce
             /\ handler'[h].result = "sendDummyTxToFillNonce"
    BY <1>2, <2>2 DEF RunOK, Told
  <2> QED
    BY <1>5, <2>1, <2>2
<1> QED
  BY <1>1, <1>3, <1>6, <1>7, <1>9, <1>10, <1>11, <1>12, OneCallback

(* A callback sends the transaction of its event: its nonce is filled, or  *)
(* it still pursues it.                                                    *)
LEMMA SendingInv ==
  ASSUME SenderInv, SenderInv', NonceInv, NEW h \in Handler, NEW price \in Price,
         SendTransaction(h, price)
  PROVE  NonceInv'
<1> DEFINE tx == EventTx(h, price)
           k == handler[h].nonce
<1>1. /\ handler[h].pc = "sending" /\ k \in Nonce /\ SendAnswer(h, tx)
      /\ handler'[h].task = handler[h].task
      /\ UNCHANGED <<mined, receiptVars, sendQueue, unsent, cachedNonce>>
      /\ FaultStep
  BY SendLeaves DEF SendTransaction, FaultStep, TimesOut, Happens, redisVars
<1>2. CacheTypeOK /\ handler[h] \in Run /\ RunOK(handler[h]) /\ Count' = Count /\ Count \in Nat
      /\ handler[h].task \in EventTask /\ Count \in Reach
  BY <1>1, AtWork DEF Count
<1>3. OnlyRun(h)
  BY CallbackMoves DEF HandlerNext, SendTransaction, ExitForFunds
<1>4. tx \in Tx /\ tx.nonce = k /\ tx # NoTx
  BY <1>1, <1>2, SenderAssumption DEF EventTx, Tx, EventTask
<1> HIDE DEF tx
<1>5. LiveReceipts' = LiveReceipts /\ UNCHANGED receiptor
  BY <1>1, SameReceipts
<1>6. QueuedTasks' = QueuedTasks
  BY <1>1 DEF QueuedTasks
<1>7. RunUses(handler[h], k)
  BY <1>1 DEF RunUses, AfterChoice
<1>8. faults \subseteq faults'
  BY <1>1 DEF FaultStep, Happens
<1>9. ASSUME NEW n \in Nonce
      PROVE  \/ pool'[n] = pool[n]
             \/ /\ pool'[n] # NoTx /\ pool'[n].nonce = n /\ n >= Count /\ RunUses(handler[h], n)
                /\ faults' = {} => handler'[h].pc = "receipting" /\ handler'[h].tx = pool'[n]
  <2>1. CASE ~TakeIn(tx)
    BY <1>1, <2>1 DEF TimesOut, SendAnswer
  <2>2. CASE TakeIn(tx)
    <3>1. faults' = {} => handler'[h].pc = "receipting" /\ handler'[h].tx = tx
      BY <1>1, <2>2 DEF TakeIn, TimesOut, Happens, SendAnswer
    <3> QED
      BY <1>4, <1>7, <2>2, <3>1, NodeTakes
  <2> QED
    BY <2>1, <2>2
<1>10. \/ /\ TakeIn(tx) \/ (Knows(tx) /\ UNCHANGED pool)
          /\ handler'[h].pc = "receipting" /\ handler'[h].tx = tx /\ handler'[h].nonce = k
          /\ handler'[h].result \in {"success", "txImported"}
       \/ /\ ~Accepts(tx) /\ UNCHANGED pool
          /\ handler'[h].pc = "updating" /\ handler'[h].nonce = Count
          /\ handler'[h].result = "nonceTooLow"
       \/ /\ handler'[h].pc = "updating" /\ handler'[h].nonce = k
          /\ handler'[h].result \in {"failed", "timeout", "insufficientFunds", "blockGasLimitExceeded"}
          /\ handler'[h].result = "insufficientFunds" => "funds" \in faults'
          /\ handler'[h].result = "blockGasLimitExceeded" => "gasLimit" \in faults'
  BY <1>1 DEF SendAnswer, Happens
<1>11. (TakeIn(tx) \/ (Knows(tx) /\ UNCHANGED pool)) => pool'[k] # NoTx
  BY <1>4, NodeTakes DEF Knows
<1>12. FilledBelow(Count)
  BY <1>2 DEF FilledBelow, Nonce
<1>13. ASSUME NEW m \in Reach, RunUses(handler'[h], m)
       PROVE  \/ RunUses(handler[h], m) \/ FilledBelow(m)
              \/ m - 1 \in Nonce /\ RunUses(handler[h], m - 1) /\ pool'[m - 1] # NoTx
  <2>1. CASE m = handler'[h].nonce
    BY <1>7, <1>10, <1>12, <2>1
  <2>2. CASE handler'[h].pc = "receipting" /\ m = handler'[h].tx.nonce + 1
    <3>1. m - 1 = k
      BY <1>1, <1>4, <1>10, <2>2 DEF Nonce
    <3> QED
      BY <1>1, <1>7, <1>10, <1>11, <2>2, <3>1
  <2>3. CASE m = handler'[h].task.nonce /\ m # NoNonce
    BY <1>1, <2>3 DEF RunUses
  <2> QED
    BY <1>13, <2>1, <2>2, <2>3 DEF RunUses
<1>14. ASSUME NEW n \in Nonce, Count <= n, faults' = faults, RunPursues(handler[h], n)
       PROVE  pool'[n] # NoTx \/ RunPursues(handler'[h], n)
  <2>1. Retries(handler[h].task, n)
    BY <1>1, <1>14 DEF RunPursues
  <2>2. n = k
    BY <1>1, <1>2, <1>14, <2>1, SenderAssumption DEF RunOK, Retries, Nonce
  <2>3. ~Accepts(tx) => pool[k] # NoTx
    BY <1>4, <1>14, <2>2, NodeHasAnother
  <2> QED
    BY <1>1, <1>10, <1>11, <2>1, <2>2, <2>3 DEF RunPursues, Told
<1>15. RunOK(handler[h])'
  BY <1>1, <1>2, <1>4, <1>8, <1>10 DEF RunOK, Told
<1> QED
  BY <1>1, <1>3, <1>5, <1>6, <1>9, <1>13, <1>14, <1>15, OneCallback

(* The receiptor gets the transaction: from now on it answers for it, and  *)
(* the next nonce may be saved.                                            *)
LEMMA HandingOverInv ==
  ASSUME SenderInv, SenderInv', NonceInv, NEW h \in Handler, EnqueueReceipt(h)
  PROVE  NonceInv'
<1> DEFINE task == [event |-> handler[h].task.event, tx |-> handler[h].tx]
<1>1. /\ handler[h].pc = "receipting"
      /\ UNCHANGED <<mined, pool, sendQueue, unsent, cachedNonce, unsentReceipts, receiptor, faults>>
      /\ receiptQueue' = With(receiptQueue, task) /\ FaultStep
  BY DEF EnqueueReceipt, FaultStep, redisVars, chainVars, historyVars
<1>2. CacheTypeOK /\ handler[h] \in Run /\ RunOK(handler[h]) /\ Count' = Count
  BY <1>1, AtWork DEF Count
<1>3. OnlyRun(h)
  BY CallbackMoves DEF HandlerNext, EnqueueReceipt, ExitForFunds
<1>4. handler[h].result \in Told /\ handler[h].tx.nonce \in Nonce /\ handler[h].nonce \in Reach
  BY <1>1, <1>2 DEF RunOK, Run, Tx
<1>5. /\ handler'[h].result = handler[h].result /\ handler'[h].task = handler[h].task
      /\ \/ handler'[h].pc \in {"updating", "settling"} /\ handler'[h].nonce = handler[h].nonce
         \/ /\ handler'[h].pc = "updating" /\ handler'[h].nonce = handler[h].nonce + 1
            /\ handler[h].result = "success"
  <2>1. PICK pc, n : /\ Answered(h, pc, NoTx, n, handler[h].result)
                     /\ \/ pc \in {"updating", "settling"} /\ n = handler[h].nonce
                        \/ pc = "updating" /\ n = handler[h].nonce + 1 /\ handler[h].result = "success"
    BY DEF EnqueueReceipt
  <2> QED
    BY <1>2, <2>1, AnswerLeaves
<1>6. task.tx = handler[h].tx
  OBVIOUS
<1> HIDE DEF task
<1>7. LiveReceipts' = LiveReceipts \cup {task}
  BY <1>1, WithMembers DEF LiveReceipts
<1>8. QueuedTasks' = QueuedTasks
  BY <1>1 DEF QueuedTasks
<1>9. handler[h].result = "success" => handler[h].nonce = handler[h].tx.nonce
  BY <1>1, <1>2 DEF RunOK
<1>10. \A m \in Reach : RunUses(handler'[h], m) => RunUses(handler[h], m)
  BY <1>1, <1>5, <1>9 DEF RunUses, AfterChoice
<1>11. \A n : RunPursues(handler[h], n) => task.tx.nonce = n
  BY <1>1, <1>4, <1>6 DEF RunPursues
<1>12. RunOK(handler[h])'
  <2>1. handler'[h].nonce \in Reach
    BY <1>4, <1>5, <1>9, SenderAssumption DEF Reach, Nonce
  <2> QED
    BY <1>2, <1>1, <1>4, <1>5, <2>1 DEF RunOK, Told
<1> QED
  BY <1>1, <1>3, <1>6, <1>7, <1>8, <1>10, <1>11, <1>12, OneCallback

(* newReceiptTask throws, or the channel is lost: a fault.                 *)
LEMMA FailingInv ==
  ASSUME SenderInv, SenderInv', NonceInv, NEW h \in Handler,
         NewReceiptTaskThrows(h) \/ Disconnect(h)
  PROVE  NonceInv'
<1>1. /\ UNCHANGED <<mined, pool, cachedNonce, receiptVars>>
      /\ FaultStep /\ faults' # faults /\ faults' # {}
  BY DEF NewReceiptTaskThrows, Disconnect, chainVars, FaultStep, Happens, redisVars
<1>2. CacheTypeOK /\ handler[h].pc # "idle"
  BY DEF SenderInv, CacheTypeOK, Run, NewReceiptTaskThrows, Disconnect
<1>3. handler[h] \in Run /\ RunOK(handler[h]) /\ Count' = Count
  BY <1>1, <1>2, AtWork DEF Count
<1>4. OnlyRun(h)
  BY CallbackMoves
<1>5. QueuedTasks \subseteq QueuedTasks' /\
      \A task \in QueuedTasks' : task \in QueuedTasks \/ task = handler[h].task
  BY WithMembers DEF QueuedTasks, NewReceiptTaskThrows, Disconnect, Requeue
<1>6. LiveReceipts' = LiveReceipts /\ UNCHANGED receiptor
  BY <1>1, SameReceipts
<1>7. faults \subseteq faults'
  BY <1>1 DEF FaultStep, Happens
<1>8. /\ \A m \in Reach : RunUses(handler'[h], m) => RunUses(handler[h], m)
      /\ RunOK(handler[h])'
  <2>1. CASE Disconnect(h)
    <3>1. /\ handler'[h].pc = handler[h].pc /\ handler'[h].task = handler[h].task
          /\ handler'[h].nonce = handler[h].nonce /\ handler'[h].tx = handler[h].tx
          /\ handler'[h].result = handler[h].result
      BY <1>2, <2>1 DEF Disconnect, CacheTypeOK, Run
    <3> QED
      BY <1>3, <1>7, <3>1 DEF RunUses, RunOK
  <2>2. CASE NewReceiptTaskThrows(h) /\ Answered(h, "updating", NoTx, handler[h].nonce, "failed")
    <3>1. /\ handler'[h].pc = "updating" /\ handler'[h].task = handler[h].task
          /\ handler'[h].nonce = handler[h].nonce /\ handler'[h].result = "failed"
      BY <1>2, <2>2, AnswerLeaves
    <3>2. handler[h].pc = "receipting"
      BY <2>2 DEF NewReceiptTaskThrows
    <3> QED
      BY <1>3, <3>1, <3>2 DEF RunUses, RunOK, AfterChoice, Told
  <2>3. CASE NewReceiptTaskThrows(h) /\ Requeue(h, handler[h].task)
    <3>1. handler'[h] = Idle
      BY <1>2, <2>3 DEF Requeue, CacheTypeOK
    <3> QED
      BY <3>1, IdleUsesNothing
  <2> QED
    BY <2>1, <2>2, <2>3 DEF NewReceiptTaskThrows
<1> QED
  BY <1>1, <1>2, <1>4, <1>5, <1>6, <1>8, OneCallback

-----------------------------------------------------------------------------
(* The others: what is used, pursued and watched is handed on.             *)

RunsOK == \A h \in Handler : RunOK(handler[h])
UseKept == \A m \in Reach : Used(m)' => Used(m) \/ FilledBelow(m)
PursueKept ==
  \A n \in Nonce :
    Count <= n /\ faults' = faults /\ faults = {"drop"} /\ Pursued(n) => Pursued(n)'
WatchKept ==
  faults' = {} => \A tx \in Tx : IsPending(tx) /\ Watched(tx) => Watched(tx)'
(* That is enough of a step that leaves chain, pool and cache alone.       *)
LEMMA Rearranged ==
  ASSUME SenderInv, NonceInv, FaultStep, UNCHANGED <<mined, pool, cachedNonce>>,
         UseKept, PursueKept, WatchKept, RunsOK', FaultsOK'
  PROVE  NonceInv'
<1>1. Count' = Count /\ Count \in Nat
  BY CountIsANumber DEF SenderInv, Count
<1>2. NodeOK'
  BY <1>1 DEF NonceInv, NodeOK
<1>3. CoverStep
  <2>1. ASSUME NEW n \in Nonce, Count' <= n, Covered(n) PROVE Covered(n)'
    <3>1. faults' = faults /\ faults = {"drop"} /\ Pursued(n) => Pursued(n)'
      BY <1>1, <2>1 DEF PursueKept
    <3> QED
      BY <2>1, <3>1, CoveredStays
  <2> QED
    BY <2>1 DEF CoverStep
<1>4. FilledInv'
  <2>1. UseStep
    BY DEF UseStep, UseKept
  <2> QED
    BY <1>1, <1>3, <2>1, FilledStays DEF NonceInv
<1>5. WatchedInv'
  <2> SUFFICES ASSUME faults' = {}, NEW n \in Nonce, NEW tx, tx = pool'[n], tx # NoTx
               PROVE  \/ \E g \in Handler : handler'[g].pc = "receipting" /\ handler'[g].tx = tx
                      \/ \E task \in LiveReceipts' : task.tx = tx
    BY DEF WatchedInv, Watched
  <2>1. tx = pool[n] /\ faults = {}
    BY DEF FaultStep, Happens
  <2>2. \/ \E g \in Handler : handler[g].pc = "receipting" /\ handler[g].tx = tx
        \/ \E task \in LiveReceipts : task.tx = tx
    BY <2>1 DEF NonceInv, WatchedInv, Watched
  <2>3. tx \in Tx /\ IsPending(tx)
    BY <2>1 DEF SenderInv, NodeTypeOK, NonceInv, NodeOK, IsPending
  <2> QED
    BY <2>2, <2>3 DEF WatchKept, Watched
<1> QED
  BY <1>2, <1>4, <1>5 DEF NonceInv, RunsOK

(* Where no callback moves, the runs are as good as before.                *)
LEMMA SameRuns ==
  ASSUME NonceInv, UNCHANGED <<mined, handler>>, FaultStep
  PROVE  RunsOK'
<1>1. Count' = Count /\ faults \subseteq faults'
  BY DEF Count, FaultStep, Happens
<1> QED
  BY <1>1 DEF NonceInv, RunsOK, RunOK

(* Messages that only change their place.                                  *)
LEMMA SamePlaces ==
  ASSUME SenderInv, NonceInv, FaultStep, UNCHANGED <<mined, pool, cachedNonce, handler>>,
         QueuedTasks' = QueuedTasks, LiveReceipts' = LiveReceipts,
         receiptor'.pc # "idle" =>
           receiptor'.task \in LiveReceipts' \/ UNCHANGED receiptor,
         FaultsOK'
  PROVE  NonceInv'
<1>1. UseKept
  BY DEF UseKept, Used
<1>2. PursueKept
  BY DEF PursueKept, Pursued
<1>3. WatchKept
  BY DEF WatchKept, Watched
<1> QED
  BY <1>1, <1>2, <1>3, SameRuns, Rearranged

(* Messages are delivered, wait, or stay where they are.                   *)
LEMMA DeliveringInv ==
  ASSUME SenderInv, NonceInv, TasksInv,
         \/ \E task \in BagToSet(unsent) : Deliver(task)
         \/ \E task \in BagToSet(receiptQueue) : ReceiveReceipt(task)
         \/ \E task \in BagToSet(unsentReceipts) : DeliverReceipt(task)
         \/ WaitForReceipt \/ RejectMsg \/ GetReceiptThrows \/ ExpireLock
         \/ \E e \in Event : ExecutedByOthers(e)
         \/ UNCHANGED vars
  PROVE  NonceInv'
<1>1. UNCHANGED <<mined, pool, cachedNonce, handler>> /\ FaultStep
  BY DEF Deliver, ReceiveReceipt, DeliverReceipt, WaitForReceipt, RejectMsg, GetReceiptThrows,
     ExpireLock, ExecutedByOthers, chainVars, redisVars, senderVars, receiptVars, historyVars, vars, FaultStep, Happens
<1>2. BagsOK /\ faults \subseteq faults' /\ faults' \subseteq Faults
  BY <1>1 DEF TasksInv, FaultStep, Happens, NonceInv, FaultsOK
<1>3. ASSUME NEW task \in BagToSet(unsent), Deliver(task) PROVE NonceInv'
  <2>1. QueuedTasks' = QueuedTasks
    BY <1>2, <1>3, WithMembers, WithoutMembers, WithoutLeaves DEF Deliver, QueuedTasks, BagsOK
  <2>2. LiveReceipts' = LiveReceipts /\ UNCHANGED receiptor
    BY <1>3, SameReceipts DEF Deliver
  <2> QED
    BY <1>1, <1>2, <2>1, <2>2, SamePlaces DEF NonceInv, FaultsOK
<1>4. ASSUME NEW task \in BagToSet(receiptQueue), ReceiveReceipt(task) PROVE NonceInv'
  <2>1. LiveReceipts' = LiveReceipts /\ receiptor'.task \in LiveReceipts' /\ receiptor'.pc = "asking"
    <3>1. /\ receiptQueue' = Without(receiptQueue, task) /\ UNCHANGED unsentReceipts
          /\ receiptor.pc = "idle" /\ receiptor'.pc = "asking" /\ receiptor'.task = task
      BY <1>4 DEF ReceiveReceipt
    <3> QED
      BY <1>2, <1>4, <3>1, WithoutMembers, WithoutLeaves DEF LiveReceipts, BagsOK
  <2>2. QueuedTasks' = QueuedTasks
    BY <1>4 DEF ReceiveReceipt, senderVars, QueuedTasks
  <2> QED
    BY <1>1, <1>2, <2>1, <2>2, SamePlaces DEF NonceInv, FaultsOK
<1>5. ASSUME NEW task \in BagToSet(unsentReceipts), DeliverReceipt(task) PROVE NonceInv'
  <2>1. LiveReceipts' = LiveReceipts /\ UNCHANGED receiptor
    BY <1>2, <1>5, WithMembers, WithoutMembers, WithoutLeaves DEF DeliverReceipt, LiveReceipts, BagsOK
  <2>2. QueuedTasks' = QueuedTasks
    BY <1>5 DEF DeliverReceipt, senderVars, QueuedTasks
  <2> QED
    BY <1>1, <1>2, <2>1, <2>2, SamePlaces DEF NonceInv, FaultsOK
<1>6. CASE WaitForReceipt \/ RejectMsg
  <2>1. QueuedTasks' = QueuedTasks /\ receiptor' = IdleReceiptor
    BY <1>6 DEF WaitForReceipt, RejectMsg, senderVars, QueuedTasks
  <2>2. LiveReceipts' = LiveReceipts
    BY <1>6, WithMembers DEF WaitForReceipt, RejectMsg, LiveReceipts, IdleReceiptor
  <2> QED
    BY <1>1, <1>2, <2>1, <2>2, SamePlaces DEF FaultsOK, IdleReceiptor
<1>7. CASE GetReceiptThrows
  <2>1. receiptor.pc = "asking" /\ receiptor'.pc = "hung" /\ receiptor'.task = receiptor.task
    BY <1>7 DEF GetReceiptThrows, SenderInv, QueuesTypeOK, ReceiptorRun
  <2>2. QueuedTasks' = QueuedTasks /\ LiveReceipts' = LiveReceipts /\ receiptor'.task \in LiveReceipts'
    BY <1>7, <2>1 DEF GetReceiptThrows, senderVars, QueuedTasks, LiveReceipts
  <2>3. FaultsOK'
    BY <1>2, <1>7 DEF GetReceiptThrows, FaultsOK, Happens
  <2> QED
    BY <1>1, <2>1, <2>2, <2>3, SamePlaces
<1>8. CASE ExpireLock \/ (\E e \in Event : ExecutedByOthers(e)) \/ UNCHANGED vars
  <2>1. QueuedTasks' = QueuedTasks /\ UNCHANGED receiptVars
    BY <1>8 DEF ExpireLock, ExecutedByOthers, vars, senderVars, QueuedTasks
  <2>2. LiveReceipts' = LiveReceipts /\ UNCHANGED receiptor
    BY <2>1, SameReceipts
  <2> QED
    BY <1>1, <1>2, <2>1, <2>2, SamePlaces DEF NonceInv, FaultsOK
<1> QED
  BY <1>3, <1>4, <1>5, <1>6, <1>7, <1>8

(* A callback takes its task out of the queue.                             *)
LEMMA ReceivingInv ==
  ASSUME SenderInv, NonceInv, TasksInv, NEW h \in Handler, NEW task \in BagToSet(sendQueue),
         Receive(h, task)
  PROVE  NonceInv'
<1>1. /\ UNCHANGED <<mined, pool, cachedNonce, unsent, receiptVars, faults>> /\ FaultStep
      /\ sendQueue' = Without(sendQueue, task) /\ handler[h].pc = "idle"
      /\ handler' = [handler EXCEPT ![h] = Held(task)]
  BY DEF Receive, chainVars, redisVars, historyVars, FaultStep
<1>2. BagsOK /\ handler \in [Handler -> Run]
  BY DEF TasksInv, SenderInv, CacheTypeOK
<1>3. handler'[h] = Held(task) /\ \A g \in Handler \ {h} : handler'[g] = handler[g]
  BY <1>1, <1>2
<1>4. /\ Held(task).pc = "processing" /\ Held(task).task = task /\ Held(task).nonce = 0
      /\ Held(task).result = "none"
  BY DEF Held, Idle
<1>5. /\ QueuedTasks' \subseteq QueuedTasks /\ QueuedTasks \subseteq QueuedTasks' \cup {task}
      /\ task \in QueuedTasks
  BY <1>1, <1>2, WithoutMembers, WithoutLeaves DEF QueuedTasks, BagsOK
<1>6. LiveReceipts' = LiveReceipts /\ UNCHANGED receiptor
  BY <1>1, SameReceipts
<1>7. UseKept
  <2>1. \A m : RunUses(handler'[h], m) => m = task.nonce /\ m # NoNonce
    BY <1>3, <1>4 DEF RunUses, AfterChoice
  <2> QED
    BY <1>1, <1>3, <1>5, <1>6, <2>1 DEF UseKept, Used
<1>8. PursueKept
  <2>1. \A n : Retries(task, n) => RunPursues(handler'[h], n)
    BY <1>3, <1>4 DEF RunPursues, Told
  <2>2. \A n : ~RunPursues(handler[h], n)
    BY <1>1 DEF RunPursues
  <2> QED
    BY <1>3, <1>5, <1>6, <2>1, <2>2 DEF PursueKept, Pursued
<1>9. WatchKept
  BY <1>1, <1>3, <1>6 DEF WatchKept, Watched
<1>10. RunsOK'
  <2>1. RunOK(handler[h])'
    BY <1>3, <1>4, SenderAssumption DEF RunOK, Reach
  <2>2. ASSUME NEW g \in Handler \ {h} PROVE RunOK(handler[g])'
    BY <1>1, <1>3 DEF NonceInv, RunOK, Count
  <2> QED
    BY <2>1, <2>2 DEF RunsOK
<1> QED
  BY <1>1, <1>6, <1>7, <1>8, <1>9, <1>10, Rearranged DEF NonceInv, FaultsOK

(* A receipt is confirmed, or given up: then its nonce is taken again by   *)
(* the event.                                                              *)
LEMMA AskingInv ==
  ASSUME SenderInv, NonceInv, ConfirmReceipt \/ ResendEvent
  PROVE  NonceInv'
<1> DEFINE tx == receiptor.task.tx
<1>1. /\ UNCHANGED <<mined, pool, cachedNonce, handler, unsent, receiptQueue, unsentReceipts>> /\ FaultStep
      /\ receiptor.pc = "asking"
  BY DEF ConfirmReceipt, ResendEvent, chainVars, senderVars, redisVars, historyVars, FaultStep, Happens
<1>2. /\ receiptor.task \in LiveReceipts /\ receiptor.task \in ReceiptTask /\ tx \in Tx
      /\ tx.nonce \in Nonce /\ Count \in Nat
  BY <1>1, CountIsANumber DEF LiveReceipts, SenderInv, QueuesTypeOK, ReceiptorRun, ReceiptTask, Tx
<1>3. LiveReceipts' \subseteq LiveReceipts /\ LiveReceipts \subseteq LiveReceipts' \cup {receiptor.task}
      /\ receiptor'.pc \in {"idle", "rejecting"}
      /\ (receiptor'.pc # "idle" => receiptor'.task = receiptor.task)
  <2>1. receiptor'.pc \in {"idle", "rejecting"}
        /\ (receiptor'.pc # "idle" => receiptor'.task = receiptor.task)
    BY DEF ConfirmReceipt, ResendEvent, IdleReceiptor, SenderInv, QueuesTypeOK, ReceiptorRun
  <2> QED
    BY <1>1, <2>1 DEF LiveReceipts
<1>4. Used(tx.nonce + 1) /\ FilledBelow(tx.nonce + 1) /\ FilledBelow(tx.nonce)
  <2>1. Used(tx.nonce + 1)
    BY <1>2 DEF Used
  <2>2. FilledBelow(tx.nonce + 1)
    BY <1>2, <2>1, SenderAssumption DEF NonceInv, FilledInv, Reach, Nonce
  <2> QED
    BY <1>2, <2>1, <2>2 DEF FilledBelow, Nonce
<1>5. \/ QueuedTasks' = QueuedTasks /\ IsMined(tx)
      \/ \E task : /\ QueuedTasks' = QueuedTasks \cup {task}
                   /\ \/ IsMined(tx) /\ task.nonce = NoNonce
                      \/ task.nonce = tx.nonce /\ task.retry /\ (IsPending(tx) => "slow" \in faults')
  <2>1. CASE ConfirmReceipt
    BY <2>1 DEF ConfirmReceipt, senderVars, QueuedTasks
  <2>2. CASE ResendEvent
    <3> DEFINE task == [event |-> receiptor.task.event, retry |-> TRUE,
                        nonce |-> IF IsMined(tx) THEN NoNonce ELSE tx.nonce]
    <3>1. sendQueue' = With(sendQueue, task)
      BY <2>2 DEF ResendEvent
    <3>2. /\ task.retry /\ task.nonce = IF IsMined(tx) THEN NoNonce ELSE tx.nonce
          /\ IsMined(tx) \/ (IsPending(tx) => "slow" \in faults')
      BY <2>2 DEF ResendEvent, Happens
    <3> HIDE DEF task
    <3> QED
      BY <1>1, <3>1, <3>2, WithMembers DEF QueuedTasks
  <2> QED
    BY <2>1, <2>2
<1>6. IsMined(tx) => tx.nonce < Count
  BY DEF IsMined
<1> HIDE DEF tx
<1>7. UseKept
  BY <1>1, <1>2, <1>3, <1>4, <1>5 DEF UseKept, Used, tx
<1>8. PursueKept
  <2>1. ASSUME NEW n \in Nonce, Count <= n, n = tx.nonce
        PROVE  \E task \in QueuedTasks' : Retries(task, n)
    BY <1>2, <1>5, <1>6, <2>1 DEF Retries, Nonce
  <2> QED
    BY <1>1, <1>3, <1>5, <2>1 DEF PursueKept, Pursued, tx
<1>9. WatchKept
  <2>1. ASSUME faults' = {} PROVE ~IsPending(tx)
    BY <1>2, <1>5, <1>6, <2>1 DEF IsPending, Nonce
  <2> QED
    BY <1>1, <1>3, <2>1 DEF WatchKept, Watched, tx
<1>10. RunsOK' /\ FaultsOK'
  BY <1>1, <1>3, SameRuns DEF NonceInv, FaultsOK, FaultStep, Happens
<1> QED
  BY <1>1, <1>7, <1>8, <1>9, <1>10, Rearranged

(* The receiptor dies: a fault, now or when it began to hang.              *)
LEMMA ReceiptorDiesInv ==
  ASSUME SenderInv, NonceInv, CrashReceiptor
  PROVE  NonceInv'
<1>1. /\ UNCHANGED <<mined, pool, cachedNonce, handler, sendQueue, unsent>> /\ FaultStep
      /\ receiptor' = IdleReceiptor /\ unsentReceipts' = EmptyBag
      /\ receiptQueue' = IF receiptor.pc = "idle" THEN receiptQueue
                         ELSE With(receiptQueue, receiptor.task)
  BY DEF CrashReceiptor, chainVars, senderVars, redisVars, FaultStep, Happens
<1>2. faults' # {} /\ ~(faults' = faults /\ faults = {"drop"})
  BY DEF CrashReceiptor, Happens, NonceInv, FaultsOK
<1>3. LiveReceipts' \subseteq LiveReceipts \cup (IF receiptor.pc = "idle" THEN {} ELSE {receiptor.task})
  BY <1>1, WithMembers, EmptyBagMembers DEF LiveReceipts, IdleReceiptor
<1>4. QueuedTasks' = QueuedTasks
  BY <1>1 DEF QueuedTasks
<1>5. UseKept
  BY <1>1, <1>3, <1>4 DEF UseKept, Used, IdleReceiptor
<1>6. PursueKept /\ WatchKept
  BY <1>2 DEF PursueKept, WatchKept
<1>7. RunsOK' /\ FaultsOK'
  BY <1>1, SameRuns DEF NonceInv, FaultsOK, FaultStep, Happens, IdleReceiptor
<1> QED
  BY <1>1, <1>5, <1>6, <1>7, Rearranged

(* The sender dies: a fault, now or when the node said there are no funds. *)
LEMMA SenderDiesInv ==
  ASSUME SenderInv, NonceInv, CrashSender \/ \E h \in Handler : ExitForFunds(h)
  PROVE  NonceInv'
<1>1. /\ UNCHANGED <<mined, pool, cachedNonce, receiptVars>> /\ FaultStep
      /\ unsent' = EmptyBag /\ \A h \in Handler : handler'[h] = Idle
  BY DEF CrashSender, ExitForFunds, Dies, chainVars, FaultStep, Happens
<1>2. faults' # {} /\ ~(faults' = faults /\ faults = {"drop"})
  BY DEF CrashSender, ExitForFunds, Happens, NonceInv, RunOK
<1>3. \A task \in BagToSet(sendQueue') :
        task \in BagToSet(sendQueue) \/ task \in TasksAtWork
  <2>0. \A S \in SUBSET Handler : TasksHeldBy(S) \subseteq TasksAtWork
    BY DEF TasksHeldBy, TasksAtWork, SenderInv, CacheTypeOK, Run
  <2>1. CASE CrashSender
    <3>1. BagToSet(sendQueue') = BagToSet(sendQueue) \cup TasksHeldBy(Handler)
      BY <2>1, BagSums, BagOfSet DEF CrashSender
    <3> QED
      BY <2>0, <3>1
  <2>2. ASSUME NEW h \in Handler, ExitForFunds(h)
        PROVE  \A task \in BagToSet(sendQueue') :
                 task \in BagToSet(sendQueue) \/ task \in TasksAtWork
    <3> DEFINE others == SetToBag(TasksHeldBy(Handler \ {h}))
    <3>1. PICK copies \in 0..2 :
            sendQueue' = sendQueue (+) others (+) [task \in {handler[h].task : i \in 1..copies} |-> copies]
      BY <2>2 DEF ExitForFunds
    <3> DEFINE kept == [task \in {handler[h].task : i \in 1..copies} |-> copies]
    <3>2. BagToSet(kept) \subseteq {handler[h].task} /\ handler[h].task \in TasksAtWork
      BY <2>2 DEF BagToSet, TasksAtWork, ExitForFunds
    <3>3. BagToSet(others) = TasksHeldBy(Handler \ {h})
      BY BagOfSet
    <3> HIDE DEF kept, others
    <3>4. BagToSet(sendQueue') = BagToSet(sendQueue) \cup TasksHeldBy(Handler \ {h}) \cup BagToSet(kept)
      BY <3>1, <3>3, BagSums DEF kept
    <3> QED
      BY <2>0, <3>2, <3>4
  <2> QED
    BY <2>1, <2>2
<1>4. LiveReceipts' = LiveReceipts /\ UNCHANGED receiptor
  BY <1>1, SameReceipts
<1>5. UseKept
  <2>1. \A task \in TasksAtWork : task.nonce # NoNonce => Used(task.nonce)
    BY DEF TasksAtWork, Used, RunUses
  <2>2. \A task \in QueuedTasks' : task.nonce # NoNonce => Used(task.nonce)
    BY <1>1, <1>3, <2>1, EmptyBagMembers DEF QueuedTasks, Used
  <2> QED
    BY <1>1, <1>4, <2>2, IdleUsesNothing DEF UseKept, Used
<1>6. PursueKept /\ WatchKept
  BY <1>2 DEF PursueKept, WatchKept
<1>7. RunsOK' /\ FaultsOK'
  BY <1>1, <1>4, IdleUsesNothing DEF NonceInv, RunsOK, FaultsOK, FaultStep, Happens
<1> QED
  BY <1>1, <1>5, <1>6, <1>7, Rearranged

-----------------------------------------------------------------------------
(* A block is produced.                                                    *)
LEMMA MiningInv ==
  ASSUME SenderInv, NonceInv, Mine
  PROVE  NonceInv'
<1>1. /\ Count \in Nonce /\ pool[Count] # NoTx /\ pool' = [pool EXCEPT ![Count] = NoTx]
      /\ UNCHANGED <<senderVars, receiptVars, faults>> /\ FaultStep
  BY DEF Mine, historyVars, FaultStep
<1>2. mined \in Seq([tx : Tx, status : BOOLEAN]) /\ Count \in Nat /\ pool \in [Nonce -> Tx \cup {NoTx}]
  BY CountIsANumber DEF SenderInv, NodeTypeOK
<1>3. PICK entry : mined' = Append(mined, entry) /\ entry.tx = pool[Count]
  BY DEF Mine
<1>4. /\ Count' = Count + 1 /\ Count' \in Nat
      /\ mined'[Count + 1].tx = pool[Count] /\ \A i \in 1..Count : mined'[i] = mined[i]
  BY <1>2, <1>3 DEF Count
<1>5. /\ UNCHANGED <<cachedNonce, handler, sendQueue, unsent, receiptor>>
      /\ QueuedTasks' = QueuedTasks /\ LiveReceipts' = LiveReceipts
  BY <1>1, SameReceipts DEF senderVars, redisVars, QueuedTasks, receiptVars
<1>6. \A n \in Nonce : n # Count => pool'[n] = pool[n]
  BY <1>1, <1>2
<1>7. pool'[Count] = NoTx
  BY <1>1, <1>2
<1>8. NodeOK'
  <2>1. Count' \in Reach
    BY <1>1, <1>4, SenderAssumption DEF Nonce, Reach
  <2>2. \A n \in Nonce : pool'[n] # NoTx => pool'[n].nonce = n /\ n >= Count'
    BY <1>2, <1>4, <1>6, <1>7 DEF NonceInv, NodeOK, Nonce
  <2>3. \A i \in 1..Count' : mined'[i].tx.nonce = i - 1
    <3>1. \A i \in 1..Count' : i \in 1..Count \/ i = Count + 1
      BY <1>2, <1>4
    <3>2. pool[Count].nonce = Count
      BY <1>1 DEF NonceInv, NodeOK
    <3>3. (Count + 1) - 1 = Count
      BY <1>2
    <3> QED
      BY <1>4, <3>1, <3>2, <3>3 DEF NonceInv, NodeOK
  <2> QED
    BY <2>1, <2>2, <2>3 DEF NodeOK
<1>9. \A h \in Handler : RunOK(handler[h])'
  <2>1. ASSUME NEW h \in Handler PROVE RunOK(handler[h])'
    <3>1. RunOK(handler[h]) /\ handler'[h] = handler[h] /\ handler[h] \in Run
      BY <1>5 DEF NonceInv, SenderInv, CacheTypeOK
    <3>2. handler[h].pc = "sending" /\ handler[h].task.retry /\ handler[h].task.nonce # NoNonce =>
            handler[h].nonce = handler[h].task.nonce \/ handler[h].task.nonce < Count'
      <4>1. handler[h].pc = "sending" /\ handler[h].task.nonce # NoNonce =>
              handler[h].task.nonce \in Nat
        BY <3>1 DEF Run, EventTask, Nonce
      <4> QED
        BY <1>2, <1>4, <3>1, <4>1 DEF RunOK
    <3> QED
      BY <1>1, <3>1, <3>2 DEF RunOK
  <2> QED
    BY <2>1
<1>10. CoverStep
  <2>1. ASSUME NEW n \in Nonce, Count' <= n, Covered(n) PROVE Covered(n)'
    <3>1. pool'[n] = pool[n]
      BY <1>2, <1>4, <1>6, <2>1 DEF Nonce
    <3> QED
      BY <1>1, <1>5, <2>1, <3>1 DEF Covered, Pursued, Single
  <2> QED
    BY <2>1 DEF CoverStep
<1>11. UseStep
  BY <1>5, <1>6, <1>7 DEF UseStep, Used
<1>12. FilledInv'
  BY <1>2, <1>4, <1>10, <1>11, FilledStays DEF NonceInv
<1>13. WatchedInv'
  <2> SUFFICES ASSUME faults' = {}, NEW n \in Nonce, NEW tx, tx = pool'[n], tx # NoTx
               PROVE  \/ \E g \in Handler : handler'[g].pc = "receipting" /\ handler'[g].tx = tx
                      \/ \E task \in LiveReceipts' : task.tx = tx
    BY DEF WatchedInv, Watched
  <2>1. tx = pool[n] /\ faults = {}
    BY <1>1, <1>6, <1>7
  <2> QED
    BY <1>5, <2>1 DEF NonceInv, WatchedInv, Watched
<1> QED
  BY <1>1, <1>5, <1>8, <1>9, <1>12, <1>13 DEF NonceInv, FaultsOK

(* The node drops a transaction: what was watched is now pursued.          *)
LEMMA DroppingInv ==
  ASSUME SenderInv, NonceInv, NEW k \in Nonce, DropTx(k)
  PROVE  NonceInv'
<1>1. /\ Happens("drop") /\ FaultStep /\ faults \subseteq faults' /\ "drop" \in faults'
      /\ UNCHANGED <<mined, senderVars, receiptVars>>
      /\ \A n \in Nonce : pool'[n] # NoTx => pool'[n] = pool[n]
  BY DEF DropTx, FaultStep, Happens, SenderInv, NodeTypeOK
<1>2. /\ UNCHANGED <<cachedNonce, handler, sendQueue, unsent, receiptor>>
      /\ QueuedTasks' = QueuedTasks /\ LiveReceipts' = LiveReceipts
  BY <1>1, SameReceipts DEF senderVars, redisVars, QueuedTasks, receiptVars
<1>3. Count' = Count /\ Count \in Nat
  BY <1>1, CountIsANumber DEF Count, SenderInv
<1>4. NodeOK'
  BY <1>1, <1>3 DEF NonceInv, NodeOK
<1>5. RunsOK'
  BY <1>1, <1>2, SameRuns
<1>6. CoverStep
  <2>1. ASSUME NEW n \in Nonce, Count' <= n, Covered(n) PROVE Covered(n)'
    <3>1. ASSUME Single' PROVE Pursued(n)'
      <4>1. faults = {}
        BY <1>1, <3>1, FirstFault
      <4>2. pool[n] # NoTx /\ pool[n].nonce = n
        BY <2>1, <4>1 DEF Covered, NonceInv, NodeOK
      <4>3. Watched(pool[n])
        BY <4>1, <4>2 DEF NonceInv, WatchedInv
      <4>4. Pursued(n)
        BY <4>2, <4>3 DEF Watched, Pursued, RunPursues
      <4> QED
        BY <1>2, <4>4 DEF Pursued
    <3> QED
      BY <1>1, <3>1 DEF Covered
  <2> QED
    BY <2>1 DEF CoverStep
<1>7. UseStep
  BY <1>1, <1>2 DEF UseStep, Used
<1>8. FilledInv'
  BY <1>3, <1>6, <1>7, FilledStays DEF NonceInv
<1>9. WatchedInv' /\ FaultsOK'
  BY <1>1, <1>2 DEF WatchedInv, NonceInv, FaultsOK, FaultStep, Happens
<1> QED
  BY <1>2, <1>4, <1>5, <1>8, <1>9 DEF NonceInv, RunsOK

-----------------------------------------------------------------------------
(* The invariant holds at first.                                           *)
LEMMA NonceInvInit == SenderInit => NonceInv
<1> SUFFICES ASSUME SenderInit PROVE NonceInv
  OBVIOUS
<1>1. Count = 0 /\ faults = {} /\ \A n \in Nonce : pool[n] = NoTx
  BY DEF SenderInit, Count
<1>2. NodeOK /\ FaultsOK /\ WatchedInv
  BY <1>1, SenderAssumption DEF NodeOK, FaultsOK, WatchedInv, SenderInit, IdleReceiptor, Reach
<1>3. \A h \in Handler : handler[h] = Idle /\ RunOK(handler[h])
  BY SenderAssumption DEF SenderInit, Idle, RunOK, Reach
<1>4. \A task \in QueuedTasks : task.nonce = NoNonce
  BY BagOfSet, EmptyBagMembers DEF SenderInit, QueuedTasks, NewTask
<1>5. LiveReceipts = {} /\ receiptor.pc = "idle"
  BY EmptyBagMembers DEF SenderInit, LiveReceipts, IdleReceiptor
<1>6. FilledInv
  BY <1>1, <1>3, <1>4, <1>5, IdleUsesNothing DEF FilledInv, Used, SenderInit
<1> QED
  BY <1>2, <1>3, <1>6 DEF NonceInv, SenderInit

(* Every step keeps it.                                                    *)
LEMMA NonceInvStep ==
  SenderInv /\ SenderInv' /\ TasksInv /\ NonceInv /\ [SenderNext]_vars => NonceInv'
<1> SUFFICES ASSUME SenderInv, SenderInv', TasksInv, NonceInv, [SenderNext]_vars PROVE NonceInv'
  OBVIOUS
<1>1. CASE NodeNext
  BY <1>1, MiningInv, DroppingInv, DeliveringInv DEF NodeNext
<1>2. CASE QueueNext
  BY <1>2, ReceivingInv, DeliveringInv DEF QueueNext
<1>3. CASE ReceiptorNext
  BY <1>3, AskingInv, ReceiptorDiesInv, DeliveringInv DEF ReceiptorNext
<1>4. ASSUME NEW h \in Handler, HandlerNext(h) PROVE NonceInv'
  BY <1>4, GoingOnInv, ChoosingInv, FillingInv, SendingInv, HandingOverInv, SettlingInv,
     SenderDiesInv DEF HandlerNext
<1>5. CASE SenderFaultNext
  BY <1>5, SenderDiesInv, DeliveringInv, ThrowingInv, FailingInv, GoingOnInv DEF SenderFaultNext
<1>6. CASE UNCHANGED vars
  BY <1>6, DeliveringInv
<1> QED
  BY <1>1, <1>2, <1>3, <1>4, <1>5, <1>6 DEF SenderNext

(* The kinds of faults are finitely many.                                  *)
LEMMA FaultKindsAreFinite == IsFiniteSet(FaultKind)
<1> DEFINE kinds == <<"crash", "disconnect", "expire", "redis", "rpc", "timeout", "gasLimit", "funds",
                      "refused", "drop", "slow", "receiptorCrash", "receiptError">>
<1>1. kinds \in Seq(FaultKind) /\ Len(kinds) = 13
  BY DEF FaultKind
<1>2. \A kind \in FaultKind : \E i \in 1..13 : kinds[i] = kind
  BY DEF FaultKind
<1> QED
  BY <1>1, <1>2 DEF IsFiniteSet

(* Two faults are more than one.                                           *)
LEMMA TwoFaults ==
  ASSUME FaultsOK, ~Single
  PROVE  Cardinality(faults) > 1
<1>1. PICK f \in faults, g \in faults : f # g
  BY DEF Single
<1>2. IsFiniteSet(faults)
  BY FaultKindsAreFinite, FS_Subset, SenderAssumption DEF FaultsOK
<1>3. Cardinality({f, g}) = 2
  <2>1. Cardinality({f}) = 1 /\ IsFiniteSet({f})
    BY FS_Singleton
  <2>2. Cardinality({f} \cup {g}) = 2
    BY <1>1, <2>1, FS_AddElement
  <2>3. {f} \cup {g} = {f, g}
    OBVIOUS
  <2> QED
    BY <2>2, <2>3
<1>4. Cardinality({f, g}) <= Cardinality(faults)
  BY <1>1, <1>2, FS_Subset
<1>5. Cardinality(faults) \in Nat
  BY <1>2, FS_CardinalityType
<1> QED
  BY <1>3, <1>4, <1>5

(* updateNonce and the resent events together: a nonce below the cached    *)
(* one is mined, pending or answered for, when the node drops a            *)
(* transaction or any other single thing goes wrong.                       *)
THEOREM NoncesAreFilled == SenderSpec => []NoncesFilled
<1>1. SenderInv /\ NonceInv => NoncesFilled
  <2> SUFFICES ASSUME SenderInv, NonceInv, cachedNonce # NoNonce,
                      NEW n \in Count..(cachedNonce - 1), pool[n] = NoTx, ~(Cardinality(faults) > 1)
               PROVE  Filling(n)
    BY DEF NoncesFilled
  <2>1. cachedNonce \in Reach /\ Count \in Nat
    BY CountIsANumber DEF NonceInv, SenderInv
  <2>2. n \in Nonce /\ Count <= n /\ n < cachedNonce
    BY <2>1, SenderAssumption DEF Reach, Nonce
  <2>3. Covered(n)
    BY <2>1, <2>2 DEF NonceInv, FilledInv, Used, FilledBelow
  <2>4. Pursued(n)
    BY <2>3, TwoFaults DEF Covered, NonceInv
  <2>5. CASE \E task \in QueuedTasks : Retries(task, n)
    BY <2>5 DEF QueuedTasks, Retries, Filling, EventTasks
  <2>6. ASSUME NEW h \in Handler, RunPursues(handler[h], n)
        PROVE  Filling(n)
    <3>1. CASE handler[h].pc # "idle" /\ Retries(handler[h].task, n)
      BY <3>1 DEF Filling, EventTasks, TasksAtWork, Retries
    <3>2. CASE handler[h].pc = "receipting" /\ handler[h].tx.nonce = n
      BY <3>2, SenderAssumption DEF Filling, SenderInv, CacheTypeOK, Run
    <3> QED
      BY <2>6, <3>1, <3>2 DEF RunPursues
  <2>7. CASE \E task \in LiveReceipts : task.tx.nonce = n
    BY <2>7 DEF LiveReceipts, Filling, ReceiptTasks
  <2> QED
    BY <2>4, <2>5, <2>6, <2>7 DEF Pursued
<1>2. SenderInit => SenderInv /\ TasksInv /\ NonceInv
  BY SenderInvInit, TasksInvInit, NonceInvInit
<1>3. SenderInv /\ TasksInv /\ NonceInv /\ [SenderNext]_vars => (SenderInv /\ TasksInv /\ NonceInv)'
  BY SenderInvStep, TasksInvStep, NonceInvStep
<1> QED
  BY <1>1, <1>2, <1>3, PTL DEF SenderSpec

-----------------------------------------------------------------------------
(***************************************************************************)
(* An event uses one nonce.  As long as nothing went wrong that makes the  *)
(* sender work twice for an event (Steady), one callback works at a time   *)
(* (Serial), an event that is not executed has one task (OneTask), and who *)
(* has it knows the nonce: its transaction is not sent, or, when it is not *)
(* certain, it was sent with the nonce that is tried next (MaySend).       *)
(***************************************************************************)

Steady == Single /\ faults \cap RepeatingFault = {}

(* The node did not answer, or did not when it was asked for the block:    *)
(* then the transaction may have been sent.                                *)
Uncertain == faults \cap {"timeout", "rpc"} # {}

NotSent(e) == \A t \in Transactions : t.payload # e
SentWith(e, n) == \A t \in Transactions : t.payload = e => t.nonce = n
SentAs(e, tx) == \A t \in Transactions : t.payload = e => t = tx
MaySend(e, n) == NotSent(e) \/ (Uncertain /\ SentWith(e, n))
MayWait(e) == e \in executed \/ MaySend(e, cachedNonce)

OneNonce ==
  \A s, t \in Transactions : s.payload = t.payload /\ s.payload \in Event => s.nonce = t.nonce

Serial ==
  \A h \in Handler : handler[h].pc # "idle" =>
    handler[h].held /\ \A g \in Handler : handler[g].pc # "idle" => g = h

(* It gives the lock back while it has it.                                 *)
Locked ==
  \A h \in Handler :
    handler[h].pc = "settling" /\ handler[h].result # "sendDummyTxToFillNonce" => lock = h

(* Where a task of an event is, of those that are still to be worked on.   *)
EventsIn(bag) == {task.event : task \in BagToSet(bag)}
Places(e) ==
  {p \in {"sendQueue", "unsent", "handler", "receiptQueue", "unsentReceipts", "receiptor"} :
     \/ p = "sendQueue" /\ e \in EventsIn(sendQueue)
     \/ p = "unsent" /\ e \in EventsIn(unsent)
     \/ p = "handler" /\ \E h \in Handler : Owes(handler[h]) /\ handler[h].task.event = e
     \/ p = "receiptQueue" /\ e \in EventsIn(receiptQueue)
     \/ p = "unsentReceipts" /\ e \in EventsIn(unsentReceipts)
     \/ p = "receiptor" /\ receiptor.pc \in {"asking", "hung"} /\ receiptor.task.event = e}
Lone(bag, e) ==
  \A s, t \in BagToSet(bag) : s.event = e /\ t.event = e => s = t /\ bag[s] = 1
OneTaskOf(e) ==
  /\ \A p, q \in Places(e) : p = q
  /\ Lone(sendQueue, e) /\ Lone(unsent, e) /\ Lone(receiptQueue, e) /\ Lone(unsentReceipts, e)
OneTask == \A e \in Event \ executed : OneTaskOf(e)

(* What a callback knows of its event's transaction.                       *)
Knowing(run) ==
  /\ run.pc \in {"processing", "filling"} => MayWait(run.task.event)
  /\ run.pc = "locking" => MaySend(run.task.event, cachedNonce)
  /\ run.pc = "sending" => MaySend(run.task.event, run.nonce)
  /\ run.pc = "receipting" =>
       \/ run.result = "sendDummyTxToFillNonce" /\ run.task.event \in executed
       \/ /\ run.result # "sendDummyTxToFillNonce"
          /\ run.tx.payload = run.task.event /\ SentAs(run.task.event, run.tx)
          /\ run.result = "txImported" => Uncertain
  /\ run.pc \in {"updating", "setting", "settling"} /\ run.result \notin Told =>
       \/ run.task.event \in executed \/ NotSent(run.task.event)
       \/ /\ Uncertain /\ SentWith(run.task.event, run.nonce)
          /\ run.result \in {"failed", "timeout"}
          /\ run.pc = "settling" => cachedNonce = run.nonce

(* As long as the node drops nothing nobody pays more than the base price, *)
(* nobody fills a nonce, and only what is done is sent again.              *)
RunSure(run) ==
  /\ run.pc = "receipting" => run.tx \in Transactions
  /\ run.pc = "processing" /\ run.task.retry =>
       run.task.nonce = NoNonce /\ run.task.event \in executed
  /\ run.pc \notin {"idle", "processing"} =>
       ~run.task.retry /\ run.result # "sendDummyTxToFillNonce"
  /\ \/ run.pc \in {"sending", "receipting"}
     \/ run.pc \in {"updating", "setting", "settling"} /\ run.result \in {"failed", "timeout"}
     => cachedNonce \in {NoNonce, run.nonce}
Sure ==
  /\ \A t \in Transactions : t.price = BasePrice
  /\ \A task \in ReceiptTasks : task.tx \in Transactions
  /\ receiptor.pc = "rejecting" => receiptor.task.event \in executed
  /\ \A task \in QueuedTasks : task.retry => task.nonce = NoNonce /\ task.event \in executed
  /\ \A h \in Handler : RunSure(handler[h])

(* While an event that was sent after all waits to be sent again, nobody   *)
(* moves the cached nonce.                                                 *)
Stuck == \E task \in QueuedTasks : task.event \notin executed /\ ~NotSent(task.event)
NoMove ==
  Stuck => \A h \in Handler : handler[h].pc \in AfterChoice => handler[h].nonce <= cachedNonce

Calm ==
  /\ OneNonce /\ Serial /\ Locked /\ OneTask /\ NoMove
  /\ "drop" \notin faults => Sure
  /\ \A h \in Handler : Knowing(handler[h])
  /\ \A task \in QueuedTasks : MayWait(task.event)
  /\ \A task \in LiveReceipts : task.event \in executed \/ SentAs(task.event, task.tx)
OneNonceInv == Steady => Calm

-----------------------------------------------------------------------------
(* Bags with one task of an event                                          *)

(* Another one of another event changes nothing.                           *)
LEMMA LoneWith ==
  ASSUME NEW B, NEW x, NEW e, IsABag(B), Lone(B, e), x.event = e => e \notin EventsIn(B)
  PROVE  Lone(With(B, x), e)
<1>1. BagToSet(With(B, x)) = BagToSet(B) \cup {x}
  BY WithMembers
<1>2. \A s \in BagToSet(B) : s # x => With(B, x)[s] = B[s]
  BY DEF IsABag, BagToSet, SetToBag, (+), With
<1>3. x \notin BagToSet(B) => With(B, x)[x] = 1
  BY DEF IsABag, BagToSet, SetToBag, (+), With
<1> QED
  BY <1>1, <1>2, <1>3 DEF Lone, EventsIn

(* Nor does it to take one out.                                            *)
LEMMA LoneWithout ==
  ASSUME NEW B, NEW x, NEW e, IsABag(B), Lone(B, e)
  PROVE  /\ Lone(Without(B, x), e)
         /\ x \in BagToSet(B) /\ x.event = e => e \notin EventsIn(Without(B, x))
<1>1. BagToSet(Without(B, x)) \subseteq BagToSet(B)
  BY WithoutMembers
<1>2. \A s \in BagToSet(B) : s # x => Without(B, x)[s] = B[s]
  BY DEF IsABag, BagToSet, SetToBag, (-), Without
<1>3. x \in BagToSet(B) /\ B[x] = 1 => x \notin BagToSet(Without(B, x))
  BY DEF IsABag, BagToSet, SetToBag, (-), Without
<1> QED
  BY <1>1, <1>2, <1>3 DEF Lone, EventsIn

(* The events in a bag, with one task more or less.                        *)
LEMMA EventsWith ==
  ASSUME NEW B, NEW x
  PROVE  EventsIn(With(B, x)) = EventsIn(B) \cup {x.event}
BY WithMembers DEF EventsIn

(* Taking one out brings no event.                                         *)
LEMMA EventsWithout ==
  ASSUME NEW B, NEW x
  PROVE  EventsIn(Without(B, x)) \subseteq EventsIn(B)
BY WithoutMembers DEF EventsIn

(* One task moved, of an event that has no other.                          *)
LEMMA OneTaskMoved ==
  ASSUME OneTask, executed \subseteq executed',
         \A e \in Event \ executed' :
           /\ Lone(sendQueue', e) /\ Lone(unsent', e)
           /\ Lone(receiptQueue', e) /\ Lone(unsentReceipts', e)
           /\ Places(e)' \subseteq Places(e) \/ \E q : Places(e)' \subseteq {q}
  PROVE  OneTask'
<1>1. ASSUME NEW e \in Event \ executed'
      PROVE  OneTaskOf(e)'
  <2>1. OneTaskOf(e)
    BY <1>1 DEF OneTask
  <2>2. \A p, q \in Places(e)' : p = q
    BY <1>1, <2>1 DEF OneTaskOf
  <2> QED
    BY <1>1, <2>2 DEF OneTaskOf
<1> QED
  BY <1>1 DEF OneTask

-----------------------------------------------------------------------------
(* The transactions of the account                                         *)

(* They are those that are mined or pending.                               *)
LEMMA TransactionsAre ==
  ASSUME SenderInv, NonceInv, NEW t
  PROVE  t \in Transactions <=> t \in Tx /\ (IsMined(t) \/ IsPending(t))
<1>1. mined \in Seq([tx : Tx, status : BOOLEAN]) /\ Count \in Nat /\ pool \in [Nonce -> Tx \cup {NoTx}]
      /\ Count = Len(mined)
  BY CountIsANumber DEF SenderInv, NodeTypeOK, Count
<1>2. /\ \A n \in Nonce : pool[n] # NoTx => pool[n].nonce = n /\ n >= Count
      /\ \A i \in 1..Count : mined[i].tx.nonce = i - 1 /\ mined[i].tx \in Tx
  <2>1. \A i \in 1..Count : mined[i] \in [tx : Tx, status : BOOLEAN]
    <3> DEFINE S == [tx : Tx, status : BOOLEAN]
    <3>1. mined \in Seq(S) /\ Count = Len(mined)
      BY <1>1
    <3> HIDE DEF S
    <3>2. \A i \in 1..Count : mined[i] \in S
      BY <3>1
    <3> QED
      BY <3>2 DEF S
  <2> QED
    BY <2>1 DEF NonceInv, NodeOK
<1>3. ASSUME NEW i \in 1..Count, t = mined[i].tx PROVE t \in Tx /\ IsMined(t)
  <2>1. t.nonce + 1 = i /\ t.nonce < Count
    BY <1>1, <1>2, <1>3
  <2> QED
    BY <1>2, <1>3, <2>1 DEF IsMined
<1>4. ASSUME NEW n \in Nonce, t = pool[n], t # NoTx PROVE t \in Tx /\ IsPending(t)
  BY <1>1, <1>2, <1>4 DEF IsPending
<1>5. ASSUME t \in Tx, IsMined(t) PROVE t \in Transactions
  <2>1. t.nonce \in Nat
    BY <1>5 DEF Tx, Nonce
  <2>2. t.nonce + 1 \in 1..Count /\ mined[t.nonce + 1].tx = t
    BY <1>1, <1>5, <2>1 DEF IsMined
  <2> QED
    BY <2>2 DEF Transactions
<1>6. ASSUME t \in Tx, IsPending(t) PROVE t \in Transactions
  BY <1>6, SenderAssumption DEF IsPending, Tx, Transactions
<1> QED
  BY <1>3, <1>4, <1>5, <1>6 DEF Transactions

(* They have different nonces.                                             *)
LEMMA NoncesDiffer ==
  ASSUME SenderInv, NonceInv, NEW s \in Transactions, NEW t \in Transactions, s.nonce = t.nonce
  PROVE  s = t
<1>1. s \in Tx /\ t \in Tx /\ (IsMined(s) \/ IsPending(s)) /\ (IsMined(t) \/ IsPending(t))
  BY TransactionsAre
<1>2. s.nonce \in Nat /\ Count \in Nat
  BY <1>1, CountIsANumber DEF SenderInv, Tx, Nonce
<1> QED
  BY <1>1, <1>2 DEF IsMined, IsPending

(* A transaction that is mined has had its effect, or its event had it.    *)
LEMMA MinedAreDone ==
  ASSUME SenderInv, TasksInv, NEW t \in Tx, IsMined(t)
  PROVE  t.payload \in executed \cup {SelfTransfer}
<1>1. t.nonce + 1 \in 1..Len(mined) /\ mined[t.nonce + 1].tx = t
  BY CountIsANumber DEF IsMined, Count, SenderInv, Tx, Nonce
<1> QED
  BY <1>1 DEF TasksInv, MinedDone

(* The node takes one in: there is no other new one, and when all pay the  *)
(* same it replaces none.                                                  *)
LEMMA TakenIn ==
  ASSUME SenderInv, NonceInv, NEW tx \in Tx, TakeIn(tx), UNCHANGED mined
  PROVE  /\ Transactions' \subseteq Transactions \cup {tx} /\ tx \in Transactions'
         /\ \A t \in Transactions' : t.nonce = tx.nonce => t = tx
         /\ tx.price = BasePrice => Transactions' = Transactions \cup {tx}
<1>1. mined \in Seq([tx : Tx, status : BOOLEAN]) /\ Count \in Nat /\ pool \in [Nonce -> Tx \cup {NoTx}]
      /\ Count' = Count /\ tx.nonce \in Nonce
  BY CountIsANumber DEF SenderInv, NodeTypeOK, Count, Tx
<1>2. /\ pool'[tx.nonce] = tx /\ tx # NoTx /\ tx.nonce >= Count
      /\ \A n \in Nonce : n # tx.nonce => pool'[n] = pool[n]
  BY NodeTakes
<1>3. Transactions' = {mined[i].tx : i \in 1..Count} \cup ({pool'[n] : n \in Nonce} \ {NoTx})
  BY <1>1 DEF Transactions
<1>4. Transactions' \subseteq Transactions \cup {tx} /\ tx \in Transactions'
  BY <1>1, <1>2, <1>3 DEF Transactions
<1>5. ASSUME NEW t \in Transactions', t.nonce = tx.nonce PROVE t = tx
  <2>1. ASSUME NEW i \in 1..Count, t = mined[i].tx PROVE FALSE
    <3>1. t.nonce = i - 1
      BY <2>1 DEF NonceInv, NodeOK
    <3> QED
      BY <1>1, <1>2, <1>5, <3>1 DEF Nonce
  <2>2. ASSUME NEW n \in Nonce, t = pool'[n], t # NoTx PROVE t = tx
    <3>1. n # tx.nonce => pool[n].nonce = n
      BY <1>2, <2>2 DEF NonceInv, NodeOK
    <3> QED
      BY <1>2, <1>5, <2>2, <3>1
  <2> QED
    BY <1>3, <1>5, <2>1, <2>2
<1>6. ASSUME tx.price = BasePrice PROVE Transactions \subseteq Transactions'
  <2>1. pool[tx.nonce] = NoTx
    <3> SUFFICES ASSUME pool[tx.nonce] # NoTx PROVE FALSE
      OBVIOUS
    <3>1. pool[tx.nonce].price \in Price /\ pool[tx.nonce].price < tx.price
      BY <1>1 DEF TakeIn, Accepts, PriceOf, Tx
    <3>2. BasePrice \in Nat /\ \A p \in Price : p \in Nat /\ BasePrice <= p
      BY SenderAssumption DEF BasePrice
    <3> QED
      BY <1>6, <3>1, <3>2
  <2> QED
    BY <1>1, <1>2, <1>3, <2>1 DEF Transactions
<1> QED
  BY <1>4, <1>5, <1>6

(* Where the node does nothing they are the same.                          *)
LEMMA SameTransactions ==
  ASSUME UNCHANGED <<mined, pool>>
  PROVE  Transactions' = Transactions
BY DEF Transactions, Count

-----------------------------------------------------------------------------
(* What a step may do while all is steady                                  *)

(* All was steady before, and what fails now is the first to.              *)
LEMMA SteadyBefore ==
  ASSUME FaultStep, Steady'
  PROVE  /\ Steady /\ faults \subseteq faults' /\ (Uncertain => Uncertain')
         /\ "drop" \notin faults' => "drop" \notin faults
         /\ \A kind : Happens(kind) =>
              faults = {} /\ faults' = {kind} /\ kind \notin RepeatingFault
<1>1. faults \subseteq faults'
  BY DEF FaultStep, Happens
<1>2. Steady /\ (Uncertain => Uncertain')
  BY <1>1 DEF Steady, Single, Uncertain
<1>3. \A kind : Happens(kind) => faults = {} /\ faults' = {kind}
  BY FirstFault DEF Steady
<1> QED
  BY <1>1, <1>2, <1>3 DEF Steady

(* A task of a callback stays with it, is put back, or goes to the         *)
(* receiptor.                                                              *)
TaskMoves(h) ==
  \/ /\ UNCHANGED <<unsent, receiptQueue>>
     /\ Owes(handler'[h]) => Owes(handler[h]) /\ handler'[h].task.event = handler[h].task.event
  \/ /\ UNCHANGED receiptQueue /\ Owes(handler[h]) /\ ~Owes(handler'[h])
     /\ \E t : unsent' = With(unsent, t) /\ t.event = handler[h].task.event
  \/ /\ UNCHANGED unsent /\ Owes(handler[h]) /\ ~Owes(handler'[h])
     /\ \E t : receiptQueue' = With(receiptQueue, t) /\ t.event = handler[h].task.event

(* A callback that has ended has no task to answer for.                    *)
LEMMA IdleOwesNothing ==
  ASSUME SenderInv, NEW h \in Handler, handler[h].pc = "idle"
  PROVE  ~Owes(handler[h])
BY DEF SenderInv, CacheTypeOK, Run, Owes

(* The task of an event stays its only one when a callback moves it.       *)
LEMMA CallbackOneTask ==
  ASSUME SenderInv, BagsOK, Serial, OneTask, NEW h \in Handler, OnlyRun(h), handler[h].pc # "idle",
         UNCHANGED <<executed, sendQueue, unsentReceipts, receiptor>>, TaskMoves(h)
  PROVE  OneTask'
<1>1. \A g \in Handler \ {h} : ~Owes(handler[g]) /\ handler'[g] = handler[g]
  BY IdleOwesNothing DEF Serial, OnlyRun
<1>2. ASSUME NEW e \in Event \ executed'
      PROVE  /\ Lone(sendQueue', e) /\ Lone(unsent', e)
             /\ Lone(receiptQueue', e) /\ Lone(unsentReceipts', e)
             /\ Places(e)' \subseteq Places(e) \/ \E q : Places(e)' \subseteq {q}
  <2>1. OneTaskOf(e)
    BY <1>2 DEF OneTask
  <2>2. Owes(handler[h]) /\ handler[h].task.event = e => Places(e) = {"handler"}
    BY <2>1 DEF OneTaskOf, Places
  <2>3. CASE /\ UNCHANGED <<unsent, receiptQueue>>
             /\ Owes(handler'[h]) => Owes(handler[h]) /\ handler'[h].task.event = handler[h].task.event
    <3>1. Places(e)' \subseteq Places(e)
      BY <1>1, <2>3 DEF Places
    <3> QED
      BY <2>1, <2>3, <3>1 DEF OneTaskOf
  <2>4. ASSUME UNCHANGED receiptQueue, Owes(handler[h]), ~Owes(handler'[h]),
               NEW t, unsent' = With(unsent, t), t.event = handler[h].task.event
        PROVE  /\ Lone(unsent', e)
               /\ Places(e)' \subseteq Places(e) \/ \E q : Places(e)' \subseteq {q}
    <3>1. EventsIn(unsent') = EventsIn(unsent) \cup {t.event}
      BY <2>4, EventsWith
    <3>2. CASE t.event = e
      <4>1. e \notin EventsIn(unsent) /\ Places(e)' \subseteq {"unsent"}
        BY <1>1, <2>2, <2>4, <3>1, <3>2 DEF Places
      <4> QED
        BY <2>1, <2>4, <4>1, LoneWith DEF OneTaskOf, BagsOK
    <3>3. CASE t.event # e
      <4>1. Places(e)' \subseteq Places(e)
        BY <1>1, <2>4, <3>1, <3>3 DEF Places
      <4> QED
        BY <2>1, <2>4, <3>3, <4>1, LoneWith DEF OneTaskOf, BagsOK
    <3> QED
      BY <3>2, <3>3
  <2>5. ASSUME UNCHANGED unsent, Owes(handler[h]), ~Owes(handler'[h]),
               NEW t, receiptQueue' = With(receiptQueue, t), t.event = handler[h].task.event
        PROVE  /\ Lone(receiptQueue', e)
               /\ Places(e)' \subseteq Places(e) \/ \E q : Places(e)' \subseteq {q}
    <3>1. EventsIn(receiptQueue') = EventsIn(receiptQueue) \cup {t.event}
      BY <2>5, EventsWith
    <3>2. CASE t.event = e
      <4>1. e \notin EventsIn(receiptQueue) /\ Places(e)' \subseteq {"receiptQueue"}
        BY <1>1, <2>2, <2>5, <3>1, <3>2 DEF Places
      <4> QED
        BY <2>1, <2>5, <4>1, LoneWith DEF OneTaskOf, BagsOK
    <3>3. CASE t.event # e
      <4>1. Places(e)' \subseteq Places(e)
        BY <1>1, <2>5, <3>1, <3>3 DEF Places
      <4> QED
        BY <2>1, <2>5, <3>3, <4>1, LoneWith DEF OneTaskOf, BagsOK
    <3> QED
      BY <3>2, <3>3
  <2> QED
    BY <2>1, <2>3, <2>4, <2>5 DEF TaskMoves, OneTaskOf
<1> QED
  BY <1>2, OneTaskMoved

(* One callback took a step.                                               *)
LEMMA CallbackCalm ==
  ASSUME SenderInv, SenderInv', NonceInv, TasksInv, Calm, FaultStep, Steady',
         NEW h \in Handler, OnlyRun(h), handler[h].pc # "idle",
         UNCHANGED <<executed, sendQueue, unsentReceipts, receiptor>>, TaskMoves(h),
         handler'[h].pc # "idle" => handler'[h].held,
         handler'[h].pc = "settling" /\ handler'[h].result # "sendDummyTxToFillNonce" => lock' = h,
         OneNonce',
         \A t \in Transactions' :
           \/ t \in Transactions \/ t.payload = SelfTransfer
           \/ Owes(handler[h]) /\ t.payload = handler[h].task.event,
         "drop" \notin faults' =>
           /\ Transactions \subseteq Transactions'
           /\ \A t \in Transactions' : t \in Transactions \/ t.price = BasePrice,
         cachedNonce' = cachedNonce \/ ~Stuck,
         handler'[h].pc \in AfterChoice =>
           /\ UNCHANGED unsent
           /\ Stuck => handler'[h].nonce <= cachedNonce,
         Knowing(handler[h])',
         \A task \in QueuedTasks' : task \in QueuedTasks \/ MayWait(task.event)',
         \A task \in LiveReceipts' :
           \/ task \in LiveReceipts \/ task.event \in executed
           \/ SentAs(task.event, task.tx)',
         "drop" \notin faults' =>
           /\ RunSure(handler[h])'
           /\ \A task \in QueuedTasks' :
                task \in QueuedTasks \/ (task.retry => task.nonce = NoNonce /\ task.event \in executed)
           /\ \A task \in ReceiptTasks' : task \in ReceiptTasks \/ task.tx \in Transactions'
  PROVE  Calm'
<1>1. /\ faults \subseteq faults' /\ (Uncertain => Uncertain')
      /\ "drop" \notin faults' => Sure
  BY SteadyBefore DEF Calm
<1>2. /\ \A g \in Handler \ {h} : handler'[g] = handler[g] /\ handler'[g].pc = "idle"
      /\ BagsOK
  BY DEF OnlyRun, Calm, Serial, TasksInv
<1>3. Serial'
  BY <1>2 DEF Serial
<1>4. Locked'
  BY <1>2 DEF Locked
<1>5. OneTask'
  BY <1>2, CallbackOneTask DEF Calm
<1>6. ASSUME NEW e \in Event \ executed,
             \/ e \in EventsIn(sendQueue) \cup EventsIn(unsent)
             \/ e \in EventsIn(receiptQueue) \cup EventsIn(unsentReceipts)
             \/ receiptor.pc \in {"asking", "hung"} /\ receiptor.task.event = e,
             NEW t \in Transactions', t.payload = e
      PROVE  t \in Transactions
  <2>1. OneTaskOf(e)
    BY DEF Calm, OneTask
  <2>2. ~(Owes(handler[h]) /\ handler[h].task.event = e)
    BY <1>6, <2>1 DEF OneTaskOf, Places
  <2> QED
    BY <1>6, <2>2, SenderAssumption
<1>7. \A task \in QueuedTasks :
        /\ task.event \in Event
        /\ task.event \in EventsIn(sendQueue) \cup EventsIn(unsent)
  BY DEF QueuedTasks, EventsIn, SenderInv, QueuesTypeOK, EventTask
<1>8. \A task \in LiveReceipts :
        /\ task.event \in Event
        /\ \/ task.event \in EventsIn(receiptQueue) \cup EventsIn(unsentReceipts)
           \/ receiptor.pc \in {"asking", "hung"} /\ receiptor.task.event = task.event
  BY DEF LiveReceipts, EventsIn, SenderInv, QueuesTypeOK, ReceiptTask, ReceiptorRun
<1>9. ASSUME NEW task \in QueuedTasks, task.event \notin executed, ~NotSent(task.event)'
      PROVE  ~NotSent(task.event)
  <2>1. PICK t \in Transactions' : t.payload = task.event
    BY <1>9 DEF NotSent
  <2>2. t \in Transactions
    BY <1>6, <1>7, <1>9, <2>1
  <2> QED
    BY <2>1, <2>2 DEF NotSent
<1>10. ASSUME NEW task \in QueuedTasks PROVE MayWait(task.event)'
  <2>1. MayWait(task.event)
    BY DEF Calm
  <2>2. CASE task.event \in executed \/ NotSent(task.event)
    BY <1>9, <2>2 DEF MayWait, MaySend
  <2>3. CASE task.event \notin executed /\ ~NotSent(task.event)
    <3>1. Uncertain' /\ cachedNonce' = cachedNonce /\ SentWith(task.event, cachedNonce)
      BY <1>1, <2>1, <2>3 DEF MayWait, MaySend, Stuck
    <3>2. \A t \in Transactions' : t.payload = task.event => t.nonce = cachedNonce'
      BY <1>6, <1>7, <2>3, <3>1 DEF SentWith
    <3> QED
      BY <3>1, <3>2 DEF MayWait, MaySend, SentWith
  <2> QED
    BY <2>2, <2>3
<1>11. ASSUME NEW task \in LiveReceipts
       PROVE  task.event \in executed \/ SentAs(task.event, task.tx)'
  <2>1. task.event \in executed \/ SentAs(task.event, task.tx)
    BY DEF Calm
  <2> QED
    BY <1>6, <1>8, <2>1 DEF SentAs
<1>12. NoMove'
  <2>1. SUFFICES ASSUME Stuck', NEW g \in Handler, handler'[g].pc \in AfterChoice
                 PROVE  handler'[g].nonce <= cachedNonce'
    BY DEF NoMove
  <2>2. g = h /\ UNCHANGED unsent
    BY <1>2, <2>1 DEF AfterChoice
  <2>3. Stuck
    <3>1. QueuedTasks' = QueuedTasks
      BY <2>2 DEF QueuedTasks
    <3> QED
      BY <1>9, <2>1, <3>1 DEF Stuck
  <2> QED
    BY <2>1, <2>2, <2>3
<1>13. ASSUME "drop" \notin faults' PROVE Sure'
  <2>1. Sure
    BY <1>1, <1>13
  <2>2. \A t \in Transactions' : t.price = BasePrice
    BY <1>13, <2>1 DEF Sure
  <2>3. \A task \in ReceiptTasks' : task.tx \in Transactions'
    BY <1>13, <2>1 DEF Sure
  <2>4. \A task \in QueuedTasks' : task.retry => task.nonce = NoNonce /\ task.event \in executed'
    BY <1>13, <2>1 DEF Sure
  <2>5. ASSUME NEW g \in Handler PROVE RunSure(handler[g])'
    BY <1>2, <1>13, <2>5 DEF RunSure
  <2> QED
    BY <2>1, <2>2, <2>3, <2>4, <2>5 DEF Sure
<1>14. ASSUME NEW g \in Handler PROVE Knowing(handler[g])'
  BY <1>2, <1>14 DEF Knowing
<1> QED
  BY <1>3, <1>4, <1>5, <1>10, <1>11, <1>12, <1>13, <1>14 DEF Calm

(* When it is not certain what was sent nothing else went wrong.           *)
LEMMA UncertainMeans ==
  ASSUME Steady, Uncertain
  PROVE  "drop" \notin faults /\ faults # {}
BY DEF Steady, Single, Uncertain

(* What is known of a callback at work.                                    *)
LEMMA CalmAtWork ==
  ASSUME SenderInv, NonceInv, Calm, NEW h \in Handler, handler[h].pc # "idle"
  PROVE  /\ handler[h].held /\ Knowing(handler[h]) /\ RunOK(handler[h])
         /\ "drop" \notin faults => RunSure(handler[h])
         /\ handler[h].task \in EventTask /\ handler[h].task.event \in Event
         /\ handler \in [Handler -> Run] /\ CacheTypeOK /\ handler[h] \in Run
BY AtWork DEF Calm, Serial, Sure, EventTask

(* One callback took a step that the node does not see.                    *)
LEMMA QuietCalm ==
  ASSUME SenderInv, SenderInv', NonceInv, TasksInv, Calm, FaultStep, Steady',
         NEW h \in Handler, OnlyRun(h), handler[h].pc # "idle",
         UNCHANGED <<mined, pool, executed, sendQueue, receiptVars>>, TaskMoves(h),
         handler'[h].pc # "idle" => handler'[h].held,
         handler'[h].pc = "settling" /\ handler'[h].result # "sendDummyTxToFillNonce" => lock' = h,
         cachedNonce' = cachedNonce \/ ~Stuck,
         handler'[h].pc \in AfterChoice =>
           /\ UNCHANGED unsent
           /\ Stuck => handler'[h].nonce <= cachedNonce,
         Knowing(handler[h])',
         \A task \in QueuedTasks' :
           \/ task \in QueuedTasks
           \/ /\ MayWait(task.event)'
              /\ "drop" \notin faults' /\ task.retry => task.nonce = NoNonce /\ task.event \in executed,
         "drop" \notin faults' => RunSure(handler[h])'
  PROVE  Calm'
<1>1. Transactions' = Transactions
  BY SameTransactions
<1>2. LiveReceipts' = LiveReceipts /\ ReceiptTasks' = ReceiptTasks
      /\ UNCHANGED <<unsentReceipts, receiptor>>
  BY SameReceipts DEF receiptVars, ReceiptTasks
<1>3. OneNonce'
  BY <1>1 DEF Calm, OneNonce
<1>4. "drop" \notin faults' =>
        /\ Transactions \subseteq Transactions'
        /\ \A t \in Transactions' : t \in Transactions \/ t.price = BasePrice
  BY <1>1
<1>5. "drop" \notin faults' =>
        /\ RunSure(handler[h])'
        /\ \A task \in QueuedTasks' :
             task \in QueuedTasks \/ (task.retry => task.nonce = NoNonce /\ task.event \in executed)
        /\ \A task \in ReceiptTasks' : task \in ReceiptTasks \/ task.tx \in Transactions'
  BY <1>2
<1>6. /\ \A t \in Transactions' :
           \/ t \in Transactions \/ t.payload = SelfTransfer
           \/ Owes(handler[h]) /\ t.payload = handler[h].task.event
      /\ \A task \in QueuedTasks' : task \in QueuedTasks \/ MayWait(task.event)'
      /\ \A task \in LiveReceipts' :
           \/ task \in LiveReceipts \/ task.event \in executed
           \/ SentAs(task.event, task.tx)'
  BY <1>1, <1>2
<1> QED
  BY <1>2, <1>3, <1>4, <1>5, <1>6, CallbackCalm

(* It goes on with the same task, to another place.                        *)
LEMMA GoingOnCalm ==
  ASSUME SenderInv, SenderInv', NonceInv, TasksInv, Calm, FaultStep, Steady',
         NEW h \in Handler, OnlyRun(h), handler[h].pc # "idle",
         UNCHANGED <<mined, pool, executed, sendQueue, receiptVars, unsent>>,
         handler'[h].task = handler[h].task, handler'[h].held = handler[h].held,
         Owes(handler'[h]) => Owes(handler[h]),
         handler'[h].pc = "settling" /\ handler'[h].result # "sendDummyTxToFillNonce" => lock' = h,
         cachedNonce' = cachedNonce \/ ~Stuck,
         handler'[h].pc \in AfterChoice /\ Stuck => handler'[h].nonce <= cachedNonce,
         Knowing(handler[h])',
         "drop" \notin faults' => RunSure(handler[h])'
  PROVE  Calm'
<1>1. QueuedTasks' = QueuedTasks
  BY DEF QueuedTasks
<1>2. TaskMoves(h)
  BY DEF TaskMoves, receiptVars
<1>3. handler'[h].held
  BY CalmAtWork
<1> QED
  BY <1>1, <1>2, <1>3, QuietCalm

(* It ends, and puts its task back or not.                                 *)
LEMMA EndingCalm ==
  ASSUME SenderInv, SenderInv', NonceInv, TasksInv, Calm, FaultStep, Steady',
         NEW h \in Handler, OnlyRun(h), handler[h].pc # "idle", handler'[h] = Idle,
         UNCHANGED <<mined, pool, executed, cachedNonce, sendQueue, receiptVars>>,
         \/ UNCHANGED unsent
         \/ \E task : /\ unsent' = With(unsent, task) /\ task.event = handler[h].task.event
                      /\ Owes(handler[h]) /\ MayWait(task.event)
                      /\ "drop" \notin faults /\ task.retry =>
                           task.nonce = NoNonce /\ task.event \in executed
  PROVE  Calm'
<1>1. handler'[h].pc = "idle" /\ ~Owes(handler'[h]) /\ ~handler'[h].held
  BY DEF Idle, Owes
<1>2. Knowing(handler[h])' /\ RunSure(handler[h])'
  BY <1>1 DEF Knowing, RunSure
<1>3. TaskMoves(h)
  BY <1>1 DEF TaskMoves, receiptVars
<1>4. \A task \in QueuedTasks' :
        \/ task \in QueuedTasks
        \/ /\ MayWait(task.event)'
           /\ "drop" \notin faults' /\ task.retry => task.nonce = NoNonce /\ task.event \in executed
  <2>1. \A e : MayWait(e) => MayWait(e)'
    <3>1. Transactions' = Transactions /\ (Uncertain => Uncertain')
      BY SameTransactions, SteadyBefore
    <3> QED
      BY <3>1 DEF MayWait, MaySend, NotSent, SentWith
  <2>2. "drop" \notin faults' => "drop" \notin faults
    BY SteadyBefore
  <2>3. ASSUME NEW task, unsent' = With(unsent, task)
        PROVE  QueuedTasks' = QueuedTasks \cup {task}
    BY <2>3, WithMembers DEF QueuedTasks
  <2>4. UNCHANGED unsent => QueuedTasks' = QueuedTasks
    BY DEF QueuedTasks
  <2> QED
    BY <2>1, <2>2, <2>3, <2>4
<1>5. handler'[h].pc \notin AfterChoice /\ handler'[h].pc # "settling"
  BY <1>1 DEF AfterChoice
<1> QED
  BY <1>1, <1>2, <1>3, <1>4, <1>5, QuietCalm

(* What it means that a task waits whose event was sent after all.         *)
LEMMA StuckMeans ==
  ASSUME SenderInv, NonceInv, TasksInv, Calm, Steady, Stuck
  PROVE  /\ "drop" \notin faults /\ Sure
         /\ cachedNonce \in Nonce /\ Count <= cachedNonce
         /\ \E t \in Transactions, task \in QueuedTasks :
              /\ t.nonce = cachedNonce /\ t.payload = task.event
              /\ task.event \in Event \ executed
<1>1. PICK task \in QueuedTasks : task.event \notin executed /\ ~NotSent(task.event)
  BY DEF Stuck
<1>2. task.event \in Event
  BY DEF QueuedTasks, SenderInv, QueuesTypeOK, EventTask
<1>3. Uncertain /\ SentWith(task.event, cachedNonce)
  BY <1>1 DEF Calm, MayWait, MaySend
<1>4. PICK t \in Transactions : t.payload = task.event
  BY <1>1 DEF NotSent
<1>5. t \in Tx /\ (IsMined(t) \/ IsPending(t)) /\ t.nonce = cachedNonce
  BY <1>3, <1>4, TransactionsAre DEF SentWith
<1>6. ~IsMined(t)
  BY <1>1, <1>2, <1>4, <1>5, MinedAreDone, SenderAssumption
<1>7. "drop" \notin faults /\ Sure
  BY <1>3, UncertainMeans DEF Calm
<1>8. cachedNonce \in Nonce /\ Count <= cachedNonce
  BY <1>5, <1>6, CountIsANumber DEF IsPending, Tx, Nonce, SenderInv
<1> QED
  BY <1>1, <1>2, <1>4, <1>5, <1>7, <1>8

-----------------------------------------------------------------------------
(* The steps of a callback                                                 *)

(* What may be sent still may while the transactions are the same.         *)
LEMMA MaySendStays ==
  ASSUME NEW e, NEW n, Transactions' = Transactions, Uncertain => Uncertain', MaySend(e, n)
  PROVE  MaySend(e, n)'
BY DEF MaySend, NotSent, SentWith

(* It looks at its event.                                                  *)
LEMMA LookingCalm ==
  ASSUME SenderInv, SenderInv', NonceInv, TasksInv, Calm, FaultStep, Steady', NEW h \in Handler,
         SkipEvent(h) \/ ProcessEventTask(h)
  PROVE  Calm'
<1>1. /\ handler[h].pc = "processing"
      /\ UNCHANGED <<mined, pool, executed, cachedNonce, sendQueue, receiptVars, unsent>>
  BY DEF SkipEvent, ProcessEventTask, AckMsg, chainVars, redisVars
<1>2. /\ Knowing(handler[h]) /\ RunOK(handler[h])
      /\ "drop" \notin faults => RunSure(handler[h])
      /\ handler \in [Handler -> Run] /\ CacheTypeOK
  BY <1>1, CalmAtWork
<1>3. OnlyRun(h)
  BY CallbackMoves DEF HandlerNext, SkipEvent, ProcessEventTask, ExitForFunds
<1>4. "drop" \notin faults' => "drop" \notin faults
  BY SteadyBefore
<1>5. CASE SkipEvent(h) /\ ~IsRetryOf(handler[h].task, Count)
  <2>1. handler'[h] = Idle
    BY <1>2, <1>5 DEF SkipEvent, AckMsg
  <2> QED
    BY <1>1, <1>3, <2>1, EndingCalm
<1>6. ASSUME NEW pc \in {"filling", "locking"}, handler' = [handler EXCEPT ![h].pc = pc],
             pc = "filling" => handler[h].task.event \in executed /\ IsRetryOf(handler[h].task, Count),
             pc = "locking" => handler[h].task.event \notin executed
      PROVE  Calm'
  <2>1. /\ handler'[h].pc = pc /\ handler'[h].task = handler[h].task
        /\ handler'[h].held = handler[h].held /\ handler'[h].result = handler[h].result
    BY <1>2, <1>6, MoveLeaves
  <2>2. Transactions' = Transactions /\ (Uncertain => Uncertain')
    BY <1>1, SameTransactions, SteadyBefore
  <2>3. pc = "locking" => MaySend(handler[h].task.event, cachedNonce)
    BY <1>1, <1>2, <1>6 DEF Knowing, MayWait
  <2>4. Knowing(handler[h])'
    <3>1. pc = "filling" => MayWait(handler[h].task.event)'
      BY <1>1, <1>6, <2>1 DEF MayWait
    <3>2. pc = "locking" => MaySend(handler[h].task.event, cachedNonce)'
      <4>1. PICK e, n : e = handler[h].task.event /\ n = cachedNonce
        OBVIOUS
      <4>2. pc = "locking" => MaySend(e, n)'
        BY <2>2, <2>3, <4>1, MaySendStays
      <4> QED
        BY <1>1, <2>1, <4>1, <4>2
    <3> QED
      BY <1>6, <2>1, <3>1, <3>2 DEF Knowing
  <2>5. "drop" \notin faults' => RunSure(handler[h])'
    BY <1>1, <1>2, <1>4, <1>6, <2>1 DEF RunSure, RunOK, IsRetryOf
  <2>6. Owes(handler'[h]) => Owes(handler[h])
    BY <1>1, <2>1 DEF Owes
  <2>7. handler'[h].pc \notin AfterChoice /\ handler'[h].pc # "settling"
    BY <1>6, <2>1 DEF AfterChoice
  <2> QED
    BY <1>1, <1>3, <2>1, <2>4, <2>5, <2>6, <2>7, GoingOnCalm
<1> QED
  BY <1>5, <1>6 DEF SkipEvent, ProcessEventTask

(* It chooses the cached nonce, or one that nobody used.                   *)
LEMMA ChoosingCalm ==
  ASSUME SenderInv, SenderInv', NonceInv, TasksInv, Calm, FaultStep, Steady', NEW h \in Handler,
         LockAndChooseNonce(h)
  PROVE  Calm'
<1> DEFINE task == handler[h].task
           n == handler'[h].nonce
<1>1. /\ handler[h].pc = "locking"
      /\ UNCHANGED <<mined, pool, executed, cachedNonce, sendQueue, receiptVars, unsent>>
  BY DEF LockAndChooseNonce, chainVars
<1>2. /\ Knowing(handler[h]) /\ RunOK(handler[h])
      /\ "drop" \notin faults => RunSure(handler[h])
  BY <1>1, CalmAtWork
<1>3. OnlyRun(h)
  BY CallbackMoves DEF HandlerNext, LockAndChooseNonce, ExitForFunds
<1>4. Steady /\ faults' = faults /\ (Uncertain => Uncertain') /\ Transactions' = Transactions
  BY <1>1, ChoiceLeaves, SteadyBefore, SameTransactions DEF RepeatingFault
<1>5. /\ handler'[h].pc = "sending" /\ handler'[h].task = task /\ handler'[h].held = handler[h].held
      /\ handler'[h].result = handler[h].result
      /\ ~IsRetryOf(task, Count) => n = ReadNonce
  BY <1>4, ChoiceLeaves, SteadyBefore DEF RepeatingFault
<1>6. "drop" \notin faults => ~task.retry /\ n = ReadNonce
  BY <1>1, <1>2, <1>5 DEF RunSure, IsRetryOf
<1>7. MaySend(task.event, n)
  <2>1. MaySend(task.event, cachedNonce)
    BY <1>1, <1>2 DEF Knowing
  <2>2. ASSUME ~NotSent(task.event) PROVE n = cachedNonce
    <3>1. PICK t \in Transactions : t.payload = task.event
      BY <2>2 DEF NotSent
    <3>2. t.nonce = cachedNonce /\ t \in Tx /\ Uncertain
      BY <2>1, <2>2, <3>1, TransactionsAre DEF MaySend, SentWith
    <3>3. cachedNonce # NoNonce
      BY <3>2, SenderAssumption DEF Tx, Nonce
    <3> QED
      BY <1>4, <1>6, <3>2, <3>3, UncertainMeans DEF ReadNonce
  <2> QED
    BY <2>1, <2>2 DEF MaySend
<1>8. Stuck => n <= cachedNonce
  <2> SUFFICES ASSUME Stuck PROVE n <= cachedNonce
    OBVIOUS
  <2>1. "drop" \notin faults /\ cachedNonce \in Nonce
    BY <1>4, StuckMeans
  <2>2. n = cachedNonce /\ cachedNonce \in Nat
    BY <1>6, <2>1, SenderAssumption DEF ReadNonce, Nonce
  <2> QED
    BY <2>2
<1> HIDE DEF n, task
<1>9. Knowing(handler[h])'
  <2>1. PICK e, k : e = handler[h].task.event /\ k = n
    OBVIOUS
  <2>2. MaySend(e, k)'
    BY <1>4, <1>7, <2>1, MaySendStays DEF task
  <2>3. e = handler'[h].task.event /\ k = handler'[h].nonce
    BY <1>5, <2>1 DEF task, n
  <2>4. MaySend(handler[h].task.event, handler[h].nonce)'
    BY <2>2, <2>3
  <2> QED
    BY <1>5, <2>4 DEF Knowing
<1>10. "drop" \notin faults' => RunSure(handler[h])'
  <2>1. "drop" \notin faults => cachedNonce \in {NoNonce, n}
    BY <1>6 DEF ReadNonce
  <2> QED
    BY <1>1, <1>2, <1>4, <1>5, <1>6, <2>1 DEF RunSure, RunOK, n, task
<1>11. Owes(handler'[h]) => Owes(handler[h])
  BY <1>1, <1>5 DEF Owes
<1> QED
  BY <1>1, <1>3, <1>5, <1>8, <1>9, <1>10, <1>11, GoingOnCalm DEF n, task

(* It fills a nonce: then the node dropped a transaction.                  *)
LEMMA FillingCalm ==
  ASSUME SenderInv, SenderInv', NonceInv, TasksInv, Calm, FaultStep, Steady', NEW h \in Handler,
         SendToSelf(h)
  PROVE  Calm'
<1> DEFINE tx == SelfTx(h)
<1>1. /\ handler[h].pc = "filling"
      /\ UNCHANGED <<mined, executed, cachedNonce, sendQueue, receiptVars>>
  BY DEF SendToSelf, redisVars
<1>2. /\ Knowing(handler[h]) /\ RunOK(handler[h])
      /\ "drop" \notin faults => RunSure(handler[h])
      /\ handler[h].held /\ handler[h].task \in EventTask /\ handler[h] \in Run
  BY <1>1, CalmAtWork
<1>3. OnlyRun(h)
  BY CallbackMoves DEF HandlerNext, SendToSelf, ExitForFunds
<1>4. "drop" \in faults /\ "drop" \in faults' /\ Steady
  BY <1>1, <1>2, SteadyBefore DEF RunOK, RunSure
<1>5. handler[h].task.event \in executed
  BY <1>1 DEF TasksInv, RunsCarryTheirEvents
<1>6. ~Stuck
  BY <1>4, StuckMeans
<1>7. tx \in Tx /\ tx.payload = SelfTransfer /\ tx # NoTx
  BY <1>1, <1>2, BasePriceIsAPrice, SenderAssumption DEF SelfTx, Tx, Run
<1>8. Owes(handler[h])
  BY <1>1, <1>2 DEF Owes
<1>9. CASE handler'[h] = Idle
  <2>1. UNCHANGED pool /\ (unsent' = unsent \/ unsent' = With(unsent, handler[h].task))
    <3>1. ~TimesOut(tx)
      BY <1>4, SteadyBefore DEF TimesOut
    <3> QED
      BY <1>9, <3>1, FillLeaves DEF Idle
  <2> QED
    BY <1>1, <1>3, <1>4, <1>5, <1>8, <1>9, <2>1, EndingCalm DEF MayWait
<1>10. CASE /\ TakeIn(tx) \/ (Knows(tx) /\ UNCHANGED pool)
            /\ handler'[h].pc = "receipting" /\ handler'[h].tx = tx
            /\ handler'[h].task = handler[h].task /\ handler'[h].held = handler[h].held
            /\ handler'[h].result = "sendDummyTxToFillNonce" /\ UNCHANGED unsent
  <2> HIDE DEF tx
  <2>1. Transactions' \subseteq Transactions \cup {tx}
    BY <1>1, <1>7, <1>10, TakenIn, SameTransactions
  <2>2. OneNonce'
    BY <1>7, <2>1, SenderAssumption DEF Calm, OneNonce
  <2>3. Knowing(handler[h])'
    BY <1>1, <1>5, <1>10 DEF Knowing
  <2>4. QueuedTasks' = QueuedTasks /\ LiveReceipts' = LiveReceipts
        /\ UNCHANGED <<receiptQueue, unsentReceipts, receiptor>>
    BY <1>1, <1>10, SameReceipts DEF QueuedTasks, receiptVars
  <2>5. TaskMoves(h)
    BY <1>8, <1>10, <2>4 DEF TaskMoves
  <2> QED
    BY <1>1, <1>2, <1>3, <1>4, <1>6, <1>7, <1>10, <2>1, <2>2, <2>3, <2>4, <2>5, CallbackCalm
<1> QED
  BY <1>9, <1>10, FillLeaves

(* It reads the old nonce, and saves its own.                              *)
LEMMA SavingCalm ==
  ASSUME SenderInv, SenderInv', NonceInv, TasksInv, Calm, FaultStep, Steady', NEW h \in Handler,
         ReadOldNonce(h) \/ SetNonce(h)
  PROVE  Calm'
<1>1. /\ handler[h].pc \in {"updating", "setting"}
      /\ UNCHANGED <<mined, pool, executed, sendQueue, receiptVars, unsent, lock, faults>>
  BY DEF ReadOldNonce, SetNonce, chainVars, redisVars, historyVars
<1>2. /\ Knowing(handler[h]) /\ RunOK(handler[h])
      /\ "drop" \notin faults => RunSure(handler[h])
      /\ handler \in [Handler -> Run] /\ CacheTypeOK /\ handler[h].nonce \in Nat
  BY <1>1, CalmAtWork, TaskAtWork
<1>3. OnlyRun(h)
  BY CallbackMoves DEF HandlerNext, ReadOldNonce, SetNonce, ExitForFunds
<1>4. Steady /\ Transactions' = Transactions /\ Uncertain' = Uncertain
  BY <1>1, SteadyBefore, SameTransactions DEF Uncertain
<1>5. /\ lock = h
      /\ handler[h].pc = "setting" => cachedNonce = NoNonce \/ cachedNonce < handler[h].nonce
  BY <1>1, <1>4 DEF SenderInv, LockProtects, Holding, Steady, RepeatingFault
<1>6. Stuck => handler[h].nonce <= cachedNonce /\ cachedNonce \in Nat /\ cachedNonce # NoNonce
  <2>1. Stuck => cachedNonce \in Nonce
    BY <1>4, StuckMeans
  <2> QED
    BY <1>1, <2>1, SenderAssumption DEF Calm, NoMove, AfterChoice, Nonce
<1>7. PICK pc \in {"setting", "settling"} :
        /\ handler' = [handler EXCEPT ![h].pc = pc]
        /\ \/ /\ cachedNonce' = cachedNonce
              /\ pc = "settling" => cachedNonce # NoNonce
           \/ cachedNonce' = handler[h].nonce /\ handler[h].pc = "setting"
  BY DEF ReadOldNonce, SetNonce, redisVars
<1>8. /\ handler'[h].pc = pc /\ handler'[h].task = handler[h].task
      /\ handler'[h].held = handler[h].held /\ handler'[h].result = handler[h].result
      /\ handler'[h].nonce = handler[h].nonce
  BY <1>2, <1>7, MoveLeaves
<1>9. cachedNonce' = cachedNonce \/ ~Stuck
  BY <1>2, <1>5, <1>6, <1>7
<1>10. "drop" \notin faults' => RunSure(handler[h])'
  BY <1>1, <1>2, <1>7, <1>8 DEF RunSure
<1>11. Knowing(handler[h])'
  <2>1. ASSUME handler[h].result \notin Told
        PROVE  \/ handler[h].task.event \in executed \/ NotSent(handler[h].task.event)
               \/ /\ Uncertain /\ SentWith(handler[h].task.event, handler[h].nonce)
                  /\ handler[h].result \in {"failed", "timeout"}
                  /\ pc = "settling" => cachedNonce' = handler[h].nonce
    <3>1. ASSUME Uncertain, handler[h].result \in {"failed", "timeout"}
          PROVE  cachedNonce \in {NoNonce, handler[h].nonce}
      BY <1>1, <1>2, <1>4, <3>1, UncertainMeans DEF RunSure
    <3> QED
      BY <1>1, <1>2, <1>7, <2>1, <3>1 DEF Knowing
  <2>2. \A e, n : /\ NotSent(e)' <=> NotSent(e)
                  /\ SentWith(e, n)' <=> SentWith(e, n)
    BY <1>4 DEF NotSent, SentWith
  <2> QED
    BY <1>1, <1>4, <1>7, <1>8, <2>1, <2>2 DEF Knowing, NotSent, SentWith
<1>12. Owes(handler'[h]) => Owes(handler[h])
  BY <1>1, <1>7, <1>8 DEF Owes
<1> QED
  BY <1>1, <1>3, <1>5, <1>6, <1>8, <1>9, <1>10, <1>11, <1>12, GoingOnCalm

(* A transaction of the event that the node has not mined is the one that  *)
(* is sent again, unless nothing is to be sent.                            *)
LEMMA SentBefore ==
  ASSUME SenderInv, NonceInv, TasksInv, Calm, Steady, NEW h \in Handler, NEW price \in Price,
         handler[h].pc = "sending", price \in GasPrices(handler[h].task),
         ~NotSent(handler[h].task.event), handler[h].task.event \notin executed
  PROVE  Uncertain /\ Knows(EventTx(h, price))
<1> DEFINE e == handler[h].task.event
           n == handler[h].nonce
<1>1. /\ Knowing(handler[h]) /\ e \in Event /\ handler[h].task \in EventTask
      /\ "drop" \notin faults => RunSure(handler[h])
  BY CalmAtWork
<1>2. PICK t \in Transactions : t.payload = e
  BY DEF NotSent
<1>3. Uncertain /\ SentWith(e, n)
  BY <1>1 DEF Knowing, MaySend
<1>4. t \in Tx /\ (IsMined(t) \/ IsPending(t)) /\ t.nonce = n
  BY <1>2, <1>3, TransactionsAre DEF SentWith
<1>5. ~IsMined(t)
  BY <1>1, <1>2, <1>4, MinedAreDone, SenderAssumption
<1>6. t.price = BasePrice /\ price = BasePrice
  <2>1. "drop" \notin faults /\ Sure /\ RunSure(handler[h])
    BY <1>1, <1>3, UncertainMeans DEF Calm
  <2>2. ~handler[h].task.retry
    BY <2>1 DEF RunSure
  <2> QED
    BY <2>1, <2>2 DEF Sure, GasPrices
<1>7. t = EventTx(h, price)
  BY <1>2, <1>4, <1>6 DEF EventTx, Tx
<1> QED
  BY <1>3, <1>4, <1>5, <1>7 DEF IsPending, Knows

(* The node answers: what it takes in is the event's only transaction, or  *)
(* the one it has.                                                         *)
LEMMA SendingCalm ==
  ASSUME SenderInv, SenderInv', NonceInv, TasksInv, Calm, FaultStep, Steady', NEW h \in Handler,
         NEW price \in Price, SendTransaction(h, price)
  PROVE  Calm'
<1> DEFINE tx == EventTx(h, price)
           e == handler[h].task.event
           n == handler[h].nonce
<1>1. /\ handler[h].pc = "sending" /\ n \in Nonce
      /\ handler'[h].task = handler[h].task /\ handler'[h].held = handler[h].held
      /\ price \in GasPrices(handler[h].task) /\ SendAnswer(h, tx)
  BY SendLeaves
<1>2. UNCHANGED <<mined, executed, cachedNonce, sendQueue, unsent, receiptVars>>
  BY DEF SendTransaction, redisVars
<1>3. /\ Knowing(handler[h]) /\ RunOK(handler[h]) /\ handler[h].held
      /\ "drop" \notin faults => RunSure(handler[h])
      /\ e \in Event
  BY <1>1, CalmAtWork
<1>4. OnlyRun(h)
  BY CallbackMoves DEF HandlerNext, ExitForFunds, SendTransaction
<1>5. /\ Steady /\ (Uncertain => Uncertain') /\ ("drop" \notin faults' => "drop" \notin faults)
      /\ \A kind : Happens(kind) => faults = {} /\ faults' = {kind} /\ kind \notin RepeatingFault
  BY SteadyBefore
<1>6. MaySend(e, n)
  BY <1>1, <1>3 DEF Knowing
<1>7. tx \in Tx /\ tx.payload = e /\ tx.nonce = n /\ tx.price = price /\ tx # NoTx
  BY <1>1, <1>3, SenderAssumption DEF EventTx, Tx
<1>8. /\ "drop" \notin faults => price = BasePrice
      /\ \/ UNCHANGED <<pool, mined>> /\ Transactions' = Transactions
         \/ /\ TakeIn(tx) /\ Transactions' \subseteq Transactions \cup {tx} /\ tx \in Transactions'
            /\ \A t \in Transactions' : t.nonce = n => t = tx
            /\ price = BasePrice => Transactions' = Transactions \cup {tx}
  <2>1. "drop" \notin faults => price = BasePrice
    BY <1>1, <1>3 DEF RunSure, GasPrices
  <2>2. TakeIn(tx) \/ UNCHANGED pool
    BY <1>1 DEF SendAnswer, TimesOut
  <2> HIDE DEF tx, n
  <2>3. TakeIn(tx) =>
          /\ Transactions' \subseteq Transactions \cup {tx} /\ tx \in Transactions'
          /\ \A t \in Transactions' : t.nonce = n => t = tx
          /\ price = BasePrice => Transactions' = Transactions \cup {tx}
    BY <1>2, <1>7, TakenIn
  <2> QED
    BY <1>2, <2>1, <2>2, <2>3, SameTransactions
<1>9. \/ NotSent(e) \/ e \in executed \/ (Uncertain /\ Knows(tx))
  BY <1>1, <1>5, SentBefore
<1>10. QueuedTasks' = QueuedTasks /\ LiveReceipts' = LiveReceipts /\ ReceiptTasks' = ReceiptTasks
       /\ UNCHANGED <<receiptQueue, unsentReceipts, receiptor>>
  BY <1>2, SameReceipts DEF QueuedTasks, ReceiptTasks, receiptVars
<1> HIDE DEF tx, n
<1>11. handler'[h].pc \in {"receipting", "updating"} /\ handler'[h].result # "none"
  BY <1>1 DEF SendAnswer
<1>12. Owes(handler[h]) /\ (Owes(handler'[h]) => Owes(handler[h]))
  BY <1>1, <1>3 DEF Owes
<1>13. TaskMoves(h)
  BY <1>1, <1>2, <1>10, <1>12 DEF TaskMoves
<1>14. OneNonce'
  <2>1. \A t \in Transactions : t.payload = e => t.nonce = n
    BY <1>6 DEF MaySend, NotSent, SentWith
  <2> QED
    BY <1>7, <1>8, <2>1 DEF Calm, OneNonce
<1>15. Stuck => handler'[h].nonce <= cachedNonce
  <2>1. Stuck => Count <= cachedNonce /\ n <= cachedNonce
    BY <1>1, <1>5, StuckMeans DEF Calm, NoMove, AfterChoice, n
  <2>2. handler'[h].nonce \in {Count, n}
    BY <1>1 DEF SendAnswer, n
  <2> QED
    BY <2>1, <2>2
<1>16. "drop" \notin faults' => RunSure(handler[h])'
  <2> SUFFICES ASSUME "drop" \notin faults' PROVE RunSure(handler[h])'
    OBVIOUS
  <2>1. ~handler[h].task.retry /\ cachedNonce \in {NoNonce, n}
    BY <1>1, <1>3, <1>5 DEF RunSure, n
  <2>2. handler'[h].result # "sendDummyTxToFillNonce"
    BY <1>1 DEF SendAnswer
  <2>3. \/ handler'[h].pc = "receipting" \/ handler'[h].result \in {"failed", "timeout"}
        => handler'[h].nonce = n
    BY <1>1 DEF SendAnswer, n
  <2>4. handler'[h].pc = "receipting" => handler'[h].tx \in Transactions'
    <3>1. Knows(tx) => tx \in Transactions
      BY <1>1, <1>7 DEF Knows, Transactions, n
    <3>2. handler'[h].pc = "receipting" => handler'[h].tx = tx /\ (TakeIn(tx) \/ (Knows(tx) /\ UNCHANGED pool))
      BY <1>1 DEF SendAnswer
    <3> QED
      BY <1>2, <1>7, <1>8, <3>1, <3>2, TakenIn, SameTransactions
  <2> QED
    BY <1>1, <1>2, <1>11, <2>1, <2>2, <2>3, <2>4 DEF RunSure
<1>17. Knowing(handler[h])'
  <2>1. CASE handler'[h].pc = "receipting"
    <3>1. /\ handler'[h].tx = tx /\ handler'[h].result \in {"success", "txImported"}
          /\ \/ TakeIn(tx) /\ handler'[h].result = "success"
             \/ Knows(tx) /\ UNCHANGED pool
      BY <1>1, <2>1 DEF SendAnswer
    <3>2. \A t \in Transactions' : t.payload = e => t = tx
      <4>1. CASE TakeIn(tx)
        <5>1. /\ Transactions' \subseteq Transactions \cup {tx}
              /\ \A t \in Transactions' : t.nonce = n => t = tx
          BY <1>2, <1>7, <4>1, TakenIn
        <5> QED
          BY <1>6, <5>1 DEF MaySend, NotSent, SentWith
      <4>2. CASE Knows(tx) /\ UNCHANGED pool
        <5>1. tx \in Transactions /\ Transactions' = Transactions
          BY <1>1, <1>2, <1>7, <4>2, SameTransactions DEF Knows, Transactions, n
        <5> QED
          BY <1>6, <1>7, <5>1, NoncesDiffer DEF MaySend, NotSent, SentWith
      <4> QED
        BY <3>1, <4>1, <4>2
    <3>3. handler'[h].result = "txImported" => Uncertain'
      <4>1. Knows(tx) => tx \in Transactions
        BY <1>1, <1>7 DEF Knows, Transactions, n
      <4>2. handler'[h].result = "txImported" => Knows(tx)
        BY <3>1
      <4> QED
        BY <1>5, <1>6, <1>7, <4>1, <4>2 DEF MaySend, NotSent
    <3>4. SentAs(handler[h].task.event, handler[h].tx)'
      BY <1>1, <3>1, <3>2 DEF SentAs
    <3> QED
      BY <1>1, <1>7, <2>1, <3>1, <3>3, <3>4 DEF Knowing
  <2>2. CASE handler'[h].pc = "updating"
    <3>1. CASE NotSent(e) /\ handler'[h].result # "timeout"
      <4>1. UNCHANGED pool
        BY <1>1, <2>2, <3>1 DEF SendAnswer
      <4>2. NotSent(handler[h].task.event)'
        BY <1>1, <1>2, <3>1, <4>1, SameTransactions DEF NotSent
      <4> QED
        BY <1>1, <2>2, <4>2 DEF Knowing
    <3>2. CASE handler'[h].result = "timeout"
      <4>1. Happens("timeout") /\ handler'[h].nonce = n
        BY <1>1, <2>2, <3>2 DEF SendAnswer, TimesOut, n
      <4>2. Uncertain' /\ NotSent(e)
        BY <1>5, <1>6, <4>1 DEF Uncertain, MaySend
      <4>3. \A t \in Transactions' : t.payload = e => t.nonce = n
        BY <1>7, <1>8, <4>2 DEF NotSent
      <4>4. SentWith(handler[h].task.event, handler[h].nonce)'
        BY <1>1, <4>1, <4>3 DEF SentWith
      <4> QED
        BY <1>1, <2>2, <3>2, <4>2, <4>4 DEF Knowing
    <3>3. CASE e \in executed
      <4>1. handler'[h].task.event \in executed'
        BY <1>1, <1>2, <3>3
      <4> QED
        BY <2>2, <4>1 DEF Knowing
    <3>4. CASE Uncertain /\ Knows(tx)
      <4>1. faults # {}
        BY <1>5, <3>4, UncertainMeans
      <4> QED
        BY <1>1, <1>5, <2>2, <3>4, <4>1 DEF SendAnswer, TimesOut
    <3> QED
      BY <1>9, <3>1, <3>2, <3>3, <3>4
  <2> QED
    BY <1>11, <2>1, <2>2
<1>18. "drop" \notin faults' =>
         /\ Transactions \subseteq Transactions'
         /\ \A t \in Transactions' : t \in Transactions \/ t.price = BasePrice
  BY <1>5, <1>7, <1>8
<1>19. \A t \in Transactions' :
         \/ t \in Transactions \/ t.payload = SelfTransfer
         \/ Owes(handler[h]) /\ t.payload = handler[h].task.event
  BY <1>7, <1>8, <1>12
<1>20. handler'[h].held /\ handler'[h].pc # "settling" /\ handler[h].pc # "idle"
  BY <1>1, <1>3, <1>11
<1> QED
  BY <1>2, <1>4, <1>10, <1>13, <1>14, <1>15, <1>16, <1>17, <1>18, <1>19, <1>20, CallbackCalm

(* Nobody moves past a nonce while an event waits that it was used for.    *)
LEMMA SentNotStuck ==
  ASSUME SenderInv, NonceInv, TasksInv, Calm, Steady, NEW h \in Handler,
         handler[h].pc = "receipting", handler[h].result = "success"
  PROVE  ~Stuck
<1> SUFFICES ASSUME Stuck PROVE FALSE
  OBVIOUS
<1>1. /\ handler[h].held /\ Knowing(handler[h]) /\ RunOK(handler[h])
      /\ "drop" \notin faults => RunSure(handler[h])
  BY CalmAtWork
<1>2. /\ "drop" \notin faults /\ cachedNonce \in Nonce
      /\ \E t \in Transactions, task \in QueuedTasks :
           /\ t.nonce = cachedNonce /\ t.payload = task.event
           /\ task.event \in Event \ executed
  BY StuckMeans
<1>3. PICK t \in Transactions, task \in QueuedTasks :
        t.nonce = cachedNonce /\ t.payload = task.event /\ task.event \in Event \ executed
  BY <1>2
<1>4. handler[h].tx \in Transactions /\ handler[h].tx.nonce = handler[h].nonce
      /\ cachedNonce = handler[h].nonce
  BY <1>1, <1>2, SenderAssumption DEF RunSure, RunOK, Nonce
<1>5. handler[h].tx = t
  BY <1>3, <1>4, NoncesDiffer
<1>6. handler[h].task.event = task.event
  BY <1>1, <1>3, <1>5 DEF Knowing
<1>7. Owes(handler[h]) /\ task.event \in EventsIn(sendQueue) \cup EventsIn(unsent)
  BY <1>1, <1>3 DEF Owes, QueuedTasks, EventsIn
<1>8. \A p, q \in Places(task.event) : p = q
  BY <1>3 DEF Calm, OneTask, OneTaskOf
<1> QED
  BY <1>6, <1>7, <1>8 DEF Places

(* The receiptor gets the transaction.                                     *)
LEMMA HandingOverCalm ==
  ASSUME SenderInv, SenderInv', NonceInv, TasksInv, Calm, FaultStep, Steady', NEW h \in Handler,
         EnqueueReceipt(h)
  PROVE  Calm'
<1> DEFINE task == [event |-> handler[h].task.event, tx |-> handler[h].tx]
<1>1. /\ handler[h].pc = "receipting"
      /\ UNCHANGED <<mined, pool, executed, cachedNonce, sendQueue, unsent, unsentReceipts, receiptor, faults>>
      /\ receiptQueue' = With(receiptQueue, task)
  BY DEF EnqueueReceipt, chainVars, redisVars, historyVars
<1>2. /\ handler[h].held /\ Knowing(handler[h]) /\ RunOK(handler[h])
      /\ "drop" \notin faults => RunSure(handler[h])
      /\ CacheTypeOK
  BY <1>1, CalmAtWork
<1>3. OnlyRun(h)
  BY CallbackMoves DEF HandlerNext, ExitForFunds, EnqueueReceipt
<1>4. Steady /\ Transactions' = Transactions /\ Uncertain' = Uncertain
  BY <1>1, SteadyBefore, SameTransactions DEF Uncertain
<1>5. handler[h].result \in Told
  BY <1>1, <1>2 DEF RunOK
<1>6. /\ handler'[h].task = handler[h].task /\ handler'[h].held = handler[h].held
      /\ handler'[h].result = handler[h].result
      /\ handler'[h].pc \in {"updating", "settling"}
      /\ handler'[h].pc = "settling" => handler[h].result = "sendDummyTxToFillNonce"
      /\ handler'[h].nonce = handler[h].nonce \/ handler[h].result = "success"
  <2>1. PICK pc, k : /\ Answered(h, pc, NoTx, k, handler[h].result)
                     /\ pc \in {"updating", "settling"}
                     /\ pc = "settling" => handler[h].result = "sendDummyTxToFillNonce"
                     /\ k = handler[h].nonce \/ handler[h].result = "success"
    BY <1>5 DEF EnqueueReceipt, Told
  <2> QED
    BY <1>2, <2>1, AnswerLeaves
<1>7. Owes(handler[h]) /\ ~Owes(handler'[h])
  BY <1>1, <1>2, <1>5, <1>6 DEF Owes, Told
<1>8. task.event = handler[h].task.event /\ task.tx = handler[h].tx
  OBVIOUS
<1> HIDE DEF task
<1>9. TaskMoves(h)
  BY <1>1, <1>7, <1>8 DEF TaskMoves
<1>10. QueuedTasks' = QueuedTasks /\ LiveReceipts' = LiveReceipts \cup {task}
       /\ ReceiptTasks' = ReceiptTasks \cup {task}
  BY <1>1, WithMembers DEF QueuedTasks, LiveReceipts, ReceiptTasks
<1>11. OneNonce'
  BY <1>4 DEF Calm, OneNonce
<1>12. Knowing(handler[h])'
  BY <1>5, <1>6 DEF Knowing
<1>13. Stuck => handler'[h].nonce <= cachedNonce
  <2>1. Stuck => handler[h].result # "success"
    BY <1>1, <1>4, SentNotStuck
  <2>2. Stuck => handler[h].nonce <= cachedNonce
    BY <1>1 DEF Calm, NoMove, AfterChoice
  <2> QED
    BY <1>6, <2>1, <2>2
<1>14. "drop" \notin faults => RunSure(handler[h])' /\ task.tx \in Transactions'
  BY <1>1, <1>2, <1>4, <1>5, <1>6, <1>8 DEF RunSure, Told
<1>15. \A t \in LiveReceipts' :
         t \in LiveReceipts \/ t.event \in executed \/ SentAs(t.event, t.tx)'
  <2>1. \A t \in LiveReceipts' : t \in LiveReceipts \/ t = task
    BY <1>10
  <2>2. task.event \in executed \/ \A t \in Transactions' : t.payload = task.event => t = task.tx
    BY <1>1, <1>2, <1>4, <1>8 DEF Knowing, SentAs
  <2> QED
    BY <2>1, <2>2 DEF SentAs
<1> QED
  BY <1>1, <1>2, <1>3, <1>4, <1>6, <1>9, <1>10, <1>11, <1>12, <1>13, <1>14, <1>15, CallbackCalm

(* It settles its message.                                                 *)
LEMMA SettlingCalm ==
  ASSUME SenderInv, SenderInv', NonceInv, TasksInv, Calm, FaultStep, Steady', NEW h \in Handler,
         Settle(h)
  PROVE  Calm'
<1> DEFINE task == handler[h].task
           result == handler[h].result
<1>1. /\ handler[h].pc = "settling"
      /\ UNCHANGED <<mined, pool, executed, cachedNonce, sendQueue, receiptVars, faults>>
      /\ handler' = [handler EXCEPT ![h] = Idle]
  BY DEF Settle, SettleMessage, AckMsg, Requeue, chainVars
<1>2. /\ handler[h].held /\ Knowing(handler[h])
      /\ "drop" \notin faults => RunSure(handler[h])
      /\ CacheTypeOK /\ task \in EventTask
  BY <1>1, CalmAtWork
<1>3. OnlyRun(h) /\ handler'[h] = Idle
  BY <1>1, <1>2, Ends DEF CacheTypeOK
<1>4. result # "sendDummyTxToFillNonce" => lock = h
  BY <1>1 DEF Calm, Locked
<1>5. SettleMessage(h)
  BY <1>4 DEF Settle
<1>6. \/ UNCHANGED unsent
      \/ result \in {"failed", "timeout"} /\ unsent' = With(unsent, task)
      \/ /\ result = "nonceTooLow"
         /\ unsent' = With(unsent, IF task.retry THEN [task EXCEPT !.nonce = NoNonce] ELSE task)
  BY <1>5 DEF SettleMessage, AckMsg, Requeue
<1>7. "drop" \notin faults => ~task.retry
  BY <1>1, <1>2 DEF RunSure
<1>8. result \notin Told => Owes(handler[h])
  BY <1>1, <1>2 DEF Owes, Told
<1>9. result \in {"failed", "timeout", "nonceTooLow"} => MayWait(task.event)
  BY <1>1, <1>2 DEF Knowing, MayWait, MaySend, Told
<1>10. CASE UNCHANGED unsent
  BY <1>1, <1>3, <1>10, EndingCalm
<1>11. ASSUME NEW t, unsent' = With(unsent, t), t.event = task.event,
              "drop" \notin faults => ~t.retry,
              result \in {"failed", "timeout", "nonceTooLow"}
       PROVE  Calm'
  BY <1>1, <1>3, <1>8, <1>9, <1>11, EndingCalm DEF Told
<1>12. CASE result \in {"failed", "timeout"} /\ unsent' = With(unsent, task)
  BY <1>7, <1>11, <1>12
<1>13. CASE /\ result = "nonceTooLow"
            /\ unsent' = With(unsent, IF task.retry THEN [task EXCEPT !.nonce = NoNonce] ELSE task)
  <2> DEFINE t == IF task.retry THEN [task EXCEPT !.nonce = NoNonce] ELSE task
  <2>1. t.event = task.event /\ ("drop" \notin faults => ~t.retry)
    BY <1>2, <1>7 DEF EventTask
  <2> QED
    BY <1>11, <1>13, <2>1
<1> QED
  BY <1>6, <1>10, <1>12, <1>13

(* It throws before it has sent anything.                                  *)
LEMMA ThrowingCalm ==
  ASSUME SenderInv, SenderInv', NonceInv, TasksInv, Calm, FaultStep, Steady', NEW h \in Handler,
         RunThrows(h)
  PROVE  Calm'
<1> DEFINE task == handler[h].task
<1>1. /\ UNCHANGED <<mined, pool, executed, cachedNonce, sendQueue, receiptVars>>
      /\ handler' = [handler EXCEPT ![h] = Idle] /\ unsent' = With(unsent, task)
  BY DEF RunThrows, Requeue, chainVars
<1>2. /\ handler[h].pc \in {"processing", "filling", "sending"} /\ faults = {}
  BY SteadyBefore DEF RunThrows, RepeatingFault
<1>3. /\ handler[h].held /\ Knowing(handler[h]) /\ RunSure(handler[h]) /\ CacheTypeOK
  BY <1>2, CalmAtWork
<1>4. OnlyRun(h) /\ handler'[h] = Idle
  BY <1>1, <1>2, <1>3, Ends DEF CacheTypeOK
<1>5. MayWait(task.event)
  BY <1>2, <1>3 DEF Knowing, MayWait, MaySend, Uncertain
<1>6. Owes(handler[h])
  BY <1>2, <1>3 DEF Owes
<1>7. task.retry => task.nonce = NoNonce /\ task.event \in executed
  BY <1>2, <1>3 DEF RunSure
<1> QED
  BY <1>1, <1>2, <1>4, <1>5, <1>6, <1>7, EndingCalm

(* It throws after the node took the transaction: it counts as not sent.   *)
LEMMA ReceiptThrowingCalm ==
  ASSUME SenderInv, SenderInv', NonceInv, TasksInv, Calm, FaultStep, Steady', NEW h \in Handler,
         NewReceiptTaskThrows(h)
  PROVE  Calm'
<1>1. /\ handler[h].pc = "receipting" /\ Happens("rpc")
      /\ UNCHANGED <<mined, pool, executed, cachedNonce, sendQueue, receiptVars>>
  BY DEF NewReceiptTaskThrows, chainVars
<1>2. faults = {} /\ faults' = {"rpc"} /\ Steady
  BY <1>1, SteadyBefore
<1>3. /\ handler[h].held /\ Knowing(handler[h]) /\ RunSure(handler[h]) /\ CacheTypeOK
      /\ RunOK(handler[h])
  BY <1>1, <1>2, CalmAtWork
<1>4. handler[h].result = "success"
  BY <1>1, <1>2, <1>3 DEF RunOK, RunSure, Knowing, Uncertain, Told
<1>5. /\ handler'[h].pc = "updating" /\ handler'[h].nonce = handler[h].nonce
      /\ handler'[h].result = "failed" /\ handler'[h].task = handler[h].task
      /\ handler'[h].held = handler[h].held /\ UNCHANGED unsent
  <2>1. Answered(h, "updating", NoTx, handler[h].nonce, "failed") /\ UNCHANGED unsent
    BY <1>4 DEF NewReceiptTaskThrows
  <2> QED
    BY <1>3, <2>1, AnswerLeaves
<1>6. OnlyRun(h)
  BY CallbackMoves
<1>7. Transactions' = Transactions /\ Uncertain'
  BY <1>1, <1>2, SameTransactions DEF Uncertain
<1>8. Knowing(handler[h])'
  <2>1. \A t \in Transactions : t.payload = handler[h].task.event => t.nonce = handler[h].nonce
    BY <1>1, <1>3, <1>4 DEF Knowing, SentAs, RunOK
  <2>2. SentWith(handler[h].task.event, handler[h].nonce)'
    BY <1>5, <1>7, <2>1 DEF SentWith
  <2> QED
    BY <1>5, <1>7, <2>2 DEF Knowing
<1>9. RunSure(handler[h])'
  BY <1>1, <1>3, <1>5 DEF RunSure
<1>10. Stuck => handler'[h].nonce <= cachedNonce
  BY <1>1, <1>5 DEF Calm, NoMove, AfterChoice
<1>11. Owes(handler[h])
  BY <1>1, <1>3 DEF Owes
<1> QED
  BY <1>1, <1>5, <1>6, <1>8, <1>9, <1>10, <1>11, GoingOnCalm

-----------------------------------------------------------------------------
(* The steps of the others                                                 *)

(* They move no callback and no nonce, bring no transaction, and queue     *)
(* only tasks whose event is done or not sent.                             *)
LEMMA OthersCalm ==
  ASSUME SenderInv, Calm, FaultStep, Steady', UNCHANGED <<handler, cachedNonce>>,
         executed \subseteq executed', Transactions' \subseteq Transactions, Locked', OneTask',
         \A task \in QueuedTasks' :
           task \in QueuedTasks \/ task.event \in executed' \/ NotSent(task.event)',
         \A task \in LiveReceipts' : task \in LiveReceipts \/ task.event \in executed',
         "drop" \notin faults' =>
           /\ Transactions' = Transactions
           /\ \A task \in QueuedTasks' :
                task \in QueuedTasks \/ (task.retry => task.nonce = NoNonce /\ task.event \in executed')
           /\ ReceiptTasks' \subseteq ReceiptTasks
           /\ receiptor'.pc = "rejecting" => receiptor'.task.event \in executed'
  PROVE  Calm'
<1>1. /\ (Uncertain => Uncertain')
      /\ "drop" \notin faults' => Sure
  BY SteadyBefore DEF Calm
<1>2. OneNonce' /\ Serial'
  BY DEF Calm, OneNonce, Serial
<1>3. \A e : NotSent(e) => NotSent(e)'
  BY DEF NotSent
<1>4. Stuck' => Stuck
  <2> SUFFICES ASSUME NEW task \in QueuedTasks', task.event \notin executed',
                      NEW t \in Transactions', t.payload = task.event
               PROVE  Stuck
    BY DEF Stuck, NotSent
  <2>1. task \in QueuedTasks /\ task.event \notin executed /\ t \in Transactions
    BY DEF NotSent
  <2> QED
    BY <2>1 DEF Stuck, NotSent
<1>5. NoMove'
  BY <1>4 DEF Calm, NoMove
<1>6. ASSUME NEW h \in Handler PROVE Knowing(handler[h])'
  <2>1. Knowing(handler[h])
    BY DEF Calm
  <2> QED
    BY <1>1, <2>1 DEF Knowing, MayWait, MaySend, NotSent, SentWith, SentAs
<1>7. ASSUME NEW task \in QueuedTasks' PROVE MayWait(task.event)'
  <2>1. CASE task \in QueuedTasks
    <3>1. MayWait(task.event)
      BY <2>1 DEF Calm
    <3> QED
      BY <1>1, <3>1 DEF MayWait, MaySend, NotSent, SentWith
  <2>2. CASE task.event \in executed' \/ NotSent(task.event)'
    BY <2>2 DEF MayWait, MaySend, NotSent
  <2> QED
    BY <2>1, <2>2
<1>8. ASSUME NEW task \in LiveReceipts'
      PROVE  task.event \in executed' \/ SentAs(task.event, task.tx)'
  <2>1. CASE task \in LiveReceipts
    BY <2>1 DEF Calm, SentAs
  <2> QED
    BY <2>1
<1>9. ASSUME "drop" \notin faults' PROVE Sure'
  <2>1. Sure /\ Transactions' = Transactions
    BY <1>1, <1>9
  <2>2. \A task \in QueuedTasks' : task.retry => task.nonce = NoNonce /\ task.event \in executed'
    BY <1>9, <2>1 DEF Sure
  <2>3. ASSUME NEW h \in Handler PROVE RunSure(handler[h])'
    BY <2>1 DEF Sure, RunSure
  <2>4. /\ \A t \in Transactions' : t.price = BasePrice
        /\ \A task \in ReceiptTasks' : task.tx \in Transactions'
    BY <1>9, <2>1 DEF Sure
  <2> QED
    BY <1>9, <2>2, <2>3, <2>4 DEF Sure
<1> QED
  BY <1>2, <1>5, <1>6, <1>7, <1>8, <1>9 DEF Calm

(* Where the tasks are as they were an event has one as before.            *)
LEMMA SameTasks ==
  ASSUME OneTask, executed \subseteq executed', UNCHANGED <<handler, sendQueue, unsent, receiptVars>>
  PROVE  OneTask'
<1>1. \A e : Places(e)' = Places(e)
  BY DEF Places, receiptVars
<1> QED
  BY <1>1, OneTaskMoved DEF OneTask, OneTaskOf, receiptVars

(* The node and the chain.                                                 *)
LEMMA NodeCalm ==
  ASSUME SenderInv, SenderInv', NonceInv, TasksInv, Calm, FaultStep, Steady',
         NodeNext \/ ExpireLock \/ UNCHANGED vars
  PROVE  Calm'
<1>1. /\ UNCHANGED <<handler, cachedNonce, sendQueue, unsent, receiptVars>>
      /\ executed \subseteq executed'
  BY DEF NodeNext, Mine, DropTx, ExecutedByOthers, ExpireLock, vars, chainVars, senderVars, redisVars
<1>2. QueuedTasks' = QueuedTasks /\ LiveReceipts' = LiveReceipts /\ ReceiptTasks' = ReceiptTasks
      /\ UNCHANGED receiptor
  BY <1>1, SameReceipts DEF QueuedTasks, ReceiptTasks, receiptVars
<1>3. OneTask'
  BY <1>1, SameTasks DEF Calm
<1>4. Locked'
  <2>1. lock' = lock \/ lock = Abandoned
    BY SteadyBefore DEF NodeNext, Mine, DropTx, ExecutedByOthers, ExpireLock, vars, senderVars,
       redisVars, RepeatingFault
  <2> QED
    BY <1>1, <2>1, SenderAssumption DEF Calm, Locked
<1>5. Transactions' \subseteq Transactions /\ ("drop" \notin faults' => Transactions' = Transactions)
  <2>1. CASE Mine
    <3>1. /\ mined \in Seq([tx : Tx, status : BOOLEAN]) /\ pool \in [Nonce -> Tx \cup {NoTx}]
          /\ Count \in Nat /\ Count \in Nonce
      BY <2>1, CountIsANumber DEF SenderInv, NodeTypeOK, Mine
    <3>2. PICK entry : mined' = Append(mined, entry) /\ entry.tx = pool[Count]
      BY <2>1 DEF Mine
    <3>3. /\ Count' = Count + 1 /\ mined'[Count + 1].tx = pool[Count]
          /\ \A i \in 1..Count : mined'[i] = mined[i]
      BY <3>1, <3>2 DEF Count
    <3>4. /\ pool'[Count] = NoTx /\ pool[Count] # NoTx
          /\ \A n \in Nonce : n # Count => pool'[n] = pool[n]
      BY <2>1, <3>1 DEF Mine
    <3>5. \A i \in 1..(Count + 1) : i \in 1..Count \/ i = Count + 1
      BY <3>1
    <3>6. Count + 1 \in 1..(Count + 1) /\ 1..Count \subseteq 1..(Count + 1)
      BY <3>1
    <3>7. Transactions' = {mined'[i].tx : i \in 1..(Count + 1)} \cup ({pool'[n] : n \in Nonce} \ {NoTx})
      BY <3>3 DEF Transactions
    <3>8. {mined'[i].tx : i \in 1..(Count + 1)} = {mined[i].tx : i \in 1..Count} \cup {pool[Count]}
      BY <3>3, <3>5, <3>6
    <3>9. {pool[n] : n \in Nonce} \ {NoTx} = ({pool'[n] : n \in Nonce} \ {NoTx}) \cup {pool[Count]}
      BY <3>1, <3>4
    <3> QED
      BY <3>7, <3>8, <3>9 DEF Transactions
  <2>2. ASSUME NEW n \in Nonce, DropTx(n)
        PROVE  Transactions' \subseteq Transactions /\ "drop" \in faults'
    <3>1. /\ \A k \in Nonce : pool'[k] = pool[k] \/ pool'[k] = NoTx
          /\ mined' = mined
      BY <2>2 DEF DropTx, SenderInv, NodeTypeOK
    <3> QED
      BY <2>2, <3>1 DEF Transactions, Count, DropTx, Happens
  <2>3. CASE (\E e \in Event : ExecutedByOthers(e)) \/ ExpireLock \/ UNCHANGED vars
    BY <2>3, SameTransactions DEF ExecutedByOthers, ExpireLock, vars, chainVars
  <2> QED
    BY <2>1, <2>2, <2>3 DEF NodeNext
<1>6. receiptor'.pc = "rejecting" /\ "drop" \notin faults' => receiptor'.task.event \in executed'
  BY <1>1, <1>2, SteadyBefore DEF Calm, Sure
<1> QED
  BY <1>1, <1>2, <1>3, <1>4, <1>5, <1>6, OthersCalm

(* A task goes from one place to another: where its event had no other, it *)
(* has no other now.                                                       *)
TaskGoes(ev, p, q) ==
  \A e \in Event \ executed :
    /\ Lone(sendQueue, e)' /\ Lone(unsent, e)'
    /\ Lone(receiptQueue, e)' /\ Lone(unsentReceipts, e)'
    /\ e # ev => Places(e)' \subseteq Places(e)
    /\ e = ev => p \in Places(e) /\ Places(e)' \subseteq (Places(e) \ {p}) \cup {q}
(* So much for the event of the task; the others have theirs as before.    *)
LEMMA TaskMovedOn ==
  ASSUME OneTask, NEW ev, NEW p, NEW q, UNCHANGED executed, TaskGoes(ev, p, q)
  PROVE  OneTask'
<1>1. ASSUME NEW e \in Event \ executed'
      PROVE  Places(e)' \subseteq Places(e) \/ \E r : Places(e)' \subseteq {r}
  <2>1. \A r, s \in Places(e) : r = s
    BY <1>1 DEF OneTask, OneTaskOf
  <2> QED
    BY <1>1, <2>1 DEF TaskGoes
<1> QED
  BY <1>1, OneTaskMoved DEF TaskGoes

(* A message is delivered to a queue of the broker.                        *)
LEMMA DeliveringCalm ==
  ASSUME SenderInv, NonceInv, TasksInv, Calm, FaultStep, Steady',
         \/ \E task \in BagToSet(unsent) : Deliver(task)
         \/ \E task \in BagToSet(unsentReceipts) : DeliverReceipt(task)
  PROVE  Calm'
<1>1. UNCHANGED <<mined, pool, executed, cachedNonce, lock, handler, faults, receiptor>>
  BY DEF Deliver, DeliverReceipt, chainVars, redisVars, senderVars, receiptVars, historyVars
<1>2. /\ Transactions' = Transactions /\ Locked' /\ BagsOK
      /\ "drop" \notin faults => Sure
  BY <1>1, SameTransactions DEF Calm, Locked, TasksInv
<1>3. ASSUME NEW task \in BagToSet(unsent), Deliver(task) PROVE Calm'
  <2>1. /\ unsent' = Without(unsent, task) /\ sendQueue' = With(sendQueue, task)
        /\ UNCHANGED receiptVars
    BY <1>3 DEF Deliver
  <2>2. LiveReceipts' = LiveReceipts /\ ReceiptTasks' = ReceiptTasks
        /\ QueuedTasks' \subseteq QueuedTasks
    BY <2>1, WithMembers, WithoutMembers, SameReceipts DEF QueuedTasks, ReceiptTasks, receiptVars
  <2>3. ASSUME NEW e \in Event \ executed
        PROVE  /\ Lone(sendQueue', e) /\ Lone(unsent', e)
               /\ Lone(receiptQueue', e) /\ Lone(unsentReceipts', e)
               /\ e # task.event => Places(e)' \subseteq Places(e)
               /\ e = task.event =>
                    "unsent" \in Places(e) /\ Places(e)' \subseteq (Places(e) \ {"unsent"}) \cup {"sendQueue"}
    <3>1. OneTaskOf(e)
      BY <2>3 DEF Calm, OneTask
    <3>2. /\ EventsIn(sendQueue') = EventsIn(sendQueue) \cup {task.event}
          /\ EventsIn(unsent') \subseteq EventsIn(unsent) /\ task.event \in EventsIn(unsent)
      BY <2>1, EventsWith, EventsWithout DEF EventsIn
    <3>3. task.event = e => e \notin EventsIn(sendQueue)
      BY <3>1, <3>2 DEF OneTaskOf, Places
    <3>4. Lone(sendQueue', e) /\ Lone(unsent', e) /\ (task.event = e => e \notin EventsIn(unsent'))
      BY <1>2, <1>3, <2>1, <3>1, <3>3, LoneWith, LoneWithout DEF OneTaskOf, BagsOK
    <3> QED
      BY <1>1, <2>1, <3>1, <3>2, <3>4 DEF OneTaskOf, Places, receiptVars
  <2>4. TaskGoes(task.event, "unsent", "sendQueue")
    BY <2>3 DEF TaskGoes
  <2>5. OneTask'
    BY <1>1, <2>4, TaskMovedOn DEF Calm
  <2> QED
    BY <1>1, <1>2, <2>2, <2>5, OthersCalm DEF Sure
<1>4. ASSUME NEW task \in BagToSet(unsentReceipts), DeliverReceipt(task) PROVE Calm'
  <2>1. /\ unsentReceipts' = Without(unsentReceipts, task) /\ receiptQueue' = With(receiptQueue, task)
        /\ UNCHANGED <<sendQueue, unsent>>
    BY <1>4 DEF DeliverReceipt, senderVars
  <2>2. LiveReceipts' \subseteq LiveReceipts /\ ReceiptTasks' \subseteq ReceiptTasks
        /\ QueuedTasks' = QueuedTasks
    BY <1>1, <2>1, WithMembers, WithoutMembers DEF QueuedTasks, ReceiptTasks, LiveReceipts
  <2>3. ASSUME NEW e \in Event \ executed
        PROVE  /\ Lone(sendQueue', e) /\ Lone(unsent', e)
               /\ Lone(receiptQueue', e) /\ Lone(unsentReceipts', e)
               /\ e # task.event => Places(e)' \subseteq Places(e)
               /\ e = task.event =>
                    /\ "unsentReceipts" \in Places(e)
                    /\ Places(e)' \subseteq (Places(e) \ {"unsentReceipts"}) \cup {"receiptQueue"}
    <3>1. OneTaskOf(e)
      BY <2>3 DEF Calm, OneTask
    <3>2. /\ EventsIn(receiptQueue') = EventsIn(receiptQueue) \cup {task.event}
          /\ EventsIn(unsentReceipts') \subseteq EventsIn(unsentReceipts)
          /\ task.event \in EventsIn(unsentReceipts)
      BY <2>1, EventsWith, EventsWithout DEF EventsIn
    <3>3. task.event = e => e \notin EventsIn(receiptQueue)
      BY <3>1, <3>2 DEF OneTaskOf, Places
    <3>4. /\ Lone(receiptQueue', e) /\ Lone(unsentReceipts', e)
          /\ task.event = e => e \notin EventsIn(unsentReceipts')
      BY <1>2, <1>4, <2>1, <3>1, <3>3, LoneWith, LoneWithout DEF OneTaskOf, BagsOK
    <3> QED
      BY <1>1, <2>1, <3>1, <3>2, <3>4 DEF OneTaskOf, Places
  <2>4. TaskGoes(task.event, "unsentReceipts", "receiptQueue")
    BY <2>3 DEF TaskGoes
  <2>5. OneTask'
    BY <1>1, <2>4, TaskMovedOn DEF Calm
  <2> QED
    BY <1>1, <1>2, <2>2, <2>5, OthersCalm DEF Sure
<1> QED
  BY <1>3, <1>4

(* The receiptor takes a receipt, is done with it, or waits for it.        *)
LEMMA ReceiptorCalm ==
  ASSUME SenderInv, NonceInv, TasksInv, Calm, FaultStep, Steady',
         \/ \E task \in BagToSet(receiptQueue) : ReceiveReceipt(task)
         \/ ConfirmReceipt \/ WaitForReceipt \/ RejectMsg \/ GetReceiptThrows
  PROVE  Calm'
<1>1. UNCHANGED <<mined, pool, executed, cachedNonce, lock, handler, sendQueue, unsent>>
  BY DEF ReceiveReceipt, ConfirmReceipt, WaitForReceipt, RejectMsg, GetReceiptThrows,
     chainVars, redisVars, senderVars
<1>2. Transactions' = Transactions /\ Locked' /\ BagsOK /\ QueuedTasks' = QueuedTasks
  BY <1>1, SameTransactions DEF Calm, Locked, TasksInv, QueuedTasks
<1>3. ASSUME NEW task \in BagToSet(receiptQueue), ReceiveReceipt(task)
      PROVE  OneTask' /\ LiveReceipts' \subseteq LiveReceipts /\ ReceiptTasks' \subseteq ReceiptTasks
             /\ receiptor'.pc # "rejecting"
  <2>1. /\ receiptQueue' = Without(receiptQueue, task) /\ UNCHANGED unsentReceipts
        /\ receiptor.pc = "idle" /\ receiptor'.pc = "asking" /\ receiptor'.task = task
    BY <1>3 DEF ReceiveReceipt
  <2>2. LiveReceipts' \subseteq LiveReceipts /\ ReceiptTasks' \subseteq ReceiptTasks
    BY <1>3, <2>1, WithoutMembers DEF LiveReceipts, ReceiptTasks
  <2>3. ASSUME NEW e \in Event \ executed
        PROVE  /\ Lone(sendQueue', e) /\ Lone(unsent', e)
               /\ Lone(receiptQueue', e) /\ Lone(unsentReceipts', e)
               /\ e # task.event => Places(e)' \subseteq Places(e)
               /\ e = task.event =>
                    /\ "receiptQueue" \in Places(e)
                    /\ Places(e)' \subseteq (Places(e) \ {"receiptQueue"}) \cup {"receiptor"}
    <3>1. OneTaskOf(e)
      BY <2>3 DEF Calm, OneTask
    <3>2. /\ EventsIn(receiptQueue') \subseteq EventsIn(receiptQueue)
          /\ task.event \in EventsIn(receiptQueue)
      BY <1>3, <2>1, EventsWithout DEF EventsIn
    <3>3. Lone(receiptQueue', e) /\ (task.event = e => e \notin EventsIn(receiptQueue'))
      BY <1>2, <1>3, <2>1, <3>1, LoneWithout DEF OneTaskOf, BagsOK
    <3> QED
      BY <1>1, <2>1, <3>1, <3>2, <3>3 DEF OneTaskOf, Places
  <2>4. TaskGoes(task.event, "receiptQueue", "receiptor")
    BY <2>3 DEF TaskGoes
  <2>5. OneTask'
    BY <1>1, <2>4, TaskMovedOn DEF Calm
  <2> QED
    BY <2>1, <2>2, <2>5
<1>4. CASE ConfirmReceipt \/ RejectMsg \/ GetReceiptThrows
  <2>1. /\ UNCHANGED <<receiptQueue, unsentReceipts>>
        /\ \/ receiptor'.pc = "idle"
           \/ receiptor.pc = "asking" /\ receiptor'.pc = "hung" /\ receiptor'.task = receiptor.task
    BY <1>4 DEF ConfirmReceipt, RejectMsg, GetReceiptThrows, IdleReceiptor, SenderInv,
       QueuesTypeOK, ReceiptorRun
  <2>2. LiveReceipts' \subseteq LiveReceipts /\ ReceiptTasks' \subseteq ReceiptTasks
        /\ receiptor'.pc # "rejecting"
    BY <2>1 DEF LiveReceipts, ReceiptTasks
  <2>3. \A e : Places(e)' \subseteq Places(e)
    BY <1>1, <2>1 DEF Places
  <2>4. OneTask'
    BY <1>1, <2>1, <2>3, OneTaskMoved DEF Calm, OneTask, OneTaskOf
  <2> QED
    BY <1>1, <1>2, <2>2, <2>4, OthersCalm
<1>5. CASE WaitForReceipt
  <2> DEFINE task == receiptor.task
  <2>1. /\ unsentReceipts' = With(unsentReceipts, task) /\ UNCHANGED receiptQueue
        /\ receiptor.pc = "asking" /\ receiptor'.pc = "idle"
    BY <1>5 DEF WaitForReceipt, IdleReceiptor
  <2>2. LiveReceipts' \subseteq LiveReceipts /\ ReceiptTasks' \subseteq ReceiptTasks
    BY <2>1, WithMembers DEF LiveReceipts, ReceiptTasks
  <2>3. ASSUME NEW e \in Event \ executed
        PROVE  /\ Lone(sendQueue', e) /\ Lone(unsent', e)
               /\ Lone(receiptQueue', e) /\ Lone(unsentReceipts', e)
               /\ e # task.event => Places(e)' \subseteq Places(e)
               /\ e = task.event =>
                    /\ "receiptor" \in Places(e)
                    /\ Places(e)' \subseteq (Places(e) \ {"receiptor"}) \cup {"unsentReceipts"}
    <3>1. OneTaskOf(e)
      BY <2>3 DEF Calm, OneTask
    <3>2. EventsIn(unsentReceipts') = EventsIn(unsentReceipts) \cup {task.event}
      BY <2>1, EventsWith
    <3>3. e = task.event => "receiptor" \in Places(e)
      BY <2>1 DEF Places
    <3>4. task.event = e => e \notin EventsIn(unsentReceipts)
      BY <3>1, <3>3 DEF OneTaskOf, Places
    <3>5. Lone(unsentReceipts', e)
      BY <1>2, <2>1, <3>1, <3>4, LoneWith DEF OneTaskOf, BagsOK
    <3> QED
      BY <1>1, <2>1, <3>1, <3>2, <3>3, <3>5 DEF OneTaskOf, Places
  <2>4. TaskGoes(task.event, "receiptor", "unsentReceipts")
    BY <2>3 DEF TaskGoes
  <2>5. OneTask'
    BY <1>1, <2>4, TaskMovedOn DEF Calm
  <2> QED
    BY <1>1, <1>2, <2>1, <2>2, <2>5, OthersCalm
<1> QED
  BY <1>1, <1>2, <1>3, <1>4, <1>5, OthersCalm

(* The receiptor gives the event back: it is done, or its transaction is   *)
(* gone.                                                                   *)
LEMMA ResendingCalm ==
  ASSUME SenderInv, NonceInv, TasksInv, Calm, FaultStep, Steady', ResendEvent
  PROVE  Calm'
<1> DEFINE tx == receiptor.task.tx
           ev == receiptor.task.event
           task == [event |-> ev, retry |-> TRUE, nonce |-> IF IsMined(tx) THEN NoNonce ELSE tx.nonce]
<1>1. /\ UNCHANGED <<mined, pool, executed, cachedNonce, lock, handler, unsent, receiptQueue, unsentReceipts>>
      /\ receiptor.pc = "asking" /\ receiptor'.pc = "rejecting" /\ receiptor'.task = receiptor.task
      /\ sendQueue' = With(sendQueue, task)
  BY DEF ResendEvent, chainVars, redisVars, SenderInv, QueuesTypeOK, ReceiptorRun
<1>2. Transactions' = Transactions /\ Locked' /\ BagsOK
  BY <1>1, SameTransactions DEF Calm, Locked, TasksInv
<1>3. receiptor.task \in LiveReceipts /\ receiptor.task \in ReceiptTasks /\ tx \in Tx /\ ev \in Event
  BY <1>1 DEF LiveReceipts, ReceiptTasks, SenderInv, QueuesTypeOK, ReceiptorRun, ReceiptTask
<1>4. IsMined(tx) => ev \in executed
  <2>1. IsFor(ev, tx)
    BY <1>1 DEF TasksInv, ReceiptsCarryTheirEvents
  <2> QED
    BY <1>3, <2>1, MinedAreDone, SenderAssumption DEF IsFor
<1>5. ~IsMined(tx) => ev \in executed \/ NotSent(ev)
  <2>1. ~IsMined(tx) => tx \notin Transactions
    BY SteadyBefore, TransactionsAre DEF ResendEvent, RepeatingFault
  <2>2. ev \in executed \/ SentAs(ev, tx)
    BY <1>3 DEF Calm
  <2> QED
    BY <2>1, <2>2 DEF SentAs, NotSent
<1>6. "drop" \notin faults' => IsMined(tx)
  <2>1. "drop" \notin faults' => tx \in Transactions
    BY <1>3, SteadyBefore DEF Calm, Sure
  <2> QED
    BY <2>1, SteadyBefore, TransactionsAre DEF ResendEvent, RepeatingFault
<1>7. task.event = ev /\ (IsMined(tx) => task.nonce = NoNonce)
  OBVIOUS
<1>8. LiveReceipts' \subseteq LiveReceipts /\ ReceiptTasks' = ReceiptTasks
  BY <1>1 DEF LiveReceipts, ReceiptTasks
<1> HIDE DEF task
<1>9. QueuedTasks' = QueuedTasks \cup {task}
  BY <1>1, WithMembers DEF QueuedTasks
<1>10. TaskGoes(ev, "receiptor", "sendQueue")
  <2>1. ASSUME NEW e \in Event \ executed
        PROVE  /\ Lone(sendQueue', e) /\ Lone(unsent', e)
               /\ Lone(receiptQueue', e) /\ Lone(unsentReceipts', e)
               /\ e # ev => Places(e)' \subseteq Places(e)
               /\ e = ev =>
                    /\ "receiptor" \in Places(e)
                    /\ Places(e)' \subseteq (Places(e) \ {"receiptor"}) \cup {"sendQueue"}
    <3>1. OneTaskOf(e)
      BY <2>1 DEF Calm, OneTask
    <3>2. EventsIn(sendQueue') = EventsIn(sendQueue) \cup {ev}
      BY <1>1, <1>7, EventsWith
    <3>3. e = ev => "receiptor" \in Places(e)
      BY <1>1 DEF Places
    <3>4. task.event = e => e \notin EventsIn(sendQueue)
      BY <1>7, <3>1, <3>3 DEF OneTaskOf, Places
    <3>5. Lone(sendQueue', e)
      BY <1>1, <1>2, <3>1, <3>4, LoneWith DEF OneTaskOf, BagsOK
    <3> QED
      BY <1>1, <3>1, <3>2, <3>3, <3>5 DEF OneTaskOf, Places
  <2> QED
    BY <2>1 DEF TaskGoes
<1>11. OneTask'
  BY <1>1, <1>10, TaskMovedOn DEF Calm
<1>12. \A t \in QueuedTasks' :
         \/ t \in QueuedTasks
         \/ /\ t.event \in executed' \/ NotSent(t.event)'
            /\ "drop" \notin faults' => t.nonce = NoNonce /\ t.event \in executed'
  <2>1. ev \in executed' \/ NotSent(task.event)'
    BY <1>1, <1>2, <1>4, <1>5, <1>7 DEF NotSent, task
  <2> QED
    BY <1>1, <1>2, <1>4, <1>5, <1>6, <1>7, <1>9 DEF NotSent
<1>13. "drop" \notin faults' => receiptor'.task.event \in executed'
  BY <1>1, <1>4, <1>6
<1> QED
  BY <1>1, <1>2, <1>8, <1>11, <1>12, <1>13, OthersCalm

(* The receiptor dies: what it was at is received again.                   *)
LEMMA ReceiptorDiesCalm ==
  ASSUME SenderInv, NonceInv, TasksInv, Calm, FaultStep, Steady', CrashReceiptor
  PROVE  Calm'
<1> DEFINE ev == receiptor.task.event
<1>1. /\ UNCHANGED <<mined, pool, executed, cachedNonce, lock, handler, sendQueue, unsent>>
      /\ receiptor'.pc = "idle" /\ unsentReceipts' = EmptyBag
      /\ receiptQueue' = IF receiptor.pc = "idle" THEN receiptQueue
                         ELSE With(receiptQueue, receiptor.task)
  BY DEF CrashReceiptor, chainVars, senderVars, redisVars, IdleReceiptor
<1>2. Transactions' = Transactions /\ Locked' /\ BagsOK /\ QueuedTasks' = QueuedTasks
  BY <1>1, SameTransactions DEF Calm, Locked, TasksInv, QueuedTasks
<1>3. receiptor.pc \in {"idle", "asking", "hung"} \/ (receiptor.pc = "rejecting" /\ ev \in executed)
  BY SteadyBefore DEF CrashReceiptor, Calm, Sure, SenderInv, QueuesTypeOK, ReceiptorRun
<1>4. /\ ReceiptTasks' \subseteq ReceiptTasks
      /\ \A task \in LiveReceipts' : task \in LiveReceipts \/ task.event \in executed
  BY <1>1, <1>3, WithMembers, EmptyBagMembers DEF ReceiptTasks, LiveReceipts
<1>5. EventsIn(unsentReceipts') = {} /\ \A e : Lone(unsentReceipts', e)
  BY <1>1, EmptyBagMembers DEF EventsIn, Lone
<1>6. CASE receiptor.pc = "idle"
  <2>1. \A e : Places(e)' \subseteq Places(e)
    BY <1>1, <1>5, <1>6 DEF Places
  <2>2. OneTask'
    BY <1>1, <1>5, <1>6, <2>1, OneTaskMoved DEF Calm, OneTask, OneTaskOf
  <2> QED
    BY <1>1, <1>2, <1>4, <2>2, OthersCalm
<1>7. CASE receiptor.pc # "idle"
  <2>1. ASSUME NEW e \in Event \ executed
        PROVE  /\ Lone(sendQueue', e) /\ Lone(unsent', e)
               /\ Lone(receiptQueue', e) /\ Lone(unsentReceipts', e)
               /\ e # ev => Places(e)' \subseteq Places(e)
               /\ e = ev =>
                    /\ "receiptor" \in Places(e)
                    /\ Places(e)' \subseteq (Places(e) \ {"receiptor"}) \cup {"receiptQueue"}
    <3>1. OneTaskOf(e)
      BY <2>1 DEF Calm, OneTask
    <3>2. receiptQueue' = With(receiptQueue, receiptor.task)
          /\ EventsIn(receiptQueue') = EventsIn(receiptQueue) \cup {ev}
      BY <1>1, <1>7, EventsWith
    <3>3. e = ev => "receiptor" \in Places(e)
      BY <1>3, <1>7, <2>1 DEF Places
    <3>4. e = ev => e \notin EventsIn(receiptQueue)
      BY <3>1, <3>3 DEF OneTaskOf, Places
    <3>5. Lone(receiptQueue', e)
      BY <1>2, <3>1, <3>2, <3>4, LoneWith DEF OneTaskOf, BagsOK
    <3> QED
      BY <1>1, <1>5, <3>1, <3>2, <3>3, <3>5 DEF OneTaskOf, Places
  <2>2. TaskGoes(ev, "receiptor", "receiptQueue")
    BY <2>1 DEF TaskGoes
  <2>3. OneTask'
    BY <1>1, <2>2, TaskMovedOn DEF Calm
  <2> QED
    BY <1>1, <1>2, <1>4, <2>3, OthersCalm
<1> QED
  BY <1>6, <1>7

(* A callback gets its task from the queue, and there is no other.         *)
LEMMA ReceivingCalm ==
  ASSUME SenderInv, NonceInv, TasksInv, Calm, FaultStep, Steady', NEW h \in Handler,
         NEW task \in BagToSet(sendQueue), Receive(h, task)
  PROVE  Calm'
<1>1. /\ UNCHANGED <<mined, pool, executed, cachedNonce, lock, unsent, receiptVars, faults>>
      /\ sendQueue' = Without(sendQueue, task) /\ handler[h].pc = "idle"
      /\ handler' = [handler EXCEPT ![h] = Held(task)]
      /\ \A g \in Handler : ~handler[g].held
  BY DEF Receive, chainVars, redisVars, historyVars
<1>2. BagsOK /\ handler \in [Handler -> Run]
  BY DEF TasksInv, SenderInv, CacheTypeOK
<1>3. /\ handler'[h] = Held(task)
      /\ \A g \in Handler \ {h} : handler'[g] = handler[g]
      /\ \A g \in Handler : handler[g].pc = "idle"
  BY <1>1, <1>2 DEF Calm, Serial
<1>4. /\ Held(task).pc = "processing" /\ Held(task).task = task /\ Held(task).held
      /\ Held(task).result = "none"
  BY DEF Held, Idle
<1>5. Transactions' = Transactions /\ Uncertain' = Uncertain
  BY <1>1, SameTransactions DEF Uncertain
<1>6. QueuedTasks' \subseteq QueuedTasks /\ task \in QueuedTasks
  BY <1>1, WithoutMembers DEF QueuedTasks
<1>7. LiveReceipts' = LiveReceipts /\ ReceiptTasks' = ReceiptTasks /\ UNCHANGED receiptor
  BY <1>1, SameReceipts DEF ReceiptTasks, receiptVars
<1>8. OneNonce' /\ Serial' /\ Locked' /\ NoMove'
  <2>1. \A g \in Handler : handler'[g].pc # "idle" => g = h
    BY <1>3
  <2>2. handler'[h].pc = "processing" /\ handler'[h].held
    BY <1>3, <1>4
  <2>3. OneNonce'
    BY <1>5 DEF Calm, OneNonce
  <2> QED
    BY <2>1, <2>2, <2>3 DEF Serial, Locked, NoMove, AfterChoice
<1>9. OneTask'
  <2>1. ASSUME NEW e \in Event \ executed'
        PROVE  /\ Lone(sendQueue', e) /\ Lone(unsent', e)
               /\ Lone(receiptQueue', e) /\ Lone(unsentReceipts', e)
               /\ Places(e)' \subseteq Places(e) \/ \E q : Places(e)' \subseteq {q}
    <3>1. OneTaskOf(e)
      BY <1>1, <2>1 DEF Calm, OneTask
    <3>2. EventsIn(sendQueue') \subseteq EventsIn(sendQueue) /\ task.event \in EventsIn(sendQueue)
      BY <1>1, EventsWithout DEF EventsIn
    <3>3. Lone(sendQueue', e) /\ (task.event = e => e \notin EventsIn(sendQueue'))
      BY <1>1, <1>2, <3>1, LoneWithout DEF OneTaskOf, BagsOK
    <3>4. \A g \in Handler : Owes(handler'[g]) /\ handler'[g].task.event = e => task.event = e
      BY <1>1, <1>3, <1>4 DEF Owes
    <3>5. CASE task.event = e
      <4>1. Places(e) = {"sendQueue"}
        BY <3>1, <3>2, <3>5 DEF OneTaskOf, Places
      <4>2. Places(e)' \subseteq {"handler"}
        BY <1>1, <1>7, <3>3, <3>5, <4>1 DEF Places, receiptVars
      <4> QED
        BY <1>1, <3>1, <3>3, <4>2 DEF OneTaskOf, receiptVars
    <3>6. CASE task.event # e
      <4>1. Places(e)' \subseteq Places(e)
        BY <1>1, <1>7, <3>2, <3>4, <3>6 DEF Places, receiptVars
      <4> QED
        BY <1>1, <3>1, <3>3, <4>1 DEF OneTaskOf, receiptVars
    <3> QED
      BY <3>5, <3>6
  <2> QED
    BY <1>1, <2>1, OneTaskMoved DEF Calm
<1>10. \A e : MayWait(e) => MayWait(e)'
  BY <1>1, <1>5 DEF MayWait, MaySend, NotSent, SentWith
<1>11. \A t \in QueuedTasks' : MayWait(t.event)'
  BY <1>6, <1>10 DEF Calm
<1>12. ASSUME NEW g \in Handler PROVE Knowing(handler[g])'
  <2>1. CASE g = h
    <3>1. MayWait(task.event)'
      BY <1>6, <1>10 DEF Calm
    <3>2. MayWait(handler[g].task.event)'
      BY <1>3, <1>4, <2>1, <3>1
    <3> QED
      BY <1>3, <1>4, <2>1, <3>2 DEF Knowing
  <2>2. CASE g # h
    BY <1>3, <2>2 DEF Knowing
  <2> QED
    BY <2>1, <2>2
<1>13. \A t \in LiveReceipts' : t.event \in executed' \/ SentAs(t.event, t.tx)'
  BY <1>1, <1>5, <1>7 DEF Calm, SentAs
<1>14. ASSUME "drop" \notin faults' PROVE Sure'
  <2>1. Sure
    BY <1>1, <1>14 DEF Calm
  <2>2. ASSUME NEW g \in Handler PROVE RunSure(handler[g])'
    BY <1>1, <1>3, <1>4, <1>6, <2>1 DEF Sure, RunSure
  <2> QED
    BY <1>1, <1>5, <1>6, <1>7, <2>1, <2>2 DEF Sure
<1> QED
  BY <1>8, <1>9, <1>11, <1>12, <1>13, <1>14 DEF Calm

-----------------------------------------------------------------------------
(* At first every event has its task in the queue, and nothing is sent.    *)
LEMMA OneNonceInvInit == SenderInit => OneNonceInv
<1> SUFFICES ASSUME SenderInit PROVE Calm
  BY DEF OneNonceInv
<1> DEFINE tasks == {NewTask(e) : e \in Event}
<1>1. Count = 0 /\ Transactions = {}
  BY DEF SenderInit, Count, Transactions
<1>2. \A h \in Handler : handler[h] = Idle
  BY DEF SenderInit
<1>3. /\ Idle.pc = "idle" /\ ~Idle.held /\ ~Owes(Idle) /\ Knowing(Idle) /\ RunSure(Idle)
  BY DEF Idle, Owes, Knowing, RunSure
<1>4. /\ BagToSet(sendQueue) = tasks /\ BagToSet(unsent) = {} /\ BagToSet(receiptQueue) = {}
      /\ BagToSet(unsentReceipts) = {} /\ receiptor.pc = "idle"
  BY BagOfSet, EmptyBagMembers DEF SenderInit, IdleReceiptor
<1>5. QueuedTasks = tasks /\ LiveReceipts = {} /\ ReceiptTasks = {}
  BY <1>4 DEF QueuedTasks, LiveReceipts, ReceiptTasks
<1>6. \A task \in tasks : ~task.retry /\ task = NewTask(task.event)
  BY DEF NewTask
<1>7. OneTask
  <2>1. ASSUME NEW e \in Event PROVE OneTaskOf(e)
    <3>1. Places(e) \subseteq {"sendQueue"}
      BY <1>2, <1>3, <1>4 DEF Places, EventsIn
    <3>2. \A s \in tasks : sendQueue[s] = 1
      BY DEF SenderInit, SetToBag
    <3>3. Lone(sendQueue, e)
      BY <1>4, <1>6, <3>2 DEF Lone
    <3> QED
      BY <1>4, <3>1, <3>3 DEF OneTaskOf, Lone
  <2> QED
    BY <2>1 DEF OneTask
<1>8. OneNonce /\ Serial /\ Locked /\ NoMove
  BY <1>1, <1>2, <1>3 DEF OneNonce, Serial, Locked, NoMove, AfterChoice
<1>9. Sure
  BY <1>1, <1>2, <1>3, <1>4, <1>5, <1>6 DEF Sure
<1>10. \A task \in QueuedTasks : MayWait(task.event)
  BY <1>1 DEF MayWait, MaySend, NotSent
<1> QED
  BY <1>2, <1>3, <1>5, <1>7, <1>8, <1>9, <1>10 DEF Calm

(* A process that dies, a lost channel and a failing Redis are no steps of *)
(* a steady behaviour.                                                     *)
LEMMA NotSteady ==
  ASSUME SenderInv, NonceInv, FaultStep, Steady'
  PROVE  /\ ~CrashSender
         /\ \A h \in Handler : ~Disconnect(h) /\ ~SetNonceFails(h) /\ ~ExitForFunds(h)
<1>1. ~CrashSender /\ \A h \in Handler : ~Disconnect(h) /\ ~SetNonceFails(h)
  BY SteadyBefore DEF CrashSender, Disconnect, SetNonceFails, RepeatingFault
<1>2. ASSUME NEW h \in Handler, ExitForFunds(h) PROVE FALSE
  <2>1. "funds" \in faults
    BY <1>2 DEF ExitForFunds, NonceInv, RunOK
  <2> QED
    BY <2>1, SteadyBefore DEF Steady, RepeatingFault
<1> QED
  BY <1>1, <1>2

(* Every step keeps the invariant.                                         *)
LEMMA OneNonceInvStep ==
  SenderInv /\ SenderInv' /\ TasksInv /\ NonceInv /\ OneNonceInv /\ [SenderNext]_vars => OneNonceInv'
<1> SUFFICES ASSUME SenderInv, SenderInv', TasksInv, NonceInv, OneNonceInv, [SenderNext]_vars, Steady'
             PROVE  Calm'
  BY DEF OneNonceInv
<1>1. FaultStep
  BY FaultsGrow DEF FaultStep, vars, historyVars
<1>2. Calm
  BY <1>1, SteadyBefore DEF OneNonceInv
<1>3. CASE NodeNext \/ UNCHANGED vars
  BY <1>1, <1>2, <1>3, NodeCalm
<1>4. CASE QueueNext
  BY <1>1, <1>2, <1>4, ReceivingCalm, DeliveringCalm, ReceiptorCalm DEF QueueNext
<1>5. CASE ReceiptorNext
  BY <1>1, <1>2, <1>5, ReceiptorCalm, ResendingCalm, ReceiptorDiesCalm DEF ReceiptorNext
<1>6. ASSUME NEW h \in Handler, HandlerNext(h) PROVE Calm'
  BY <1>1, <1>2, <1>6, LookingCalm, ChoosingCalm, FillingCalm, SendingCalm, HandingOverCalm,
     SavingCalm, SettlingCalm, NotSteady DEF HandlerNext
<1>7. CASE SenderFaultNext
  BY <1>1, <1>2, <1>7, NodeCalm, ThrowingCalm, ReceiptThrowingCalm, NotSteady DEF SenderFaultNext
<1> QED
  BY <1>3, <1>4, <1>5, <1>6, <1>7 DEF SenderNext

(* The message that is acknowledged last, the lock, and the retry with the *)
(* nonce it had together: the transactions of an event have one nonce,     *)
(* whatever single thing goes wrong that does not make the sender start    *)
(* twice or forget.                                                        *)
THEOREM EventsUseOneNonce == SenderSpec => []OneNonceEach
<1>1. NonceInv /\ OneNonceInv => OneNonceEach
  <2> SUFFICES ASSUME NonceInv, OneNonceInv, NEW s \in Transactions, NEW t \in Transactions,
                      s.payload = t.payload, s.payload \in Event, s.nonce # t.nonce
               PROVE  faults \cap RepeatingFault # {} \/ Cardinality(faults) > 1
    BY DEF OneNonceEach
  <2>1. ~Steady
    BY DEF OneNonceInv, Calm, OneNonce
  <2> QED
    BY <2>1, TwoFaults DEF Steady, NonceInv
<1>2. SenderInit => SenderInv /\ TasksInv /\ NonceInv /\ OneNonceInv
  BY SenderInvInit, TasksInvInit, NonceInvInit, OneNonceInvInit
<1>3. SenderInv /\ TasksInv /\ NonceInv /\ OneNonceInv /\ [SenderNext]_vars
      => (SenderInv /\ TasksInv /\ NonceInv /\ OneNonceInv)'
  BY SenderInvStep, TasksInvStep, NonceInvStep, OneNonceInvStep
<1> QED
  BY <1>1, <1>2, <1>3, PTL DEF SenderSpec
=============================================================================

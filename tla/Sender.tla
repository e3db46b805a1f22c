------------------------------- MODULE Sender -------------------------------
(***************************************************************************)
(* The sending half of one validator on one chain: the sender process      *)
(* (validator/src/lib/sender.ts, sender.main.ts), the receiptor process    *)
(* (lib/receiptor.ts, receiptor.main.ts) and the queues between them       *)
(* (services/amqpClient.js).  The sender turns an event into a transaction *)
(* with the next nonce of the validator's account; the receiptor waits for *)
(* its receipt and gives the event back when there is none.                *)
(*                                                                         *)
(* The node, the broker and Redis are outside the code.  The node's pool   *)
(* holds one transaction per nonce; the chain takes them in the order of   *)
(* their nonces.  Queues deliver in any order: a retry waits in a queue of *)
(* its own.  Each kind of fault happens at most once in a behaviour.       *)
(***************************************************************************)
EXTENDS Integers, Sequences, FiniteSets, Bags

CONSTANTS
  Event,
  Handler,           \* the callbacks of the sender process that may overlap
  Nobody, Abandoned, \* no holder of the lock, or one that is dead
  MaxNonce,          \* bound: the nonces of the account
  Price,             \* of gas
  Faults, MaxFaults, \* what may go wrong, of FaultKind; bound: how much of it
  SelfTransfer,      \* the payload of the transaction that fills a nonce
  NoNonce, NoTx, NoTask

FaultKind ==
  {"crash", "disconnect", "expire", "redis", "rpc", "timeout", "gasLimit", "funds",
   "refused", "drop", "slow", "receiptorCrash", "receiptError"}

Nonce == 0..MaxNonce
Tx == [payload : Event \cup {SelfTransfer}, nonce : Nonce, price : Price]
EventTask == [event : Event, nonce : Nonce \cup {NoNonce}, retry : BOOLEAN]
ReceiptTask == [event : Event, tx : Tx]

ASSUME SenderAssumption ==
  /\ Faults \subseteq FaultKind
  /\ MaxFaults \in Nat /\ MaxNonce \in Nat
  /\ Price \subseteq Nat \ {0} /\ \E p \in Price : \A q \in Price : p <= q
  /\ SelfTransfer \notin Event /\ {Nobody, Abandoned} \cap Handler = {}
  /\ NoNonce \notin Nat /\ NoTx \notin Tx

VARIABLES
  mined,          \* the transactions of the account on the chain, by nonce
  executed,       \* the events whose effect is on the chain
  pool,           \* the node's pending transactions, by nonce
  cachedNonce,    \* in Redis
  lock,           \* in Redis: the holder of the nonce lock
  handler,        \* the state of each callback of the sender
  sendQueue, receiptQueue,        \* at the broker
  unsent, unsentReceipts,         \* published by a process, not yet at the broker
  receiptor,      \* the state of the receiptor
  faults,         \* those that happened
  forgotten       \* events whose task was dropped or died with a process

chainVars == <<mined, executed, pool>>
redisVars == <<cachedNonce, lock>>
senderVars == <<redisVars, handler, sendQueue, unsent>>
receiptVars == <<receiptQueue, unsentReceipts, receiptor>>
historyVars == <<faults, forgotten>>
vars == <<chainVars, senderVars, receiptVars, historyVars>>

Idle == [pc |-> "idle", task |-> NoTask, held |-> FALSE, nonce |-> 0, tx |-> NoTx,
         result |-> "none"]

IdleReceiptor == [pc |-> "idle", task |-> NoTask]

SendResult ==
  {"none", "success", "txImported", "sendDummyTxToFillNonce", "failed", "timeout",
   "insufficientFunds", "blockGasLimitExceeded", "nonceTooLow"}

SenderTypeOK ==
  /\ mined \in Seq([tx : Tx, status : BOOLEAN])
  /\ executed \subseteq Event
  /\ pool \in [Nonce -> Tx \cup {NoTx}]
  /\ cachedNonce \in Nat \cup {NoNonce}
  /\ lock \in Handler \cup {Nobody, Abandoned}
  /\ handler \in [Handler ->
       [pc : {"idle", "processing", "filling", "locking", "sending", "receipting",
              "updating", "setting", "settling"},
        task : EventTask \cup {NoTask}, held : BOOLEAN, nonce : Nat,
        tx : Tx \cup {NoTx}, result : SendResult]]
  /\ receiptor \in [pc : {"idle", "asking", "rejecting", "hung"},
                    task : ReceiptTask \cup {NoTask}]
  /\ IsABag(sendQueue) /\ BagToSet(sendQueue) \subseteq EventTask
  /\ IsABag(unsent) /\ BagToSet(unsent) \subseteq EventTask
  /\ IsABag(receiptQueue) /\ BagToSet(receiptQueue) \subseteq ReceiptTask
  /\ IsABag(unsentReceipts) /\ BagToSet(unsentReceipts) \subseteq ReceiptTask
  /\ faults \subseteq Faults /\ forgotten \subseteq Event
  /\ \A n \in Nonce : pool[n] # NoTx => pool[n].nonce = n /\ n >= Len(mined)

NewTask(e) == [event |-> e, nonce |-> NoNonce, retry |-> FALSE]

(* The watcher has queued every event; when each is received is open.      *)
SenderInit ==
  /\ mined = <<>> /\ executed = {} /\ pool = [n \in Nonce |-> NoTx]
  /\ cachedNonce = NoNonce /\ lock = Nobody
  /\ handler = [h \in Handler |-> Idle]
  /\ sendQueue = SetToBag({NewTask(e) : e \in Event}) /\ receiptQueue = EmptyBag
  /\ unsent = EmptyBag /\ unsentReceipts = EmptyBag
  /\ receiptor = IdleReceiptor
  /\ faults = {} /\ forgotten = {}

Happens(kind) ==
  /\ kind \in Faults \ faults /\ Cardinality(faults) < MaxFaults
  /\ faults' = faults \cup {kind}

With(bag, x) == bag (+) SetToBag({x})
Without(bag, x) == bag (-) SetToBag({x})

-----------------------------------------------------------------------------
(* The node and the chain *)

(* The nonce the chain expects next, getTransactionCount.                  *)
Count == Len(mined)

Mine ==
  /\ Count \in Nonce /\ pool[Count] # NoTx
  /\ LET tx == pool[Count] IN
       /\ mined' = Append(mined, [tx |-> tx, status |-> tx.payload \notin executed])
       /\ executed' = executed \cup ({tx.payload} \ {SelfTransfer})
  /\ pool' = [pool EXCEPT ![Count] = NoTx]
  /\ UNCHANGED <<senderVars, receiptVars, historyVars>>

DropTx(n) ==
  /\ pool[n] # NoTx
  /\ Happens("drop")
  /\ pool' = [pool EXCEPT ![n] = NoTx]
  /\ UNCHANGED <<mined, executed, senderVars, receiptVars, forgotten>>

(* Other validators, or any relayer, make the event's transaction needless: *)
(* no fault, and at any time.                                              *)
ExecutedByOthers(e) ==
  /\ e \notin executed
  /\ executed' = executed \cup {e}
  /\ UNCHANGED <<mined, pool, senderVars, receiptVars, historyVars>>

PriceOf(tx) == IF tx = NoTx THEN 0 ELSE tx.price

Accepts(tx) == tx.nonce >= Count /\ PriceOf(pool[tx.nonce]) < tx.price

Knows(tx) == tx.nonce >= Count /\ pool[tx.nonce] = tx

(* Another transaction with this nonce is in the queue and pays no less.   *)
Occupied(tx) == tx.nonce >= Count /\ ~Accepts(tx) /\ ~Knows(tx)

TakeIn(tx) == Accepts(tx) /\ pool' = [pool EXCEPT ![tx.nonce] = tx]

(* No answer in time: the node has the transaction or has it not.          *)
TimesOut(tx) == Happens("timeout") /\ (TakeIn(tx) \/ UNCHANGED pool)

-----------------------------------------------------------------------------
(* The sender: the queue's side of a callback *)

Held(task) == [Idle EXCEPT !.pc = "processing", !.task = task, !.held = TRUE]

(* prefetch(1): the broker sends the next when the last was acknowledged;  *)
(* which of the idle callbacks it starts is all the same.                  *)
Receive(h, task) ==
  /\ handler[h].pc = "idle" /\ h = CHOOSE g \in Handler : handler[g].pc = "idle"
  /\ \A g \in Handler : ~handler[g].held
  /\ BagIn(task, sendQueue)
  /\ sendQueue' = Without(sendQueue, task)
  /\ handler' = [handler EXCEPT ![h] = Held(task)]
  /\ UNCHANGED <<chainVars, redisVars, unsent, receiptVars, historyVars>>

(* ackMsg, and nackMsg, which asks for no redelivery.                      *)
AckMsg(h) == handler' = [handler EXCEPT ![h] = Idle] /\ UNCHANGED unsent

(* enqueueSender, which is not waited for, then nackMsg.                   *)
Requeue(h, task) ==
  /\ unsent' = With(unsent, task)
  /\ handler' = [handler EXCEPT ![h] = Idle]

Unlock(h) == lock' = IF lock = h THEN Nobody ELSE lock

Deliver(task) ==
  /\ BagIn(task, unsent)
  /\ unsent' = Without(unsent, task)
  /\ sendQueue' = With(sendQueue, task)
  /\ UNCHANGED <<chainVars, redisVars, handler, receiptVars, historyVars>>

(* The channel is lost: the broker delivers the message again, the callback *)
(* that has it goes on.                                                    *)
Disconnect(h) ==
  /\ handler[h].held
  /\ Happens("disconnect")
  /\ sendQueue' = With(sendQueue, handler[h].task)
  /\ handler' = [handler EXCEPT ![h].held = FALSE]
  /\ UNCHANGED <<chainVars, redisVars, unsent, receiptVars, forgotten>>

TasksHeldBy(handlers) == {handler[h].task : h \in {g \in handlers : handler[g].held}}

(* The process is gone: what it had published but not sent is lost, and a  *)
(* lock it held stays until it expires.                                    *)
Dies(holder) ==
  /\ handler' = [h \in Handler |-> Idle]
  /\ lock' = IF holder \in Handler THEN Abandoned ELSE holder
  /\ unsent' = EmptyBag

Unsent == {task.event : task \in BagToSet(unsent)}

(* It dies: the message it had is delivered again.                         *)
CrashSender ==
  /\ Happens("crash")
  /\ Dies(lock)
  /\ sendQueue' = sendQueue (+) SetToBag(TasksHeldBy(Handler))
  /\ forgotten' = forgotten \cup Unsent
  /\ UNCHANGED <<chainVars, cachedNonce, receiptVars>>

-----------------------------------------------------------------------------
(* The sender: run and sendTx *)

(* Mutant of IsRetryOf: the nonce the chain waits for is not taken again.  *)
IsRetryAfter(task, n) == task.retry /\ task.nonce # NoNonce /\ task.nonce > n

IsRetryOf(task, n) == task.retry /\ task.nonce # NoNonce /\ task.nonce >= n

(* processEvents finds that nothing is left to do for the event; then the  *)
(* nonce of a retried task is filled if the chain still waits for it.      *)
SkipEvent(h) ==
  LET task == handler[h].task IN
  /\ handler[h].pc = "processing" /\ task.event \in executed
  /\ IF IsRetryOf(task, Count)
     THEN handler' = [handler EXCEPT ![h].pc = "filling"] /\ UNCHANGED unsent
     ELSE AckMsg(h)
  /\ UNCHANGED <<chainVars, redisVars, sendQueue, receiptVars, historyVars>>

(* Mutant of ProcessEventTask: done or not, the event is sent.             *)
ProcessAnyEventTask(h) ==
  /\ handler[h].pc = "processing"
  /\ handler' = [handler EXCEPT ![h].pc = "locking"]
  /\ UNCHANGED <<chainVars, redisVars, sendQueue, unsent, receiptVars, historyVars>>

ProcessEventTask(h) ==
  /\ handler[h].pc = "processing" /\ handler[h].task.event \notin executed
  /\ handler' = [handler EXCEPT ![h].pc = "locking"]
  /\ UNCHANGED <<chainVars, redisVars, sendQueue, unsent, receiptVars, historyVars>>

(* A call to the node or to Redis throws and ends run: before a            *)
(* transaction is sent, or after it when the nonce is saved.               *)
RunThrows(h) ==
  /\ \/ handler[h].pc \in {"processing", "filling", "sending"} /\ Happens("rpc")
     \/ handler[h].pc \in {"locking", "updating"} /\ Happens("redis")
  /\ Unlock(h)
  /\ Requeue(h, handler[h].task)
  /\ UNCHANGED <<chainVars, cachedNonce, sendQueue, receiptVars, forgotten>>

BasePrice == CHOOSE p \in Price : \A q \in Price : p <= q

(* getPrice: the longer ago the event was first sent, the more is paid.    *)
GasPrices(task) == IF task.retry THEN Price ELSE {BasePrice}

(* sendToSelf, without the lock.                                           *)
SendToSelf(h) ==
  LET tx == [payload |-> SelfTransfer, nonce |-> handler[h].task.nonce, price |-> BasePrice]
      sent == [handler EXCEPT ![h].pc = "receipting", ![h].tx = tx,
                              ![h].result = "sendDummyTxToFillNonce"] IN
  /\ handler[h].pc = "filling"
  /\ \/ TakeIn(tx) /\ handler' = sent /\ UNCHANGED <<unsent, faults>>
     \/ Knows(tx) /\ handler' = sent /\ UNCHANGED <<pool, unsent, faults>>
     \/ ~Accepts(tx) /\ ~Knows(tx) /\ AckMsg(h) /\ UNCHANGED <<pool, faults>>
     \/ Occupied(tx) /\ Requeue(h, handler[h].task) /\ UNCHANGED <<pool, faults>>
     \/ TimesOut(tx) /\ Requeue(h, handler[h].task)
  /\ UNCHANGED <<mined, executed, redisVars, sendQueue, receiptVars, forgotten>>

ReadNonce == IF cachedNonce = NoNonce THEN Count ELSE cachedNonce

(* locker.lock, then the choice of the nonce: when the cache cannot be read *)
(* the chain is asked.                                                     *)
LockAndChooseNonce(h) ==
  LET task == handler[h].task
      Choose(n) ==
        handler' = [handler EXCEPT ![h].pc = "sending",
                                   ![h].nonce = IF IsRetryOf(task, Count) THEN task.nonce ELSE n] IN
  /\ handler[h].pc = "locking" /\ lock = Nobody
  /\ lock' = h
  /\ \/ Choose(ReadNonce) /\ UNCHANGED faults
     \/ Choose(Count) /\ Happens("redis")
  /\ UNCHANGED <<chainVars, cachedNonce, sendQueue, unsent, receiptVars, forgotten>>

Answered(h, pc, tx, nonce, result) ==
  handler' = [handler EXCEPT ![h].pc = pc, ![h].tx = tx, ![h].nonce = nonce,
                             ![h].result = result]

(* sendTransaction and what sendTx makes of the answer.                    *)
SendTransaction(h, price) ==
  LET n == handler[h].nonce
      tx == [payload |-> handler[h].task.event, nonce |-> n, price |-> price] IN
  /\ handler[h].pc = "sending" /\ n \in Nonce /\ price \in GasPrices(handler[h].task)
  /\ \/ /\ TakeIn(tx)
        /\ Answered(h, "receipting", tx, n, "success") /\ UNCHANGED faults
     \/ /\ Knows(tx)
        /\ Answered(h, "receipting", tx, n, "txImported") /\ UNCHANGED <<pool, faults>>
     \/ /\ ~Accepts(tx) /\ ~Knows(tx)
        /\ Answered(h, "updating", NoTx, Count, "nonceTooLow") /\ UNCHANGED <<pool, faults>>
     \/ /\ Occupied(tx)
        /\ Answered(h, "updating", NoTx, n, "failed") /\ UNCHANGED <<pool, faults>>
     \/ /\ TimesOut(tx)
        /\ Answered(h, "updating", NoTx, n, "timeout")
     \/ /\ Happens("refused") /\ UNCHANGED pool
        /\ Answered(h, "updating", NoTx, n, "failed")
     \/ /\ Happens("funds") /\ UNCHANGED pool
        /\ Answered(h, "updating", NoTx, n, "insufficientFunds")
     \/ /\ Happens("gasLimit") /\ UNCHANGED pool
        /\ Answered(h, "updating", NoTx, n, "blockGasLimitExceeded")
  /\ UNCHANGED <<mined, executed, redisVars, sendQueue, unsent, receiptVars, forgotten>>

(* newReceiptTask and enqueueReceiptor, which is waited for.  Only a       *)
(* transaction the node took now moves the nonce on.                       *)
EnqueueReceipt(h) ==
  LET run == handler[h] IN
  /\ run.pc = "receipting"
  /\ receiptQueue' = With(receiptQueue, [event |-> run.task.event, tx |-> run.tx])
  /\ CASE run.result = "success" -> Answered(h, "updating", NoTx, run.nonce + 1, run.result)
       [] run.result = "txImported" -> Answered(h, "updating", NoTx, run.nonce, run.result)
       [] OTHER -> Answered(h, "settling", NoTx, run.nonce, run.result)
  /\ UNCHANGED <<chainVars, redisVars, sendQueue, unsent, unsentReceipts, receiptor, historyVars>>

(* newReceiptTask asks the node for its block number: in the try block of  *)
(* sendTx a failure counts as a failure to send, elsewhere it ends run.    *)
NewReceiptTaskThrows(h) ==
  /\ handler[h].pc = "receipting"
  /\ Happens("rpc")
  /\ IF handler[h].result = "success"
     THEN Answered(h, "updating", NoTx, handler[h].nonce, "failed") /\ UNCHANGED <<lock, unsent>>
     ELSE Unlock(h) /\ Requeue(h, handler[h].task)
  /\ UNCHANGED <<chainVars, cachedNonce, sendQueue, receiptVars, forgotten>>

(* Mutant of ReadOldNonce: the values are not compared.                    *)
SkipOldNonce(h) ==
  /\ handler[h].pc = "updating"
  /\ handler' = [handler EXCEPT ![h].pc = "setting"]
  /\ UNCHANGED <<chainVars, redisVars, sendQueue, unsent, receiptVars, historyVars>>

(* updateNonce: the old value is read, and the new one set if it is larger. *)
ReadOldNonce(h) ==
  /\ handler[h].pc = "updating"
  /\ handler' = [handler EXCEPT ![h].pc =
       IF cachedNonce = NoNonce \/ cachedNonce < handler[h].nonce THEN "setting" ELSE "settling"]
  /\ UNCHANGED <<chainVars, redisVars, sendQueue, unsent, receiptVars, historyVars>>

SetNonce(h) ==
  /\ handler[h].pc = "setting"
  /\ cachedNonce' = handler[h].nonce
  /\ handler' = [handler EXCEPT ![h].pc = "settling"]
  /\ UNCHANGED <<chainVars, lock, sendQueue, unsent, receiptVars, historyVars>>

(* The write is not waited for: its failure goes unnoticed.                *)
SetNonceFails(h) ==
  /\ handler[h].pc = "setting"
  /\ Happens("redis")
  /\ handler' = [handler EXCEPT ![h].pc = "settling"]
  /\ UNCHANGED <<chainVars, redisVars, sendQueue, unsent, receiptVars, forgotten>>

(* Mutant of SettleMessage: every result acknowledges the message.         *)
AckAnyResult(h) == AckMsg(h) /\ UNCHANGED forgotten

(* The switch on the result.                                               *)
SettleMessage(h) ==
  LET task == handler[h].task
      result == handler[h].result IN
  \/ /\ result \in {"success", "txImported", "sendDummyTxToFillNonce"}
     /\ AckMsg(h) /\ UNCHANGED forgotten
  \/ /\ result \in {"failed", "timeout"}
     /\ Requeue(h, task) /\ UNCHANGED forgotten
  \/ /\ result = "blockGasLimitExceeded"
     /\ AckMsg(h) /\ forgotten' = forgotten \cup {task.event}
  \/ /\ result = "nonceTooLow"
     /\ Requeue(h, IF task.retry THEN [task EXCEPT !.nonce = NoNonce] ELSE task)
     /\ UNCHANGED forgotten

(* unlock, which throws if the lock has expired before, then the switch.   *)
Settle(h) ==
  /\ handler[h].pc = "settling"
  /\ Unlock(h)
  /\ \/ SettleMessage(h)
     \/ /\ lock # h /\ handler[h].result # "sendDummyTxToFillNonce"
        /\ Requeue(h, handler[h].task) /\ UNCHANGED forgotten
  /\ UNCHANGED <<chainVars, cachedNonce, sendQueue, receiptVars, faults>>

(* Without funds the process gives the lock back and exits.  Its task was  *)
(* published or not, and the message rejected or not: copies of it remain. *)
ExitForFunds(h) ==
  LET run == handler[h] IN
  /\ run.pc = "settling" /\ run.result = "insufficientFunds"
  /\ Dies(IF lock = h THEN Nobody ELSE lock)
  /\ \E copies \in 0..(IF run.held THEN 2 ELSE 1) :
       /\ sendQueue' = sendQueue (+) SetToBag(TasksHeldBy(Handler \ {h}))
                                 (+) [task \in {run.task : i \in 1..copies} |-> copies]
       /\ forgotten' = forgotten \cup Unsent \cup
                        (IF copies = 0 /\ run.held THEN {run.task.event} ELSE {})
  /\ UNCHANGED <<chainVars, cachedNonce, receiptVars, faults>>

(* REDIS_LOCK_TTL has passed: a fault when the holder is still at work.    *)
ExpireLock ==
  /\ lock # Nobody
  /\ IF lock = Abandoned THEN UNCHANGED faults ELSE Happens("expire")
  /\ lock' = Nobody
  /\ UNCHANGED <<chainVars, cachedNonce, handler, sendQueue, unsent, receiptVars, forgotten>>

-----------------------------------------------------------------------------
(* The receiptor *)

ReceiveReceipt(task) ==
  /\ receiptor.pc = "idle" /\ BagIn(task, receiptQueue)
  /\ receiptQueue' = Without(receiptQueue, task)
  /\ receiptor' = [pc |-> "asking", task |-> task]
  /\ UNCHANGED <<chainVars, senderVars, unsentReceipts, historyVars>>

IsMined(tx) == tx.nonce < Count /\ mined[tx.nonce + 1].tx = tx
IsPending(tx) == tx.nonce >= Count /\ pool[tx.nonce] = tx

(* The receipt says the transaction succeeded, K blocks ago.               *)
ConfirmReceipt ==
  LET tx == receiptor.task.tx IN
  /\ receiptor.pc = "asking"
  /\ IsMined(tx) /\ mined[tx.nonce + 1].status
  /\ receiptor' = IdleReceiptor
  /\ UNCHANGED <<chainVars, senderVars, receiptQueue, unsentReceipts, historyVars>>

(* No receipt, or not K blocks ago: retryMsg publishes the task again,     *)
(* without waiting, and rejects the message.                               *)
WaitForReceipt ==
  LET tx == receiptor.task.tx IN
  /\ receiptor.pc = "asking"
  /\ IsMined(tx) => mined[tx.nonce + 1].status
  /\ unsentReceipts' = With(unsentReceipts, receiptor.task)
  /\ receiptor' = IdleReceiptor
  /\ UNCHANGED <<chainVars, senderVars, receiptQueue, historyVars>>

(* resendEvent, which is waited for: with the nonce when there is no       *)
(* receipt after MAX_WAIT_RECEIPT_BLOCK blocks (a fault of the network     *)
(* when the transaction is still pending), without it when it failed.      *)
ResendEvent ==
  LET tx == receiptor.task.tx IN
  /\ receiptor.pc = "asking"
  /\ \/ ~IsMined(tx) /\ ~IsPending(tx) /\ UNCHANGED faults
     \/ IsPending(tx) /\ Happens("slow")
     \/ IsMined(tx) /\ ~mined[tx.nonce + 1].status /\ UNCHANGED faults
  /\ sendQueue' = With(sendQueue, [event |-> receiptor.task.event, retry |-> TRUE,
                                   nonce |-> IF IsMined(tx) THEN NoNonce ELSE tx.nonce])
  /\ receiptor' = [receiptor EXCEPT !.pc = "rejecting"]
  /\ UNCHANGED <<chainVars, redisVars, handler, unsent, receiptQueue, unsentReceipts, forgotten>>

RejectMsg ==
  /\ receiptor.pc = "rejecting"
  /\ receiptor' = IdleReceiptor
  /\ UNCHANGED <<chainVars, senderVars, receiptQueue, unsentReceipts, historyVars>>

(* The call for the receipt fails: the promise of getReceipt is never      *)
(* settled, and nothing is received any more.                              *)
GetReceiptThrows ==
  /\ receiptor.pc = "asking"
  /\ Happens("receiptError")
  /\ receiptor' = [receiptor EXCEPT !.pc = "hung"]
  /\ UNCHANGED <<chainVars, senderVars, receiptQueue, unsentReceipts, forgotten>>

DeliverReceipt(task) ==
  /\ BagIn(task, unsentReceipts)
  /\ unsentReceipts' = Without(unsentReceipts, task)
  /\ receiptQueue' = With(receiptQueue, task)
  /\ UNCHANGED <<chainVars, senderVars, receiptor, historyVars>>

(* The process dies, or the watchdog ends it.                              *)
CrashReceiptor ==
  /\ \/ Happens("receiptorCrash")
     \/ receiptor.pc = "hung" /\ UNCHANGED faults
  /\ receiptQueue' = IF receiptor.pc = "idle" THEN receiptQueue
                     ELSE With(receiptQueue, receiptor.task)
  /\ receiptor' = IdleReceiptor
  /\ forgotten' = forgotten \cup {task.event : task \in BagToSet(unsentReceipts)}
  /\ unsentReceipts' = EmptyBag
  /\ UNCHANGED <<chainVars, senderVars>>

-----------------------------------------------------------------------------
NodeNext ==
  \/ Mine
  \/ \E n \in Nonce : DropTx(n)
  \/ \E e \in Event : ExecutedByOthers(e)

HandlerNext(h) ==
  \/ SkipEvent(h) \/ ProcessEventTask(h) \/ LockAndChooseNonce(h)
  \/ SendToSelf(h)
  \/ \E price \in Price : SendTransaction(h, price)
  \/ EnqueueReceipt(h) \/ ReadOldNonce(h) \/ SetNonce(h) \/ Settle(h) \/ ExitForFunds(h)

SenderFaultNext ==
  \/ CrashSender \/ ExpireLock
  \/ \E h \in Handler : Disconnect(h) \/ RunThrows(h) \/ NewReceiptTaskThrows(h) \/ SetNonceFails(h)

QueueNext ==
  \/ \E h \in Handler, task \in BagToSet(sendQueue) : Receive(h, task)
  \/ \E task \in BagToSet(unsent) : Deliver(task)
  \/ \E task \in BagToSet(receiptQueue) : ReceiveReceipt(task)
  \/ \E task \in BagToSet(unsentReceipts) : DeliverReceipt(task)

ReceiptorNext ==
  \/ ConfirmReceipt \/ WaitForReceipt \/ ResendEvent \/ RejectMsg
  \/ GetReceiptThrows \/ CrashReceiptor

SenderNext ==
  \/ NodeNext \/ SenderFaultNext \/ QueueNext \/ ReceiptorNext
  \/ \E h \in Handler : HandlerNext(h)

SenderSpec == SenderInit /\ [][SenderNext]_vars

-----------------------------------------------------------------------------
(* The queues are served in turn, so that no event and no receipt waits    *)
(* for ever; a started callback goes on; blocks are produced, so that a    *)
(* receipt that never comes is given up; a lock left behind expires, and   *)
(* the watchdog ends a receiptor that hangs (MAX_PROCESSING_TIME).         *)
ReceiveEvent(e) ==
  \E h \in Handler, task \in BagToSet(sendQueue) : task.event = e /\ Receive(h, task)

ReceiveReceiptOf(e) ==
  \E task \in BagToSet(receiptQueue) : task.event = e /\ ReceiveReceipt(task)

DeliverEvent(e) ==
  \/ \E task \in BagToSet(unsent) : task.event = e /\ Deliver(task)
  \/ \E task \in BagToSet(unsentReceipts) : task.event = e /\ DeliverReceipt(task)

ResendGone(e) ==
  /\ receiptor.task # NoTask /\ receiptor.task.event = e
  /\ ResendEvent /\ UNCHANGED faults

FairSenderSpec ==
  /\ SenderSpec
  /\ WF_vars(Mine)
  /\ \A h \in Handler : WF_vars(HandlerNext(h))
  /\ \A e \in Event :
       /\ WF_vars(DeliverEvent(e))
       /\ SF_vars(ReceiveEvent(e)) /\ SF_vars(ReceiveReceiptOf(e)) /\ SF_vars(ResendGone(e))
  /\ WF_vars(ConfirmReceipt \/ WaitForReceipt \/ RejectMsg)
  /\ WF_vars(ExpireLock /\ UNCHANGED faults)
  /\ WF_vars(CrashReceiptor /\ UNCHANGED faults)

TasksAtWork == {handler[h].task : h \in {g \in Handler : handler[g].pc # "idle"}}
EventTasks == BagToSet(sendQueue) \cup BagToSet(unsent) \cup TasksAtWork
ReceiptTasks ==
  BagToSet(receiptQueue) \cup BagToSet(unsentReceipts) \cup
  (IF receiptor.pc = "idle" THEN {} ELSE {receiptor.task})

(* No event is lost by the hand-overs between the queues and the processes *)
(* (ack, reject and publish, in that order or another): until its effect   *)
(* is on the chain a task for it exists, unless its task was refused for   *)
(* the gas limit of a block or died with a process.                        *)
NothingForgotten ==
  \A e \in Event \ (executed \cup forgotten) :
    \E task \in EventTasks \cup ReceiptTasks : task.event = e

Transactions == {mined[i].tx : i \in 1..Count} \cup ({pool[n] : n \in Nonce} \ {NoTx})

(* What may make the sender work twice for an event, or forget the nonce   *)
(* it used: a callback started again, the lock or the cache failing it, a  *)
(* transaction resent while it is pending.                                 *)
RepeatingFault == {"slow", "crash", "funds", "disconnect", "expire", "redis"}

(* An event uses one nonce of the account, however its sending fails: a    *)
(* retry takes the nonce it had or none, also after a timeout that left    *)
(* open whether the node has the transaction.  Stated of a single fault.   *)
OneNonceEach ==
  \A s, t \in Transactions :
    s.payload = t.payload /\ s.payload \in Event /\ s.nonce # t.nonce =>
      faults \cap RepeatingFault # {} \/ Cardinality(faults) > 1

Filling(n) ==
  \/ \E task \in EventTasks : task.retry /\ task.nonce = n
  \/ \E task \in ReceiptTasks : task.tx.nonce = n
  \/ \E h \in Handler : handler[h].tx # NoTx /\ handler[h].tx.nonce = n

(* A nonce the sender has moved past never blocks the account: it is on    *)
(* the chain, pending, or some task still answers for it.  No single fault *)
(* leaves it to nobody, unless a task is lost.                             *)
NoncesFilled ==
  cachedNonce # NoNonce =>
    \A n \in Count..(cachedNonce - 1) :
      pool[n] # NoTx \/ Filling(n) \/ forgotten # {} \/ Cardinality(faults) > 1

(* The nonce lock protects the read and the write of updateNonce: only     *)
(* when it expires under its holder can the cached nonce go back.          *)
CacheNeverRewinds ==
  [][cachedNonce # NoNonce => cachedNonce' >= cachedNonce \/ "expire" \in faults]_vars

(* Every event gets its effect on the chain, with any single fault: what   *)
(* was dropped is sent again, what hangs is ended, what waits is received. *)
EventsExecuted == \A e \in Event : <>(e \in executed \cup forgotten)

(* What a comment in run says: if the current nonce is not above the one   *)
(* of a retried task, "we need to fill this nonce".                        *)
RetriedNonceFilled ==
  \A n \in Nonce :
    (\E task \in BagToSet(sendQueue) : task.retry /\ task.nonce = n) ~> Count > n
=============================================================================

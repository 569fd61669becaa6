------------------------ MODULE CallbackQueue_proofs ------------------------
(* Proofs about CallbackQueue, for any number of producers and callbacks.    *)
EXTENDS CallbackQueue, SequenceTheorems, TLAPS

\* The mutex is held exactly while a producer is between its two writes.
MutexInv == \A p \in Producer : at[p] = "pushed" <=> mutex = p

\* A batch is only there while it is being run, so that Take overwrites nothing.
BatchInv == batch # <<>> <=> consumer = "run"

QueueInv == TypeOK /\ MutexInv /\ BatchInv

-----------------------------------------------------------------------------
(* Types, the mutex and the batch.                                           *)

LEMMA InitQueueInv == Init => QueueInv
  <1> SUFFICES ASSUME Init PROVE QueueInv
    OBVIOUS
  <1>1. TypeOK
    <2>1. <<>> \in Seq(Callback)
      OBVIOUS
    <2>2. /\ queue \in Seq(Callback) /\ batch \in Seq(Callback)
          /\ posted \in Seq(Callback) /\ ran \in Seq(Callback)
      BY <2>1 DEF Init
    <2>3. /\ at \in [Producer -> {"idle", "pushed", "signal"}]
          /\ count \in [Producer -> Nat]
      BY DEF Init
    <2>4. QED
      BY <2>2, <2>3 DEF Init, TypeOK
  <1>2. MutexInv
    BY ProducerAssumption DEF Init, MutexInv
  <1>3. BatchInv
    BY DEF Init, BatchInv
  <1>4. QED
    BY <1>1, <1>2, <1>3 DEF QueueInv

LEMMA PushQueueInv ==
  ASSUME QueueInv, NEW p \in Producer, Push(p)
  PROVE  QueueInv'
  <1>1. <<p, count[p] + 1>> \in Callback
    BY DEF QueueInv, TypeOK, Callback
  <1>2. Append(queue, <<p, count[p] + 1>>) \in Seq(Callback)
        /\ Append(posted, <<p, count[p] + 1>>) \in Seq(Callback)
    BY <1>1 DEF QueueInv, TypeOK
  <1>3. TypeOK'
    BY <1>2 DEF QueueInv, TypeOK, Push
  <1>4. MutexInv'
    BY ProducerAssumption DEF QueueInv, TypeOK, MutexInv, Push
  <1>5. BatchInv'
    BY DEF QueueInv, BatchInv, Push
  <1>6. QED
    BY <1>3, <1>4, <1>5 DEF QueueInv

LEMMA SetDirtyQueueInv ==
  ASSUME QueueInv, NEW p \in Producer, SetDirty(p)
  PROVE  QueueInv'
  <1>1. TypeOK'
    BY DEF QueueInv, TypeOK, SetDirty
  <1>2. MutexInv'
    BY ProducerAssumption DEF QueueInv, TypeOK, MutexInv, SetDirty
  <1>3. BatchInv'
    BY DEF QueueInv, BatchInv, SetDirty
  <1>4. QED
    BY <1>1, <1>2, <1>3 DEF QueueInv

LEMMA SignalQueueInv ==
  ASSUME QueueInv, NEW p \in Producer, Signal(p)
  PROVE  QueueInv'
  <1>1. TypeOK'
    BY DEF QueueInv, TypeOK, Signal
  <1>2. MutexInv'
    BY DEF QueueInv, TypeOK, MutexInv, Signal
  <1>3. BatchInv'
    BY DEF QueueInv, BatchInv, Signal
  <1>4. QED
    BY <1>1, <1>2, <1>3 DEF QueueInv

LEMMA TakeQueueInv ==
  ASSUME QueueInv, Take
  PROVE  QueueInv'
  <1>1. TypeOK'
    BY DEF QueueInv, TypeOK, Take
  <1>2. MutexInv'
    BY DEF QueueInv, MutexInv, Take
  <1>3. BatchInv'
    BY DEF QueueInv, BatchInv, Take
  <1>4. QED
    BY <1>1, <1>2, <1>3 DEF QueueInv

LEMMA RunQueueInv ==
  ASSUME QueueInv, Run
  PROVE  QueueInv'
  <1>1. batch # <<>> /\ batch \in Seq(Callback)
    BY DEF QueueInv, BatchInv, TypeOK, Run
  <1>2. Head(batch) \in Callback /\ Tail(batch) \in Seq(Callback)
    BY <1>1, HeadTailProperties
  <1>3. TypeOK'
    BY <1>2 DEF QueueInv, TypeOK, Run
  <1>4. MutexInv'
    BY DEF QueueInv, MutexInv, Run
  <1>5. BatchInv'
    BY DEF QueueInv, BatchInv, Run
  <1>6. QED
    BY <1>3, <1>4, <1>5 DEF QueueInv

\* The steps that leave the queue, the mutex and the batch alone.
LEMMA QuietQueueInv ==
  ASSUME QueueInv, Stop \/ Heartbeat \/ Loop \/ Wake \/ Claim \/ UNCHANGED vars
  PROVE  QueueInv'
  <1>1. TypeOK'
    BY DEF QueueInv, TypeOK, Stop, Heartbeat, Loop, Wake, Claim, vars
  <1>2. MutexInv'
    BY DEF QueueInv, MutexInv, Stop, Heartbeat, Loop, Wake, Claim, vars
  <1>3. BatchInv'
    BY DEF QueueInv, BatchInv, Stop, Heartbeat, Loop, Wake, Claim, vars
  <1>4. QED
    BY <1>1, <1>2, <1>3 DEF QueueInv

LEMMA NextQueueInv ==
  ASSUME QueueInv, [Next]_vars
  PROVE  QueueInv'
  <1>1. ASSUME NEW p \in Producer, ProducerStep(p) PROVE QueueInv'
    BY <1>1, PushQueueInv, SetDirtyQueueInv, SignalQueueInv DEF ProducerStep
  <1>2. CASE Stop \/ Heartbeat \/ UNCHANGED vars
    BY <1>2, QuietQueueInv
  <1>3. CASE ConsumerStep
    BY <1>3, QuietQueueInv, TakeQueueInv, RunQueueInv DEF ConsumerStep
  <1>4. QED
    BY <1>1, <1>2, <1>3 DEF Next

\* Every variable keeps its type.
THEOREM TypeCorrect == Spec => []TypeOK
  <1>1. QueueInv /\ [Next]_vars => QueueInv'
    BY NextQueueInv
  <1>2. QueueInv => TypeOK
    BY DEF QueueInv
  <1>3. QED
    BY <1>1, <1>2, InitQueueInv, PTL DEF Spec

-----------------------------------------------------------------------------
(* Callbacks are run once each, in the order they were posted.               *)

LEMMA RunInOrderPush ==
  ASSUME QueueInv, RunInOrder, NEW p \in Producer, Push(p)
  PROVE  RunInOrder'
  <1> DEFINE x == <<p, count[p] + 1>>
  <1>1. x \in Callback
    BY DEF QueueInv, TypeOK, Callback
  <1>2. ran \in Seq(Callback) /\ batch \in Seq(Callback) /\ queue \in Seq(Callback)
    BY DEF QueueInv, TypeOK
  <1>3. ran \o batch \in Seq(Callback) /\ <<x>> \in Seq(Callback)
    BY <1>1, <1>2, ConcatProperties
  <1>4. Append(queue, x) = queue \o <<x>>
    BY <1>1, <1>2, AppendIsConcat
  <1>5. (ran \o batch) \o (queue \o <<x>>) = ((ran \o batch) \o queue) \o <<x>>
    BY <1>2, <1>3, ConcatAssociative
  <1>6. posted \in Seq(Callback) /\ Append(posted, x) = posted \o <<x>>
    BY <1>1, AppendIsConcat DEF QueueInv, TypeOK
  <1>7. QED
    BY <1>4, <1>5, <1>6 DEF RunInOrder, Push

LEMMA RunInOrderTake ==
  ASSUME QueueInv, RunInOrder, Take
  PROVE  RunInOrder'
  <1>1. batch = <<>>
    BY DEF QueueInv, BatchInv, Take
  <1>2. ran \in Seq(Callback) /\ queue \in Seq(Callback) /\ ran \o queue \in Seq(Callback)
    BY ConcatProperties DEF QueueInv, TypeOK
  <1>3. ran \o batch = ran /\ (ran \o queue) \o <<>> = ran \o queue
    BY <1>1, <1>2, ConcatEmptySeq
  <1>4. QED
    BY <1>3 DEF RunInOrder, Take

LEMMA RunInOrderRun ==
  ASSUME QueueInv, RunInOrder, Run
  PROVE  RunInOrder'
  <1>1. batch # <<>> /\ batch \in Seq(Callback) /\ ran \in Seq(Callback)
    BY DEF QueueInv, BatchInv, TypeOK, Run
  <1>2. Head(batch) \in Callback /\ Tail(batch) \in Seq(Callback)
    BY <1>1, HeadTailProperties
  <1>3. Append(ran, Head(batch)) = ran \o <<Head(batch)>>
    BY <1>1, <1>2, AppendIsConcat
  <1>4. batch = <<Head(batch)>> \o Tail(batch)
    BY <1>1, <1>2
  <1>5. (ran \o <<Head(batch)>>) \o Tail(batch) = ran \o (<<Head(batch)>> \o Tail(batch))
    <2>1. <<Head(batch)>> \in Seq(Callback)
      BY <1>2
    <2>2. QED
      BY <1>1, <1>2, <2>1, ConcatAssociative
  <1>6. QED
    BY <1>3, <1>4, <1>5 DEF RunInOrder, Run

LEMMA RunInOrderNext ==
  ASSUME QueueInv, RunInOrder, [Next]_vars
  PROVE  RunInOrder'
  <1>1. ASSUME NEW p \in Producer, Push(p) PROVE RunInOrder'
    BY <1>1, RunInOrderPush
  <1>2. CASE Take
    BY <1>2, RunInOrderTake
  <1>3. CASE Run
    BY <1>3, RunInOrderRun
  <1>4. CASE UNCHANGED <<posted, ran, batch, queue>>
    BY <1>4 DEF RunInOrder
  <1>5. QED
    BY <1>1, <1>2, <1>3, <1>4
    DEF Next, ProducerStep, ConsumerStep, SetDirty, Signal, Stop, Heartbeat, Loop, Wake,
        Claim, vars

\* No callback is lost, repeated or overtaken between threads.
THEOREM RunInOrderCorrect == Spec => []RunInOrder
  <1>1. Init => RunInOrder
    BY ConcatEmptySeq DEF Init, RunInOrder
  <1>2. QueueInv /\ RunInOrder /\ [Next]_vars => QueueInv' /\ RunInOrder'
    BY NextQueueInv, RunInOrderNext
  <1>3. QED
    BY <1>1, <1>2, InitQueueInv, PTL DEF Spec

-----------------------------------------------------------------------------
(* No wakeup is lost: the flag is cleared before the queue is taken, and the  *)
(* queue is taken whole, so nothing that is in it needs the cleared flag.     *)

LEMMA NoLostWakeupProducer ==
  ASSUME QueueInv, NoLostWakeup, NEW p \in Producer, ProducerStep(p)
  PROVE  NoLostWakeup'
  <1>1. CASE Push(p)
    BY <1>1 DEF QueueInv, TypeOK, Push, NoLostWakeup
  <1>2. CASE SetDirty(p)
    BY <1>2 DEF QueueInv, TypeOK, SetDirty, NoLostWakeup
  <1>3. CASE Signal(p)
    <2>1. event' = TRUE /\ UNCHANGED <<queue, dirty, consumer>>
      BY <1>3 DEF Signal
    <2>2. \A q \in Producer : at[q] = "pushed" => at'[q] = "pushed"
      BY <1>3 DEF Signal, QueueInv, TypeOK
    <2>3. QED
      BY <2>1, <2>2 DEF NoLostWakeup
  <1>4. QED
    BY <1>1, <1>2, <1>3 DEF ProducerStep

LEMMA NoLostWakeupConsumer ==
  ASSUME QueueInv, NoLostWakeup, ConsumerStep
  PROVE  NoLostWakeup'
  <1>1. CASE Loop
    BY <1>1 DEF Loop, NoLostWakeup
  <1>2. CASE Wake
    BY <1>2 DEF Wake, NoLostWakeup
  <1>3. CASE Claim
    BY <1>3 DEF Claim, NoLostWakeup
  <1>4. CASE Take
    BY <1>4 DEF Take, NoLostWakeup
  <1>5. CASE Run
    BY <1>5 DEF Run, NoLostWakeup
  <1>6. QED
    BY <1>1, <1>2, <1>3, <1>4, <1>5 DEF ConsumerStep

LEMMA NoLostWakeupNext ==
  ASSUME QueueInv, NoLostWakeup, [Next]_vars
  PROVE  NoLostWakeup'
  <1>1. CASE Stop
    BY <1>1 DEF Stop, NoLostWakeup
  <1>2. CASE Heartbeat
    BY <1>2 DEF Heartbeat, NoLostWakeup
  <1>3. CASE UNCHANGED vars
    BY <1>3 DEF vars, NoLostWakeup
  <1>4. QED
    BY <1>1, <1>2, <1>3, NoLostWakeupProducer, NoLostWakeupConsumer DEF Next

\* A callback in the queue is always about to be noticed.
THEOREM NoLostWakeupCorrect == Spec => []NoLostWakeup
  <1>1. Init => NoLostWakeup
    BY DEF Init, NoLostWakeup
  <1>2. QueueInv /\ NoLostWakeup /\ [Next]_vars => QueueInv' /\ NoLostWakeup'
    BY NextQueueInv, NoLostWakeupNext
  <1>3. QED
    BY <1>1, <1>2, InitQueueInv, PTL DEF Spec
=============================================================================

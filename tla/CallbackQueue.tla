---------------------------- MODULE CallbackQueue ----------------------------
(***************************************************************************)
(* How one thread hands work to another: PostToPipeThread, PostToMainThread *)
(* and ProcessQueuedCallbacks of the named pipe endpoints, with the event   *)
(* (m_interruptEvent) or the flag and condition variable (m_hasMessages) of *)
(* the loop that consumes the queue.  The dirty flag is tested outside the  *)
(* mutex that protects the queue, and the event is set after the mutex has  *)
(* been released.                                                          *)
(***************************************************************************)
EXTENDS Naturals, Sequences

CONSTANTS
    Producer,   \* the threads that post, other than the consumer
    NoOne,      \* the holder of a free mutex
    MaxPost     \* bound: callbacks each producer posts

ASSUME ProducerAssumption == NoOne \notin Producer /\ MaxPost \in Nat

Callback == Producer \X Nat

VARIABLES
    queue,      \* m_threadQueue (m_mainQueue)
    dirty,      \* m_threadQueueDirty (m_mainQueueDirty)
    mutex,      \* who holds m_threadQueueMutex (m_mainQueueMutex)
    event,      \* m_interruptEvent is set (m_hasMessages)
    running,    \* m_running
    at,         \* at[p]: where producer p is
    consumer,   \* where the consumer is
    batch,      \* temp, the callbacks taken and not yet run
    posted,     \* history: the callbacks in the order they entered the queue
    ran,        \* history: the callbacks in the order they ran
    count       \* count[p]: callbacks posted by p, for MaxPost

vars == <<queue, dirty, mutex, event, running, at, consumer, batch, posted, ran, count>>

Init ==
    /\ queue = <<>> /\ batch = <<>> /\ posted = <<>> /\ ran = <<>>
    /\ dirty = FALSE /\ event = FALSE
    /\ mutex = NoOne
    /\ running = TRUE
    /\ at = [p \in Producer |-> "idle"]
    /\ consumer = "loop"
    /\ count = [p \in Producer |-> 0]

\* Mutated form of Push: the poster is read from the mutex before it is taken.
PushStale(p) ==
    /\ at[p] = "idle" /\ mutex = NoOne /\ count[p] < MaxPost
    /\ mutex' = p
    /\ queue' = Append(queue, <<mutex, count[p] + 1>>)
    /\ posted' = Append(posted, <<mutex, count[p] + 1>>)
    /\ count' = [count EXCEPT ![p] = @ + 1]
    /\ at' = [at EXCEPT ![p] = "pushed"]
    /\ UNCHANGED <<dirty, event, running, consumer, batch, ran>>

\* Under the mutex: the callback first, then the flag.
Push(p) ==
    /\ at[p] = "idle" /\ mutex = NoOne /\ count[p] < MaxPost
    /\ mutex' = p
    /\ queue' = Append(queue, <<p, count[p] + 1>>)
    /\ posted' = Append(posted, <<p, count[p] + 1>>)
    /\ count' = [count EXCEPT ![p] = @ + 1]
    /\ at' = [at EXCEPT ![p] = "pushed"]
    /\ UNCHANGED <<dirty, event, running, consumer, batch, ran>>

SetDirty(p) ==
    /\ at[p] = "pushed"
    /\ dirty' = TRUE
    /\ mutex' = NoOne
    /\ at' = [at EXCEPT ![p] = "signal"]
    /\ UNCHANGED <<queue, event, running, consumer, batch, posted, ran, count>>

\* Mutated form of Signal: only a consumer that waits is woken.
SignalWaiting(p) ==
    /\ at[p] = "signal"
    /\ event' = (event \/ consumer = "wait")
    /\ at' = [at EXCEPT ![p] = "idle"]
    /\ UNCHANGED <<queue, dirty, mutex, running, consumer, batch, posted, ran, count>>

\* m_interruptEvent.SetEvent, RequestProcessEvents
Signal(p) ==
    /\ at[p] = "signal"
    /\ event' = TRUE
    /\ at' = [at EXCEPT ![p] = "idle"]
    /\ UNCHANGED <<queue, dirty, mutex, running, consumer, batch, posted, ran, count>>

Stop ==
    /\ running
    /\ running' = FALSE
    /\ event' = TRUE
    /\ UNCHANGED <<queue, dirty, mutex, at, consumer, batch, posted, ran, count>>

\* The loop condition, IsRunning.
Loop ==
    /\ consumer = "loop"
    /\ consumer' = IF running THEN "wait" ELSE "ended"
    /\ UNCHANGED <<queue, dirty, mutex, event, running, at, batch, posted, ran, count>>

\* The wait is over: the event is reset before the queue is looked at.
Wake ==
    /\ consumer = "wait" /\ event
    /\ consumer' = "check"
    /\ event' = FALSE
    /\ UNCHANGED <<queue, dirty, mutex, running, at, batch, posted, ran, count>>

\* The launcher's loop also wakes on its heartbeat.
Heartbeat ==
    /\ consumer = "wait"
    /\ consumer' = "check"
    /\ UNCHANGED <<queue, dirty, mutex, event, running, at, batch, posted, ran, count>>

\* dirty.compare_exchange_weak(expected, false), without the mutex.
Claim ==
    /\ consumer = "check"
    /\ dirty' = FALSE
    /\ consumer' = IF dirty THEN "swap" ELSE "loop"
    /\ UNCHANGED <<queue, mutex, event, running, at, batch, posted, ran, count>>

\* Mutated form of Take: the queue is copied instead of swapped.
TakeCopy ==
    /\ consumer = "swap" /\ mutex = NoOne
    /\ batch' = queue
    /\ consumer' = IF queue = <<>> THEN "loop" ELSE "run"
    /\ UNCHANGED <<queue, dirty, mutex, event, running, at, posted, ran, count>>

\* Under the mutex: everything that has been posted.
Take ==
    /\ consumer = "swap" /\ mutex = NoOne
    /\ batch' = queue
    /\ queue' = <<>>
    /\ consumer' = IF queue = <<>> THEN "loop" ELSE "run"
    /\ UNCHANGED <<dirty, mutex, event, running, at, posted, ran, count>>

\* Mutated form of Run: the flag is cleared when the batch is done.
RunThenClear ==
    /\ consumer = "run"
    /\ ran' = Append(ran, Head(batch))
    /\ batch' = Tail(batch)
    /\ consumer' = IF Tail(batch) = <<>> THEN "loop" ELSE "run"
    /\ dirty' = (dirty /\ Tail(batch) # <<>>)
    /\ UNCHANGED <<queue, mutex, event, running, at, posted, count>>

\* The callbacks run without the mutex.
Run ==
    /\ consumer = "run"
    /\ ran' = Append(ran, Head(batch))
    /\ batch' = Tail(batch)
    /\ consumer' = IF Tail(batch) = <<>> THEN "loop" ELSE "run"
    /\ UNCHANGED <<queue, dirty, mutex, event, running, at, posted, count>>

ProducerStep(p) == Push(p) \/ SetDirty(p) \/ Signal(p)
ConsumerStep == Loop \/ Wake \/ Claim \/ Take \/ Run

Next == (\E p \in Producer : ProducerStep(p)) \/ Stop \/ Heartbeat \/ ConsumerStep

Spec == Init /\ [][Next]_vars

\* The threads are scheduled; nothing is assumed of the heartbeat.
FairSpec ==
    /\ Spec
    /\ WF_vars(ConsumerStep)
    /\ \A p \in Producer : WF_vars(SetDirty(p) \/ Signal(p))

-----------------------------------------------------------------------------
\* The types of the variables.
TypeOK ==
    /\ queue \in Seq(Callback) /\ batch \in Seq(Callback)
    /\ posted \in Seq(Callback) /\ ran \in Seq(Callback)
    /\ dirty \in BOOLEAN /\ event \in BOOLEAN /\ running \in BOOLEAN
    /\ mutex \in Producer \cup {NoOne}
    /\ at \in [Producer -> {"idle", "pushed", "signal"}]
    /\ consumer \in {"loop", "wait", "check", "swap", "run", "ended"}
    /\ count \in [Producer -> Nat]

\* Every callback that enters the queue is run once, in the order of entering
\* it, however posts and processing overlap (ProcessQueuedCallbacks swaps).
RunInOrder == posted = ran \o batch \o queue

\* A callback in the queue will be noticed: its producer has still to set the
\* flag or the event, or the consumer is about to look (PostToPipeThread signals
\* after the flag, ProcessQueuedCallbacks clears the flag before it takes).
NoLostWakeup ==
    queue # <<>> =>
        \/ \E p \in Producer : at[p] = "pushed"
        \/ dirty /\ (event \/ consumer = "check" \/ \E p \in Producer : at[p] = "signal")
        \/ consumer = "swap"

Has(s, x) == \E i \in DOMAIN s : s[i] = x

\* A callback that has been posted is run without any help from the heartbeat,
\* unless the endpoint is stopped (PostToPipeThread, ProcessQueuedCallbacks).
PostedRuns ==
    \A p \in Producer : \A n \in 1 .. MaxPost :
        Has(posted, <<p, n>>) ~> Has(ran, <<p, n>>) \/ ~ running
=============================================================================

------------------------ MODULE StreamBatchListener ------------------------
(***************************************************************************)
(* RedisStreamMessageListener: the reader enqueues records under batchLock *)
(* and waits while the queue is full, a timer or a full batch hands them   *)
(* to a drain on a virtual thread, and the drain processes a batch without *)
(* the lock, acknowledges what succeeded and keeps the failed suffix for a *)
(* retry. Failed acknowledgements are retried by another timer. Anybody    *)
(* may close the listener, the drain's own terminal event included.        *)
(*                                                                         *)
(* An action is one critical section, or one step outside of the lock.     *)
(***************************************************************************)
EXTENDS Integers, Sequences

CONSTANTS
    M,              \* records Redis delivers to this consumer, in this order
    MaxBatchSize, BatchQueueCapacity, AckRetryLimit,
    MaxFailures,    \* bound on batches that fail
    MaxAckFailures  \* bound on acknowledgements that fail

ASSUME SizesAssumption ==
    /\ M \in Nat /\ MaxBatchSize \in Nat \ {0} /\ BatchQueueCapacity \in Nat \ {0}
    /\ AckRetryLimit \in Nat /\ MaxFailures \in Nat /\ MaxAckFailures \in Nat

Records == 1..M
Drains == 1..2      \* slots for drain threads: one more than there should be

VARIABLES
    read,       \* records the reader has been given
    waiting,    \* is it parked on queueSpace with the last of them, or just signalled?
    pending,    \* pendingBatch
    retry,      \* retryBatch; << >> when null
    timers,     \* generations of the timer callbacks that may still run
    scheduled,  \* scheduledBatch # null
    generation, \* scheduleGeneration
    draining, closed,
    drain,      \* drain threads: pc, the batch, how many of it succeeded, next to acknowledge
    ackTimers,  \* attempts made for each record whose acknowledgement is retried
    acked, registry,    \* acknowledged records, StreamAckFailureRegistry
    processed,  \* records processed successfully, in that order (observed only)
    failures, ackFailures   \* faults that may still happen

reader == <<read, waiting>>
queue == <<pending, retry>>
timer == <<timers, scheduled, generation>>
acks == <<ackTimers, acked, registry>>
budget == <<failures, ackFailures>>
vars == <<reader, queue, timer, draining, closed, drain, acks, processed, budget>>

Off == [pc |-> "off", batch |-> << >>, good |-> 0, next |-> 1]
NoTimer == 0

Init ==
    /\ read = 0 /\ waiting = "no"
    /\ pending = << >> /\ retry = << >>
    /\ timers = {} /\ scheduled = FALSE /\ generation = 0
    /\ draining = FALSE /\ closed = FALSE
    /\ drain = [d \in Drains |-> Off]
    /\ ackTimers = [r \in Records |-> NoTimer] /\ acked = {} /\ registry = {}
    /\ processed = << >>
    /\ failures = MaxFailures /\ ackFailures = MaxAckFailures

-----------------------------------------------------------------------------
(* scheduleDrain, with batchLock held, on the queue q, retry batch s and   *)
(* drain threads D that its caller leaves.                                 *)

Start(D) == \E d \in Drains : D[d].pc = "off" /\ drain' = [D EXCEPT ![d].pc = "take"]

\* ScheduledFuture.cancel(false) does not stop a callback that runs already.
CancelTimer == timers' = timers \ {generation} \/ (scheduled /\ timers' = timers)

ScheduleDrain(q, s, busy, D) ==
    IF busy \/ (s = << >> /\ q = << >>)
    THEN draining' = busy /\ drain' = D /\ UNCHANGED timer
    ELSE IF s = << >> /\ Len(q) >= MaxBatchSize
    THEN /\ CancelTimer
         /\ scheduled' = FALSE /\ generation' = generation + 1
         /\ draining' = TRUE /\ Start(D)
    ELSE /\ draining' = FALSE /\ drain' = D
         /\ IF scheduled THEN UNCHANGED timer
            ELSE /\ generation' = generation + 1 /\ scheduled' = TRUE
                 /\ timers' = timers \union {generation + 1}

-----------------------------------------------------------------------------
\* Mutant: a record that finds the queue full is not waited with.
OnMessageUnlessFull ==
    /\ read < M /\ waiting = "no"
    /\ read' = read + 1
    /\ IF closed \/ Len(pending) >= BatchQueueCapacity
       THEN UNCHANGED <<queue, timer, draining, drain>>
       ELSE /\ pending' = Append(pending, read + 1)
            /\ ScheduleDrain(pending', retry, draining, drain)
            /\ UNCHANGED retry
    /\ UNCHANGED <<waiting, closed, acks, processed, budget>>

\* onMessage up to the end of enqueue, or up to its wait.
OnMessage ==
    /\ read < M /\ waiting = "no"
    /\ read' = read + 1
    /\ IF closed
       THEN UNCHANGED <<waiting, queue, timer, draining, drain>>
       ELSE IF Len(pending) >= BatchQueueCapacity
       THEN waiting' = "parked" /\ UNCHANGED <<queue, timer, draining, drain>>
       ELSE /\ pending' = Append(pending, read + 1)
            /\ ScheduleDrain(pending', retry, draining, drain)
            /\ UNCHANGED <<waiting, retry>>
    /\ UNCHANGED <<closed, acks, processed, budget>>

\* Mutant: nobody is signalled.
NoSignal == UNCHANGED waiting

\* queueSpace.signalAll
Signal == waiting' = IF waiting = "parked" THEN "signalled" ELSE waiting

\* The reader wakes, and waits again while the queue is full.
EnqueueAfterWait ==
    /\ waiting = "signalled"
    /\ IF closed
       THEN waiting' = "no" /\ UNCHANGED <<queue, timer, draining, drain>>
       ELSE IF Len(pending) >= BatchQueueCapacity
       THEN waiting' = "parked" /\ UNCHANGED <<queue, timer, draining, drain>>
       ELSE /\ waiting' = "no"
            /\ pending' = Append(pending, read)
            /\ ScheduleDrain(pending', retry, draining, drain)
            /\ UNCHANGED retry
    /\ UNCHANGED <<read, closed, acks, processed, budget>>

\* Mutant: a callback does not look whether it has been superseded.
AnyTimerFires ==
    \E g \in timers :
        /\ timers' = timers \ {g}
        /\ IF closed
           THEN UNCHANGED <<scheduled, draining, drain>>
           ELSE scheduled' = FALSE /\ draining' = TRUE /\ Start(drain)
        /\ UNCHANGED <<reader, queue, generation, closed, acks, processed, budget>>

\* The timer callback: a superseded one does nothing.
TimerFires ==
    \E g \in timers :
        /\ timers' = timers \ {g}
        /\ IF closed \/ g # generation
           THEN UNCHANGED <<scheduled, draining, drain>>
           ELSE scheduled' = FALSE /\ draining' = TRUE /\ Start(drain)
        /\ UNCHANGED <<reader, queue, generation, closed, acks, processed, budget>>

\* Mutant: a full batch goes before the failed suffix of the last one.
TakeFullBatch(d) ==
    LET full == Len(pending) >= MaxBatchSize \/ retry = << >>
        k == IF Len(pending) < MaxBatchSize THEN Len(pending) ELSE MaxBatchSize
    IN
    /\ drain[d].pc = "take" /\ ~closed
    /\ retry' = IF full THEN retry ELSE << >>
    /\ pending' = IF full THEN SubSeq(pending, k + 1, Len(pending)) ELSE pending
    /\ drain' = [drain EXCEPT ![d] = [pc |-> "process", good |-> 0, next |-> 1,
                                      batch |-> IF full THEN SubSeq(pending, 1, k) ELSE retry]]
    /\ Signal
    /\ UNCHANGED <<read, timer, draining, closed, acks, processed, budget>>

\* drain, first critical section: the retry batch, else up to MAX_BATCH_SIZE records.
TakeBatch(d) ==
    /\ drain[d].pc = "take"
    /\ IF closed
       THEN /\ draining' = FALSE /\ drain' = [drain EXCEPT ![d] = Off]
            /\ UNCHANGED <<queue, waiting>>
       ELSE LET k == IF Len(pending) < MaxBatchSize THEN Len(pending) ELSE MaxBatchSize
                batch == IF retry # << >> THEN retry ELSE SubSeq(pending, 1, k)
            IN /\ retry' = << >>
               /\ pending' = IF retry # << >> THEN pending ELSE SubSeq(pending, k + 1, Len(pending))
               /\ drain' = [drain EXCEPT ![d] = [pc |-> "process", batch |-> batch,
                                                 good |-> 0, next |-> 1]]
               /\ Signal
               /\ UNCHANGED draining
    /\ UNCHANGED <<read, timer, closed, acks, processed, budget>>

\* StreamRecordProcessor.processBatch, without the lock: a prefix succeeds.
ProcessBatch(d) ==
    /\ drain[d].pc = "process"
    /\ \E k \in 0..Len(drain[d].batch) :
          /\ IF k < Len(drain[d].batch) THEN failures > 0 /\ failures' = failures - 1
                                        ELSE UNCHANGED failures
          /\ processed' = processed \o SubSeq(drain[d].batch, 1, k)
          /\ drain' = [drain EXCEPT ![d].pc = "ack", ![d].good = k]
    /\ UNCHANGED <<reader, queue, timer, draining, closed, acks, ackFailures>>

\* Mutant: one attempt more than the limit.
RetryAckOnceMore(r, a) ==
    IF closed \/ a > AckRetryLimit + 1
    THEN /\ registry' = registry \union {r}
         /\ ackTimers' = [ackTimers EXCEPT ![r] = NoTimer]
    ELSE ackTimers' = [ackTimers EXCEPT ![r] = a] /\ UNCHANGED registry

\* scheduleAckRetry of a record's attempt a, counted from one.
RetryAck(r, a) ==
    IF closed \/ a > AckRetryLimit
    THEN /\ registry' = registry \union {r}
         /\ ackTimers' = [ackTimers EXCEPT ![r] = NoTimer]
    ELSE ackTimers' = [ackTimers EXCEPT ![r] = a] /\ UNCHANGED registry

\* acknowledge, and what its caller does when it fails.
Acknowledge(r, a) ==
    \/ /\ acked' = acked \union {r} /\ registry' = registry \ {r}
       /\ ackTimers' = [ackTimers EXCEPT ![r] = NoTimer]
       /\ UNCHANGED ackFailures
    \/ /\ ackFailures > 0 /\ ackFailures' = ackFailures - 1
       /\ RetryAck(r, a) /\ UNCHANGED acked

\* handleResult of the batch's next successful record.
HandleResult(d) ==
    /\ drain[d].pc = "ack" /\ drain[d].next <= drain[d].good
    /\ Acknowledge(drain[d].batch[drain[d].next], 1)
    /\ drain' = [drain EXCEPT ![d].next = @ + 1]
    /\ UNCHANGED <<reader, queue, timer, draining, closed, processed, failures>>

\* drain, second critical section: keep the failed suffix, go on with a full
\* batch, or end.
SettleBatch(d) ==
    LET suffix == SubSeq(drain[d].batch, drain[d].good + 1, Len(drain[d].batch))
        ended == [drain EXCEPT ![d] = Off]
    IN
    /\ drain[d].pc = "ack" /\ drain[d].next > drain[d].good
    /\ retry' = IF closed \/ suffix = << >> THEN retry ELSE suffix
    /\ IF closed
       THEN draining' = FALSE /\ drain' = ended /\ UNCHANGED timer
       ELSE IF retry' # << >> \/ Len(pending) < MaxBatchSize
       THEN ScheduleDrain(pending, retry', FALSE, ended)
       ELSE drain' = [drain EXCEPT ![d].pc = "take"] /\ UNCHANGED <<draining, timer>>
    /\ UNCHANGED <<reader, pending, closed, acks, processed, budget>>

\* Mutant: a closed listener lets the acknowledgement go.
AckTimerForgets(r) ==
    /\ ackTimers[r] # NoTimer
    /\ IF closed
       THEN ackTimers' = [ackTimers EXCEPT ![r] = NoTimer] /\ UNCHANGED <<acked, registry, ackFailures>>
       ELSE Acknowledge(r, ackTimers[r] + 1)
    /\ UNCHANGED <<reader, queue, timer, draining, closed, drain, processed, failures>>

\* The five-second timer of one acknowledgement.
AckTimerFires(r) ==
    /\ ackTimers[r] # NoTimer
    /\ IF closed
       THEN /\ registry' = registry \union {r}
            /\ ackTimers' = [ackTimers EXCEPT ![r] = NoTimer]
            /\ UNCHANGED <<acked, ackFailures>>
       ELSE Acknowledge(r, ackTimers[r] + 1)
    /\ UNCHANGED <<reader, queue, timer, draining, closed, drain, processed, failures>>

Close ==
    /\ ~closed /\ closed' = TRUE
    /\ generation' = generation + 1
    /\ CancelTimer /\ scheduled' = FALSE
    /\ pending' = << >> /\ retry' = << >>
    /\ Signal
    /\ UNCHANGED <<read, draining, drain, acks, processed, budget>>

DrainStep(d) == TakeBatch(d) \/ ProcessBatch(d) \/ HandleResult(d) \/ SettleBatch(d)

Next ==
    \/ OnMessage \/ EnqueueAfterWait \/ TimerFires \/ Close
    \/ \E d \in Drains : DrainStep(d)
    \/ \E r \in Records : AckTimerFires(r)

Spec == Init /\ [][Next]_vars

\* Timers fire and threads run; nothing obliges Redis to deliver or anybody to close.
Fairness ==
    /\ WF_vars(EnqueueAfterWait) /\ WF_vars(TimerFires)
    /\ \A d \in Drains : WF_vars(DrainStep(d))
    /\ \A r \in Records : WF_vars(AckTimerFires(r))

FairSpec == Spec /\ Fairness

-----------------------------------------------------------------------------
(* Properties.                                                             *)

Working(d) == drain[d].pc # "off"
Batched == UNION {{drain[d].batch[k] : k \in drain[d].good + 1..Len(drain[d].batch)} : d \in Drains}
Elements(s) == {s[k] : k \in 1..Len(s)}

\* Type invariant of the listener.
TypeOK ==
    /\ read \in 0..M /\ waiting \in {"no", "parked", "signalled"}
    /\ Elements(pending) \subseteq Records /\ Elements(retry) \subseteq Records
    /\ generation \in Nat /\ timers \subseteq 0..generation
    /\ scheduled \in BOOLEAN /\ draining \in BOOLEAN /\ closed \in BOOLEAN
    /\ \A d \in Drains : drain[d].pc \in {"off", "take", "process", "ack"}
    /\ ackTimers \in [Records -> 0..AckRetryLimit]
    /\ acked \subseteq Records /\ registry \subseteq Records
    /\ Elements(processed) \subseteq Records

\* Whatever the timers, the full batches, the retries and the cancellations
\* that come too late do, one drain works at a time and draining says so.
OneDrain ==
    /\ \A d, e \in Drains : Working(d) /\ Working(e) => d = e
    /\ ~closed => (draining <=> \E d \in Drains : Working(d))

\* "Do not let a later terminal event finalize a conversation before this
\* checkpoint succeeds": records are processed in the order Redis delivered
\* them, none is skipped and none is processed twice.
ProcessedInOrder == processed = [k \in 1..Len(processed) |-> k]

\* An open listener has every record it was given: it is processed, in a batch,
\* in the retry batch, in the queue, or the reader is parked with it.
NothingDropped ==
    ~closed => 1..read = Elements(processed) \union Batched \union Elements(retry)
                         \union Elements(pending) \union (IF waiting # "no" THEN {read} ELSE {})

\* No wakeup is lost: what an open listener was given is processed, also when
\* batches fail and the reader waits on a full queue.
EventuallyProcessed ==
    \A r \in Records : (read >= r) ~> (r \in Elements(processed) \/ closed)

\* A processed record is acknowledged or handed to recovery, closed or not.
EventuallyAckedOrRegistered ==
    \A r \in Records : (r \in Elements(processed)) ~> (r \in acked \union registry)
=============================================================================

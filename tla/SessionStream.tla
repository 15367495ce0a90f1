--------------------------- MODULE SessionStream ---------------------------
(***************************************************************************)
(* One chat turn of one session, from the first record a worker appends to *)
(* the session's Redis Stream to the release of the turn's runtime state.  *)
(*                                                                         *)
(* The stream holds records 1..N; record N is the terminal event.  A       *)
(* backend instance that owns the listener lease reads records into a      *)
(* buffer, a drain thread processes them in order and acknowledges them,   *)
(* and the recovery service of any instance can take the turn over after a *)
(* crash or a graceful shutdown and claim what is still pending.           *)
(*                                                                         *)
(* Time appears only as what it lets happen: a key with a TTL lapses when  *)
(* nobody refreshes it, and outlives its holder's pause only by a "stall". *)
(***************************************************************************)
EXTENDS Integers

CONSTANTS
    Inst,           \* backend instances
    NoOne,          \* the owner of what nobody owns
    N,              \* records of the turn; record N is the terminal event
    ErrorEnds,      \* TRUE when the terminal event is an error, FALSE for appStreamResponse
    MaxCrashes, MaxHandoffs,    \* instances that crash, that shut down gracefully
    MaxStalls,                  \* pauses that outlast a TTL
    MaxRedisFaults,             \* failed ACKs, snapshot writes, marker reads and writes
    MaxPersistFaults,           \* failed message writes and failed observers
    MaxRenewFaults              \* lease renewals that throw

ASSUME InstAssumption == NoOne \notin Inst /\ Inst # {}
ASSUME NAssumption == N \in Nat \ {0}
ASSUME KindAssumption == ErrorEnds \in BOOLEAN
ASSUME BoundsAssumption ==
    /\ MaxCrashes \in Nat /\ MaxHandoffs \in Nat /\ MaxStalls \in Nat
    /\ MaxRedisFaults \in Nat /\ MaxPersistFaults \in Nat /\ MaxRenewFaults \in Nat

Records == 1..N
Threads == {"drain", "claim"}   \* the listener's drain, the recovery worker's claim

VARIABLES
    \* Redis
    produced,   \* records appended so far
    delivered,  \* last-delivered id of the consumer group
    pel,        \* pending entries: the consumer of each record, or NoOne
    lease,      \* holder of the session's listener lease
    runtime,    \* runtime state and running marker of the turn
    recoverer,  \* holder of the session's recovery lock
    snapshot,   \* running snapshot: watermark and accumulated records
    marker,     \* is the terminal record marked as persisted?
    \* database
    answer,     \* the answer message and the turn's persistence observers
    \* each instance
    mode,       \* process and ContextClosedEvent
    listener,   \* RedisStreamMessageListener of the session
    ctx,        \* ChatProcessContext and its message context
    buf,        \* pendingBatch and retryBatch
    work,       \* records a thread has taken and not processed
    toAck,      \* records a thread has processed and not acknowledged
    lock,       \* processing lock, its holder and how far it is
    behind,     \* is a snapshot waiting in the write-behind?
    ackRetry,   \* acknowledgements on the retry timer
    ackRegistry,\* StreamAckFailureRegistry
    claim,      \* what the claim thread is claiming
    cleanup,    \* terminal cleanup task
    rec,        \* recovery task
    \* bounds
    faults      \* faults that may still happen

redis == <<produced, delivered, pel, lease, runtime, recoverer, snapshot, marker>>
local == <<mode, listener, ctx, buf, work, toAck, lock, behind, ackRetry,
           ackRegistry, claim, cleanup, rec>>
vars == <<redis, answer, local, faults>>

-----------------------------------------------------------------------------
NoCtx == [held |-> FALSE, recovered |-> FALSE, wm |-> 0, cur |-> 0,
          body |-> {}, gate |-> FALSE]
Free == [pc |-> "free", by |-> "drain", rec |-> 0]
NoClaim == [ids |-> {}, paged |-> FALSE, whole |-> FALSE]
NoRec == [pc |-> "idle", graceful |-> FALSE]
NoTurn == [status |-> "none", owner |-> NoOne, fresh |-> FALSE]
NoSnapshot == [wm |-> 0, body |-> {}]
Nothing == [t \in Threads |-> {}]
Budget == [crash |-> MaxCrashes, handoff |-> MaxHandoffs, stall |-> MaxStalls,
           redis |-> MaxRedisFaults, persist |-> MaxPersistFaults,
           renew |-> MaxRenewFaults]

Paused(i) == listener[i] \in {"paused", "pausedNow"}   \* "Now" claims without an idle time
Active(i) == Paused(i) \/ listener[i] = "live"
\* Mutant: a batch is processed in any order.
AnyOf(S, r) == r \in S

Earliest(S, r) == r \in S /\ \A q \in S : r <= q
UpTo(S, r) == {q \in S : q <= r}
Pending == {r \in Records : pel[r] # NoOne}
Running(i) == [status |-> "running", owner |-> i, fresh |-> TRUE]

\* Mutant: the watermark names the next record instead of the last one.
SnapshotWithNextId(c) == [wm |-> c.wm + 1, body |-> c.body]

\* RunningChatSnapshotService.buildSnapshot: the watermark is the later of the
\* record being processed and the record last accumulated.
SnapshotOf(c) == [wm |-> IF c.cur > c.wm THEN c.cur ELSE c.wm, body |-> c.body]
\* ChatRuntimeStateService.buildRecoveryContext
Hydrated == [held |-> TRUE, recovered |-> TRUE, wm |-> snapshot.wm, cur |-> 0,
             body |-> snapshot.body, gate |-> FALSE]

Spend(kind) == faults[kind] > 0 /\ faults' = [faults EXCEPT ![kind] = @ - 1]

\* The turn has been registered and its sender owns a live listener.
Init ==
    /\ produced = 0 /\ delivered = 0
    /\ pel = [r \in Records |-> NoOne]
    /\ \E i \in Inst :
          /\ lease = i
          /\ runtime = Running(i)
          /\ listener = [j \in Inst |-> IF j = i THEN "live" ELSE "none"]
          /\ ctx = [j \in Inst |-> [NoCtx EXCEPT !.held = (j = i)]]
    /\ recoverer = NoOne /\ snapshot = NoSnapshot /\ marker = FALSE
    /\ answer = [saved |-> FALSE, body |-> {}, recovered |-> FALSE, notified |-> FALSE]
    /\ mode = [i \in Inst |-> "up"]
    /\ buf = [i \in Inst |-> {}]
    /\ work = [i \in Inst |-> Nothing] /\ toAck = [i \in Inst |-> Nothing]
    /\ lock = [i \in Inst |-> Free]
    /\ behind = [i \in Inst |-> FALSE]
    /\ ackRetry = [i \in Inst |-> {}] /\ ackRegistry = [i \in Inst |-> {}]
    /\ claim = [i \in Inst |-> NoClaim]
    /\ cleanup = [i \in Inst |-> "none"]
    /\ rec = [i \in Inst |-> NoRec]
    /\ faults = Budget

-----------------------------------------------------------------------------
(* Reading.                                                                *)

\* The worker appends the next record of its answer.
Produce ==
    /\ produced < N
    /\ produced' = produced + 1
    /\ UNCHANGED <<delivered, pel, lease, runtime, recoverer, snapshot, marker,
                   answer, local, faults>>

\* XREADGROUP of a registered, resumed listener, up to its enqueue.
Read(i) ==
    /\ mode[i] = "up" /\ listener[i] = "live" /\ delivered < produced
    /\ delivered' = delivered + 1
    /\ pel' = [pel EXCEPT ![delivered + 1] = i]
    /\ buf' = [buf EXCEPT ![i] = @ \union {delivered + 1}]
    /\ UNCHANGED <<produced, lease, runtime, recoverer, snapshot, marker, answer,
                   mode, listener, ctx, work, toAck, lock, behind, ackRetry,
                   ackRegistry, claim, cleanup, rec, faults>>

\* A read that was in flight when the listener was unregistered: Redis hands
\* the record to a consumer that drops it.
ReadLate(i) ==
    /\ mode[i] # "down" /\ listener[i] = "closed" /\ delivered < produced
    /\ Spend("stall")
    /\ delivered' = delivered + 1
    /\ pel' = [pel EXCEPT ![delivered + 1] = i]
    /\ UNCHANGED <<produced, lease, runtime, recoverer, snapshot, marker, answer, local>>

\* The drain takes a batch: the failed suffix of the last one, or the records
\* that arrived since.
StartDrain(i) ==
    /\ mode[i] = "up" /\ listener[i] = "live"
    /\ work[i]["drain"] = {} /\ toAck[i]["drain"] = {}
    /\ \E last \in buf[i] :
          /\ work' = [work EXCEPT ![i]["drain"] = UpTo(buf[i], last)]
          /\ buf' = [buf EXCEPT ![i] = @ \ UpTo(buf[i], last)]
    /\ UNCHANGED <<redis, answer, mode, listener, ctx, toAck, lock, behind, ackRetry,
                   ackRegistry, claim, cleanup, rec, faults>>

-----------------------------------------------------------------------------
(* Processing a record, under the instance's per-session processing lock.  *)

\* The router finds the context, rebuilding it for a running turn, and sets
\* its currentStreamId before it looks at the event.
Begin(i, t) ==
    /\ mode[i] # "down" /\ lock[i] = Free
    /\ t = "claim" => toAck[i][t] = {}      \* a claimed record is acknowledged at once
    /\ \E r \in work[i][t] :
          /\ Earliest(work[i][t], r)
          /\ lock' = [lock EXCEPT ![i] = [pc |-> "seen", by |-> t, rec |-> r]]
          /\ \/ /\ ctx[i].held
                /\ ctx' = [ctx EXCEPT ![i].cur = r]
             \/ /\ ~ctx[i].held /\ runtime.status = "running" /\ ~behind[i]
                /\ ctx' = [ctx EXCEPT ![i] = [Hydrated EXCEPT !.cur = r]]
    /\ UNCHANGED <<redis, answer, mode, listener, buf, work, toAck, behind, ackRetry,
                   ackRegistry, claim, cleanup, rec, faults>>

\* Mutant: the drain forgets the failed suffix instead of retrying it.
GiveUpSuffix(i, t) == work' = [work EXCEPT ![i][t] = {}] /\ UNCHANGED <<buf, ackRegistry, claim>>

\* An unacknowledged result. The drain keeps the failed suffix for its retry
\* unless the listener has closed; the recovery worker drops its page, or
\* registers the acknowledgements it was repairing once more.
GiveUp(i, t) ==
    /\ work' = [work EXCEPT ![i][t] = {}]
    /\ IF t = "drain"
       THEN /\ buf' = IF listener[i] = "live" THEN [buf EXCEPT ![i] = @ \union work[i][t]]
                                              ELSE buf
            /\ UNCHANGED <<ackRegistry, claim>>
       ELSE /\ claim' = [claim EXCEPT ![i] = NoClaim]
            /\ ackRegistry' = IF claim[i].paged THEN ackRegistry
                              ELSE [ackRegistry EXCEPT ![i] = @ \union claim[i].ids]
            /\ UNCHANGED buf

\* MISSING_CONTEXT: no context in memory and no running turn to rebuild it from.
Missing(i, t) ==
    /\ mode[i] # "down" /\ lock[i] = Free /\ work[i][t] # {}
    /\ t = "claim" => toAck[i][t] = {}
    /\ ~ctx[i].held /\ runtime.status # "running"
    /\ GiveUp(i, t)
    /\ UNCHANGED <<redis, answer, mode, listener, ctx, toAck, lock, behind, ackRetry,
                   cleanup, rec, faults>>

\* The record's result is one that is acknowledged.
Handled(i) ==
    LET t == lock[i].by  r == lock[i].rec IN
    /\ work' = [work EXCEPT ![i][t] = @ \ {r}]
    /\ toAck' = [toAck EXCEPT ![i][t] = @ \union {r}]
    /\ lock' = [lock EXCEPT ![i] = Free]

\* A record the watermark covers is not accumulated again. A terminal one is
\* persisted again unless its marker can be read.
Replay(i) ==
    /\ mode[i] # "down" /\ lock[i].pc = "seen" /\ lock[i].rec <= ctx[i].wm
    /\ \/ (lock[i].rec < N \/ marker) /\ Handled(i) /\ UNCHANGED faults
       \/ /\ lock[i].rec = N
          /\ lock' = [lock EXCEPT ![i].pc = "persist"]
          /\ IF marker THEN Spend("redis") ELSE UNCHANGED faults
          /\ UNCHANGED <<work, toAck>>
    /\ UNCHANGED <<redis, answer, mode, listener, ctx, buf, behind, ackRetry,
                   ackRegistry, claim, cleanup, rec>>

\* A delta is accumulated, the watermark advances and a snapshot is queued.
Accumulate(i) ==
    LET r == lock[i].rec IN
    /\ mode[i] # "down" /\ lock[i].pc = "seen" /\ r > ctx[i].wm /\ r < N
    /\ ctx' = [ctx EXCEPT ![i].body = @ \union {r}, ![i].wm = r]
    /\ behind' = [behind EXCEPT ![i] = TRUE]
    /\ Handled(i)
    /\ UNCHANGED <<redis, answer, mode, listener, buf, ackRetry, ackRegistry, claim,
                   cleanup, rec, faults>>

\* Mutant: the final snapshot is left to the write-behind, like any other one.
EndOfAnswerQueued(i) ==
    /\ mode[i] # "down" /\ lock[i].pc = "seen" /\ lock[i].rec > ctx[i].wm /\ lock[i].rec = N
    /\ lock' = [lock EXCEPT ![i].pc = "persist"]
    /\ ctx' = [ctx EXCEPT ![i].wm = N] /\ behind' = [behind EXCEPT ![i] = TRUE]
    /\ UNCHANGED <<redis, answer, mode, listener, buf, work, toAck, ackRetry, ackRegistry,
                   claim, cleanup, rec, faults>>

\* The terminal response replaces the queued snapshot by the final one; an
\* error event neither advances the watermark nor saves a snapshot.
EndOfAnswer(i) ==
    /\ mode[i] # "down" /\ lock[i].pc = "seen" /\ lock[i].rec > ctx[i].wm /\ lock[i].rec = N
    /\ lock' = [lock EXCEPT ![i].pc = "persist"]
    /\ IF ErrorEnds
       THEN UNCHANGED <<ctx, behind, snapshot, faults>>
       ELSE /\ ctx' = [ctx EXCEPT ![i].wm = N]
            /\ behind' = [behind EXCEPT ![i] = FALSE]
            /\ \/ snapshot' = SnapshotOf(ctx'[i]) /\ UNCHANGED faults
               \/ Spend("redis") /\ UNCHANGED snapshot
    /\ UNCHANGED <<produced, delivered, pel, lease, runtime, recoverer, marker, answer,
                   mode, listener, buf, work, toAck, ackRetry, ackRegistry, claim,
                   cleanup, rec>>

\* The one-shot gate: who passes it writes the message.
PersistGate(i) ==
    /\ mode[i] # "down" /\ lock[i].pc = "persist"
    /\ lock' = [lock EXCEPT ![i].pc = IF ctx[i].gate THEN "notify" ELSE "write"]
    /\ ctx' = [ctx EXCEPT ![i].gate = TRUE]
    /\ UNCHANGED <<redis, answer, mode, listener, buf, work, toAck, behind, ackRetry,
                   ackRegistry, claim, cleanup, rec, faults>>

WriteMessage(i) ==
    /\ mode[i] # "down" /\ lock[i].pc = "write"
    /\ answer' = [answer EXCEPT !.saved = TRUE, !.body = ctx[i].body,
                                !.recovered = ctx[i].recovered]
    /\ lock' = [lock EXCEPT ![i].pc = "notify"]
    /\ UNCHANGED <<redis, mode, listener, ctx, buf, work, toAck, behind, ackRetry,
                   ackRegistry, claim, cleanup, rec, faults>>

\* Mutant: a failed write is logged and the record counts as handled.
WriteFailureSwallowed(i) ==
    /\ mode[i] # "down" /\ lock[i].pc = "write" /\ Spend("persist")
    /\ Handled(i)
    /\ UNCHANGED <<redis, answer, mode, listener, ctx, buf, behind, ackRetry, ackRegistry,
                   claim, cleanup, rec>>

\* A failed write reopens the gate; the terminal record stays pending.
WriteFails(i) ==
    /\ mode[i] # "down" /\ lock[i].pc = "write" /\ Spend("persist")
    /\ ctx' = [ctx EXCEPT ![i].gate = FALSE]
    /\ lock' = [lock EXCEPT ![i] = Free]
    /\ GiveUp(i, lock[i].by)
    /\ UNCHANGED <<redis, answer, mode, listener, toAck, behind, ackRetry, cleanup, rec>>

NotifyObservers(i) ==
    /\ mode[i] # "down" /\ lock[i].pc = "notify"
    /\ answer' = [answer EXCEPT !.notified = TRUE]
    /\ lock' = [lock EXCEPT ![i].pc = "mark"]
    /\ UNCHANGED <<redis, mode, listener, ctx, buf, work, toAck, behind, ackRetry,
                   ackRegistry, claim, cleanup, rec, faults>>

\* Mutant: a failed observer is logged and the record counts as handled.
NotifyFailureSwallowed(i) ==
    /\ mode[i] # "down" /\ lock[i].pc = "notify" /\ Spend("persist")
    /\ Handled(i)
    /\ UNCHANGED <<redis, answer, mode, listener, ctx, buf, behind, ackRetry, ackRegistry,
                   claim, cleanup, rec>>

\* An observer throws: the gate stays taken, the terminal record stays pending.
NotifyFails(i) ==
    /\ mode[i] # "down" /\ lock[i].pc = "notify" /\ Spend("persist")
    /\ lock' = [lock EXCEPT ![i] = Free]
    /\ GiveUp(i, lock[i].by)
    /\ UNCHANGED <<redis, answer, mode, listener, ctx, toAck, behind, ackRetry, cleanup, rec>>

\* The marker is written, or the failure to write it is swallowed.
MarkPersisted(i) ==
    /\ mode[i] # "down" /\ lock[i].pc = "mark"
    /\ \/ marker' = TRUE /\ UNCHANGED faults
       \/ Spend("redis") /\ UNCHANGED marker
    /\ Handled(i)
    /\ UNCHANGED <<produced, delivered, pel, lease, runtime, recoverer, snapshot, answer,
                   mode, listener, ctx, buf, behind, ackRetry, ackRegistry, claim,
                   cleanup, rec>>

\* The write-behind saves what the live context holds when it runs.
SaveSnapshot(i) ==
    /\ mode[i] # "down" /\ behind[i]
    /\ behind' = [behind EXCEPT ![i] = FALSE]
    /\ \/ snapshot' = SnapshotOf(ctx[i]) /\ UNCHANGED faults
       \/ Spend("redis") /\ UNCHANGED snapshot
    /\ UNCHANGED <<produced, delivered, pel, lease, runtime, recoverer, marker, answer,
                   mode, listener, ctx, buf, work, toAck, lock, ackRetry, ackRegistry,
                   claim, cleanup, rec>>

-----------------------------------------------------------------------------
(* Acknowledging, and the cleanup a terminal acknowledgement starts.       *)

\* Mutant: the cleanup starts after any acknowledgement, not the terminal one.
AcknowledgedLast(i, r) ==
    /\ pel' = [pel EXCEPT ![r] = NoOne]
    /\ ackRegistry' = [ackRegistry EXCEPT ![i] = @ \ {r}]
    /\ cleanup' = [cleanup EXCEPT ![i] = "snapshot"]

Acknowledged(i, r) ==
    /\ pel' = [pel EXCEPT ![r] = NoOne]
    /\ ackRegistry' = [ackRegistry EXCEPT ![i] = @ \ {r}]
    /\ cleanup' = IF r = N THEN [cleanup EXCEPT ![i] = "snapshot"] ELSE cleanup

\* The drain acknowledges once its whole batch has results.
Ack(i, t) ==
    /\ mode[i] # "down" /\ t = "drain" => work[i][t] = {}
    /\ \E r \in toAck[i][t] :
          /\ Earliest(toAck[i][t], r)
          /\ toAck' = [toAck EXCEPT ![i][t] = @ \ {r}]
          /\ Acknowledged(i, r)
    /\ UNCHANGED <<produced, delivered, lease, runtime, recoverer, snapshot, marker, answer,
                   mode, listener, ctx, buf, work, lock, behind, ackRetry, claim, rec, faults>>

\* A failed XACK goes to the retry timer of an open listener; a closed listener
\* and the recovery worker register it.
AckFails(i, t) ==
    /\ mode[i] # "down" /\ t = "drain" => work[i][t] = {}
    /\ Spend("redis")
    /\ \E r \in toAck[i][t] :
          /\ Earliest(toAck[i][t], r)
          /\ toAck' = [toAck EXCEPT ![i][t] = @ \ {r}]
          /\ IF t = "drain" /\ Active(i)
             THEN /\ ackRetry' = [ackRetry EXCEPT ![i] = @ \union {r}]
                  /\ UNCHANGED ackRegistry
             ELSE /\ ackRegistry' = [ackRegistry EXCEPT ![i] = @ \union {r}]
                  /\ UNCHANGED ackRetry
    /\ UNCHANGED <<redis, answer, mode, listener, ctx, buf, work, lock, behind, claim,
                   cleanup, rec>>

\* Mutant: an acknowledgement that succeeds on the timer starts no cleanup.
AckAgainOnly(i) ==
    /\ mode[i] # "down"
    /\ \E r \in ackRetry[i] :
          /\ ackRetry' = [ackRetry EXCEPT ![i] = @ \ {r}]
          /\ Active(i) /\ pel' = [pel EXCEPT ![r] = NoOne]
    /\ UNCHANGED <<produced, delivered, lease, runtime, recoverer, snapshot, marker, answer,
                   mode, listener, ctx, buf, work, toAck, lock, behind, ackRegistry, claim,
                   cleanup, rec, faults>>

\* The retry timer fires. The three attempts of the code are one here.
AckAgain(i) ==
    /\ mode[i] # "down"
    /\ \E r \in ackRetry[i] :
          /\ ackRetry' = [ackRetry EXCEPT ![i] = @ \ {r}]
          /\ \/ Active(i) /\ Acknowledged(i, r) /\ UNCHANGED faults
             \/ /\ IF Active(i) THEN Spend("redis") ELSE UNCHANGED faults
                /\ ackRegistry' = [ackRegistry EXCEPT ![i] = @ \union {r}]
                /\ UNCHANGED <<pel, cleanup>>
    /\ UNCHANGED <<produced, delivered, lease, runtime, recoverer, snapshot, marker, answer,
                   mode, listener, ctx, buf, work, toAck, lock, behind, claim, rec>>

CleanupSnapshot(i) ==
    /\ mode[i] # "down" /\ cleanup[i] = "snapshot"
    /\ snapshot' = NoSnapshot
    /\ cleanup' = [cleanup EXCEPT ![i] = "turn"]
    /\ UNCHANGED <<produced, delivered, pel, lease, runtime, recoverer, marker, answer,
                   mode, listener, ctx, buf, work, toAck, lock, behind, ackRetry,
                   ackRegistry, claim, rec, faults>>

\* stopSessionListenerLocked, but for the runtime state.
StopListener(i) ==
    /\ listener' = [listener EXCEPT ![i] = "closed"]
    /\ buf' = [buf EXCEPT ![i] = {}]
    /\ ackRegistry' = [ackRegistry EXCEPT ![i] = {}]
    /\ ctx' = [ctx EXCEPT ![i].held = FALSE]

\* completeSessionTurn: the listener's instance also stops it.
EndTurn(i) ==
    /\ runtime' = NoTurn
    /\ IF Active(i)
       THEN /\ StopListener(i)
            /\ lease' = IF lease = i THEN NoOne ELSE lease
       ELSE /\ ctx' = [ctx EXCEPT ![i].held = FALSE]
            /\ UNCHANGED <<listener, buf, ackRegistry, lease>>

\* The cleanup task clears the marker too when it stopped the listener.
CompleteTurn(i) ==
    /\ mode[i] # "down" /\ cleanup[i] = "turn"
    /\ cleanup' = [cleanup EXCEPT ![i] = "none"]
    /\ EndTurn(i)
    /\ marker' = (marker /\ ~Active(i))
    /\ UNCHANGED <<produced, delivered, pel, recoverer, snapshot, answer, mode, work, toAck,
                   lock, behind, ackRetry, claim, rec, faults>>

-----------------------------------------------------------------------------
(* Lease, heartbeat and the keys that lapse.                               *)

\* keepAlive: every active listener refreshes a running turn it has a context of.
Heartbeat(i) ==
    /\ mode[i] = "up" /\ Active(i) /\ ctx[i].held
    /\ runtime.status = "running"
    /\ runtime' = Running(i)
    /\ UNCHANGED <<produced, delivered, pel, lease, recoverer, snapshot, marker, answer,
                   local, faults>>

Refreshes(i) == mode[i] = "up" /\ Active(i)

\* The heartbeat is 180 s old: its owner is gone, or stalled.
HeartbeatLapses ==
    /\ runtime.status = "running" /\ runtime.fresh
    /\ IF Refreshes(runtime.owner) /\ ctx[runtime.owner].held THEN Spend("stall")
                                                              ELSE UNCHANGED faults
    /\ runtime' = [runtime EXCEPT !.fresh = FALSE]
    /\ UNCHANGED <<produced, delivered, pel, lease, recoverer, snapshot, marker, answer, local>>

\* The lease's 120 s pass without a renewal.
LeaseLapses ==
    /\ lease # NoOne
    /\ IF Refreshes(lease) THEN Spend("stall") ELSE UNCHANGED faults
    /\ lease' = NoOne
    /\ UNCHANGED <<produced, delivered, pel, runtime, recoverer, snapshot, marker, answer, local>>

\* The recovery lock is never released, only its 120 s end it.
RecoveryLockLapses ==
    /\ recoverer # NoOne
    /\ IF \E i \in Inst : rec[i].pc # "idle" THEN Spend("stall") ELSE UNCHANGED faults
    /\ recoverer' = NoOne
    /\ UNCHANGED <<produced, delivered, pel, lease, runtime, snapshot, marker, answer, local>>

\* A renewal finds the lease gone, or throws: the listener is stopped, and
\* releaseIfOwner deletes the runtime state of a turn that is still running,
\* since its token is the turn's and survives a takeover. While Redis does not
\* answer, neither the lease nor the runtime state is deleted.
RenewFails(i) ==
    /\ mode[i] = "up" /\ Active(i)
    /\ StopListener(i)
    /\ LET released == IF ctx[i].held THEN NoTurn ELSE runtime
           unleased == IF lease = i THEN NoOne ELSE lease
       IN \/ /\ lease # i
             /\ runtime' = released
             /\ UNCHANGED <<lease, faults>>
          \/ /\ Spend("renew")
             /\ lease' \in {lease, unleased}
             /\ runtime' \in {runtime, released}
    /\ UNCHANGED <<produced, delivered, pel, recoverer, snapshot, marker, answer, mode, work,
                   toAck, lock, behind, ackRetry, claim, cleanup, rec>>

-----------------------------------------------------------------------------
(* Recovery.                                                               *)

ClaimIdle(i) == work[i]["claim"] = {} /\ toAck[i]["claim"] = {}
DrainIdle(i) == work[i]["drain"] = {} /\ toAck[i]["drain"] = {} /\ ackRetry[i] = {}

\* Mutant: the scan overlooks the turns that were handed over.
ScanStale(i) ==
    /\ mode[i] # "down" /\ rec[i].pc = "idle" /\ ~Paused(i) /\ ClaimIdle(i)
    /\ runtime.status = "running" /\ ~runtime.fresh /\ ~(runtime.owner = i /\ ctx[i].held)
    /\ rec' = [rec EXCEPT ![i] = [pc |-> "candidate", graceful |-> FALSE]]
    /\ UNCHANGED <<redis, answer, mode, listener, ctx, buf, work, toAck, lock, behind,
                   ackRetry, ackRegistry, claim, cleanup, faults>>

\* The scan finds a turn handed over, or one whose heartbeat is stale and
\* whose context is not in this instance's memory already.
Scan(i) ==
    /\ mode[i] # "down" /\ rec[i].pc = "idle" /\ ~Paused(i) /\ ClaimIdle(i)
    /\ \/ runtime.status = "handoff"
       \/ /\ runtime.status = "running" /\ ~runtime.fresh
          /\ ~(runtime.owner = i /\ ctx[i].held)
    /\ rec' = [rec EXCEPT ![i] = [pc |-> "candidate", graceful |-> runtime.status = "handoff"]]
    /\ UNCHANGED <<redis, answer, mode, listener, ctx, buf, work, toAck, lock, behind,
                   ackRetry, ackRegistry, claim, cleanup, faults>>

\* recoverState, up to the context. An instance rebuilds its context once what
\* still uses an older one has ended.
TakeRecoveryLock(i) ==
    /\ mode[i] # "down" /\ rec[i].pc = "candidate"
    /\ \/ /\ recoverer # NoOne
          /\ rec' = [rec EXCEPT ![i] = NoRec]
          /\ UNCHANGED <<recoverer, ctx>>
       \/ /\ recoverer = NoOne
          /\ ctx[i].held \/ (lock[i] = Free /\ ~behind[i])
          /\ recoverer' = i
          /\ ctx' = IF ctx[i].held THEN ctx ELSE [ctx EXCEPT ![i] = Hydrated]
          /\ rec' = [rec EXCEPT ![i].pc = "hydrated"]
    /\ UNCHANGED <<produced, delivered, pel, lease, runtime, snapshot, marker, answer, mode,
                   listener, buf, work, toAck, lock, behind, ackRetry, ackRegistry, claim,
                   cleanup, faults>>

\* The lease is free: the listener starts paused and the turn is marked
\* running under its new owner, whatever its runtime state is by now.
StartPaused(i) ==
    /\ mode[i] = "up" /\ rec[i].pc = "hydrated" /\ ~Active(i) /\ DrainIdle(i)
    /\ lease = NoOne
    /\ lease' = i
    /\ listener' = [listener EXCEPT ![i] = IF rec[i].graceful THEN "pausedNow" ELSE "paused"]
    /\ runtime' = Running(i)
    /\ claim' = [claim EXCEPT ![i] = NoClaim]
    /\ rec' = [rec EXCEPT ![i] = NoRec]
    /\ UNCHANGED <<produced, delivered, pel, recoverer, snapshot, marker, answer, mode, ctx,
                   buf, work, toAck, lock, behind, ackRetry, ackRegistry, cleanup, faults>>

\* The listener is active already, or the lease is held, or this instance is
\* shutting down: no takeover, and but in the first case no context either.
StartRefused(i) ==
    /\ mode[i] # "down" /\ rec[i].pc = "hydrated"
    /\ \/ Active(i) /\ UNCHANGED ctx
       \/ /\ ~Active(i) /\ (mode[i] = "closing" \/ lease # NoOne)
          /\ ctx' = [ctx EXCEPT ![i].held = FALSE]
    /\ rec' = [rec EXCEPT ![i] = NoRec]
    /\ UNCHANGED <<redis, answer, mode, listener, buf, work, toAck, lock, behind, ackRetry,
                   ackRegistry, claim, cleanup, faults>>

\* Acknowledgements that failed behind the page cursor are not claimed again
\* before the listener resumes.
Page(i) == IF Paused(i) THEN Pending \ ackRegistry[i] ELSE Pending
\* Entries of one kind, this instance's own or those of others, in order:
\* idle entries of others, or all of its own up to the first of another.
OneKind(i, P) ==
    \/ \A r \in P : pel[r] # i
    \/ /\ \A r \in P : pel[r] = i
       /\ \A q \in Page(i) \ P : Earliest(Page(i) \ P, q) => pel[q] # i

\* claimPendingMessages of a paused listener, or of a context this instance
\* still has of a turn it owns without a listener.
ClaimPage(i) ==
    /\ mode[i] = "up" /\ rec[i].pc = "idle" /\ ClaimIdle(i)
    /\ Paused(i) \/ (~Active(i) /\ ctx[i].held /\ runtime.status = "running" /\ runtime.owner = i)
    /\ ~claim[i].whole
    /\ \E last \in Page(i) :
          LET P == UpTo(Page(i), last) IN
          /\ IF listener[i] = "pausedNow" THEN P = Page(i) ELSE OneKind(i, P)
          /\ pel' = [r \in Records |-> IF r \in P THEN i ELSE pel[r]]
          /\ work' = [work EXCEPT ![i]["claim"] = P]
          /\ claim' = [claim EXCEPT ![i] = [ids |-> P, paged |-> TRUE,
                                            whole |-> Paused(i) /\ P = Page(i)]]
    /\ UNCHANGED <<produced, delivered, lease, runtime, recoverer, snapshot, marker, answer,
                   mode, listener, ctx, buf, toAck, lock, behind, ackRetry, ackRegistry,
                   cleanup, rec, faults>>

\* Mutant: unread records are polled while claimed pages are still missing.
ResumeEarly(i) ==
    /\ mode[i] = "up" /\ Paused(i) /\ ClaimIdle(i)
    /\ listener' = [listener EXCEPT ![i] = "live"]
    /\ claim' = [claim EXCEPT ![i] = NoClaim]
    /\ UNCHANGED <<redis, answer, mode, ctx, buf, work, toAck, lock, behind, ackRetry,
                   ackRegistry, cleanup, rec, faults>>

\* The last page has been processed: unread records may be polled.
Resume(i) ==
    /\ mode[i] = "up" /\ Paused(i) /\ ClaimIdle(i)
    /\ claim[i].whole \/ Page(i) = {}
    /\ listener' = [listener EXCEPT ![i] = "live"]
    /\ claim' = [claim EXCEPT ![i] = NoClaim]
    /\ UNCHANGED <<redis, answer, mode, ctx, buf, work, toAck, lock, behind, ackRetry,
                   ackRegistry, cleanup, rec, faults>>

\* claimAckFailedMessages: targeted claim of what a live listener processed
\* and could not acknowledge.
ClaimAckFailed(i) ==
    /\ mode[i] = "up" /\ listener[i] = "live" /\ ctx[i].held
    /\ runtime.status = "running" /\ runtime.owner = i
    /\ rec[i].pc = "idle" /\ ClaimIdle(i) /\ ackRegistry[i] # {}
    /\ claim' = [claim EXCEPT ![i] = [ids |-> ackRegistry[i], paged |-> FALSE, whole |-> FALSE]]
    /\ pel' = [r \in Records |-> IF r \in ackRegistry[i] \intersect Pending THEN i ELSE pel[r]]
    /\ work' = [work EXCEPT ![i]["claim"] = ackRegistry[i] \intersect Pending]
    /\ ackRegistry' = [ackRegistry EXCEPT ![i] = {}]
    /\ UNCHANGED <<produced, delivered, lease, runtime, recoverer, snapshot, marker, answer,
                   mode, listener, ctx, buf, toAck, lock, behind, ackRetry, cleanup, rec,
                   faults>>

-----------------------------------------------------------------------------
(* Shutdown and crash.                                                     *)

OthersUp(i) == \E j \in Inst \ {i} : mode[j] = "up"

\* Mutant: the turn is offered to others while its listener keeps polling.
HandoffPolling(i) ==
    /\ mode[i] = "up" /\ OthersUp(i) /\ Spend("handoff")
    /\ mode' = [mode EXCEPT ![i] = "closing"]
    /\ runtime' = IF Active(i) /\ runtime.status = "running" /\ runtime.owner = i
                  THEN [runtime EXCEPT !.status = "handoff"] ELSE runtime
    /\ UNCHANGED <<produced, delivered, pel, lease, recoverer, snapshot, marker, answer,
                   listener, ctx, buf, work, toAck, lock, behind, ackRetry, ackRegistry,
                   claim, cleanup, rec>>

\* Mutant: shutdown stops the listener as the end of a turn does.
HandoffStopping(i) ==
    /\ mode[i] = "up" /\ OthersUp(i) /\ Spend("handoff") /\ Active(i)
    /\ mode' = [mode EXCEPT ![i] = "closing"]
    /\ StopListener(i)
    /\ runtime' = NoTurn
    /\ UNCHANGED <<produced, delivered, pel, lease, recoverer, snapshot, marker, answer,
                   work, toAck, lock, behind, ackRetry, claim, cleanup, rec>>

\* ContextClosedEvent: stop polling, keep the context, offer the turn to others.
Handoff(i) ==
    /\ mode[i] = "up" /\ OthersUp(i) /\ Spend("handoff")
    /\ mode' = [mode EXCEPT ![i] = "closing"]
    /\ IF Active(i)
       THEN /\ listener' = [listener EXCEPT ![i] = "closed"]
            /\ buf' = [buf EXCEPT ![i] = {}]
            /\ runtime' = IF ctx[i].held /\ runtime.status = "running" /\ runtime.owner = i
                          THEN [runtime EXCEPT !.status = "handoff"] ELSE runtime
       ELSE UNCHANGED <<listener, buf, runtime>>
    /\ UNCHANGED <<produced, delivered, pel, lease, recoverer, snapshot, marker, answer, ctx,
                   work, toAck, lock, behind, ackRetry, ackRegistry, claim, cleanup, rec>>

\* The lease is given back after the turn has been offered.
ReleaseLease(i) ==
    /\ mode[i] = "closing" /\ lease = i
    /\ lease' = NoOne
    /\ UNCHANGED <<produced, delivered, pel, runtime, recoverer, snapshot, marker, answer,
                   local, faults>>

\* The process ends and all that was only in memory is gone.
Down(i) ==
    /\ mode' = [mode EXCEPT ![i] = "down"]
    /\ listener' = [listener EXCEPT ![i] = "none"]
    /\ ctx' = [ctx EXCEPT ![i] = NoCtx]
    /\ buf' = [buf EXCEPT ![i] = {}]
    /\ work' = [work EXCEPT ![i] = Nothing] /\ toAck' = [toAck EXCEPT ![i] = Nothing]
    /\ lock' = [lock EXCEPT ![i] = Free]
    /\ behind' = [behind EXCEPT ![i] = FALSE]
    /\ ackRetry' = [ackRetry EXCEPT ![i] = {}]
    /\ ackRegistry' = [ackRegistry EXCEPT ![i] = {}]
    /\ claim' = [claim EXCEPT ![i] = NoClaim]
    /\ cleanup' = [cleanup EXCEPT ![i] = "none"]
    /\ rec' = [rec EXCEPT ![i] = NoRec]
    /\ UNCHANGED <<redis, answer>>

\* The write-behind flushes in its PreDestroy; the cleanup executor and the
\* drain's virtual threads are cut off wherever they are.
Exit(i) == mode[i] = "closing" /\ lease # i /\ ~behind[i] /\ Down(i) /\ UNCHANGED faults

Crash(i) == mode[i] # "down" /\ OthersUp(i) /\ Spend("crash") /\ Down(i)

-----------------------------------------------------------------------------
Reader(i) == Read(i) \/ ReadLate(i)
Processing(i) ==
    \/ Replay(i) \/ Accumulate(i) \/ EndOfAnswer(i) \/ PersistGate(i)
    \/ WriteMessage(i) \/ WriteFails(i) \/ NotifyObservers(i) \/ NotifyFails(i)
    \/ MarkPersisted(i)
Thread(i, t) == Begin(i, t) \/ Missing(i, t) \/ Ack(i, t) \/ AckFails(i, t)
Recovery(i) ==
    \/ Scan(i) \/ TakeRecoveryLock(i) \/ StartPaused(i) \/ StartRefused(i)
    \/ ClaimPage(i) \/ Resume(i) \/ ClaimAckFailed(i)
Cleaning(i) == CleanupSnapshot(i) \/ CompleteTurn(i)
Keys == HeartbeatLapses \/ LeaseLapses \/ RecoveryLockLapses

Next ==
    \/ Produce \/ Keys
    \/ \E i \in Inst :
          \/ Reader(i) \/ StartDrain(i) \/ Processing(i) \/ SaveSnapshot(i)
          \/ AckAgain(i) \/ Cleaning(i) \/ Heartbeat(i) \/ RenewFails(i) \/ Recovery(i)
          \/ Handoff(i) \/ ReleaseLease(i) \/ Exit(i) \/ Crash(i)
          \/ \E t \in Threads : Thread(i, t)

Spec == Init /\ [][Next]_vars

(***************************************************************************)
(* Every thread that can take a step eventually does, every timer fires    *)
(* and every key nobody refreshes lapses. Nothing obliges a worker to      *)
(* append, a process to stop or a stall to happen, and the faults a thread *)
(* meets are finitely many.                                                *)
(***************************************************************************)
Fairness ==
    /\ \A i \in Inst :
          /\ WF_vars(Read(i)) /\ WF_vars(StartDrain(i)) /\ WF_vars(Processing(i))
          /\ WF_vars(SaveSnapshot(i)) /\ WF_vars(AckAgain(i)) /\ WF_vars(Cleaning(i))
          /\ WF_vars(Heartbeat(i)) /\ WF_vars(RenewFails(i) /\ lease # i)
          /\ WF_vars(Recovery(i)) /\ WF_vars(ReleaseLease(i)) /\ WF_vars(Exit(i))
          /\ \A t \in Threads : WF_vars(Thread(i, t))
    /\ WF_vars(HeartbeatLapses /\ UNCHANGED faults)
    /\ WF_vars(LeaseLapses /\ UNCHANGED faults)
    /\ SF_vars(RecoveryLockLapses /\ UNCHANGED faults)

FairSpec == Spec /\ Fairness

-----------------------------------------------------------------------------
(* Properties.                                                             *)

TurnType == [status : {"none", "running", "handoff"}, owner : Inst \union {NoOne},
             fresh : BOOLEAN]
SnapshotType == [wm : 0..N, body : SUBSET Records]
AnswerType == [saved : BOOLEAN, body : SUBSET Records, recovered : BOOLEAN,
               notified : BOOLEAN]
ContextType == [held : BOOLEAN, recovered : BOOLEAN, wm : 0..N, cur : 0..N,
                body : SUBSET Records, gate : BOOLEAN]
LockType == {Free} \union [pc : {"seen", "persist", "write", "notify", "mark"},
                           by : Threads, rec : Records]
ClaimType == [ids : SUBSET Records, paged : BOOLEAN, whole : BOOLEAN]
TaskType == [pc : {"idle", "candidate", "hydrated"}, graceful : BOOLEAN]
FaultKinds == {"crash", "handoff", "stall", "redis", "persist", "renew"}

\* Type invariant of the turn.
TypeOK ==
    /\ produced \in 0..N /\ delivered \in 0..N
    /\ pel \in [Records -> Inst \union {NoOne}]
    /\ lease \in Inst \union {NoOne} /\ recoverer \in Inst \union {NoOne}
    /\ runtime \in TurnType /\ snapshot \in SnapshotType /\ marker \in BOOLEAN
    /\ answer \in AnswerType
    /\ mode \in [Inst -> {"up", "closing", "down"}]
    /\ listener \in [Inst -> {"none", "paused", "pausedNow", "live", "closed"}]
    /\ ctx \in [Inst -> ContextType]
    /\ buf \in [Inst -> SUBSET Records]
    /\ work \in [Inst -> [Threads -> SUBSET Records]]
    /\ toAck \in [Inst -> [Threads -> SUBSET Records]]
    /\ lock \in [Inst -> LockType]
    /\ behind \in [Inst -> BOOLEAN]
    /\ ackRetry \in [Inst -> SUBSET Records] /\ ackRegistry \in [Inst -> SUBSET Records]
    /\ claim \in [Inst -> ClaimType]
    /\ cleanup \in [Inst -> {"none", "snapshot", "turn"}]
    /\ rec \in [Inst -> TaskType]
    /\ faults \in [FaultKinds -> Nat]

TerminalAcked == delivered = N /\ pel[N] = NoOne
Settled == answer.saved /\ answer.notified

\* The terminal record is acknowledged only when the answer message is in the
\* database and every persistence observer has run, whoever processed it,
\* however often, and whatever crashed, stalled or failed in between
\* (StreamRecordProcessor.processInternal, the marker, the ACK retries).
AckedTerminalPersisted == TerminalAcked => Settled

\* No pause of an owner has outlasted both its lease (120 s) and its heartbeat
\* (180 s): a scan needs both gone to start a takeover beside it.
NoPauseBeyondBothKeys == faults["stall"] + 1 >= MaxStalls

\* An answer persisted from a context that was never rebuilt has every delta:
\* the batches, the failed suffix, the ACK repairs and the gate lose none, and
\* neither does a pause that only the lease or only the heartbeat expired under.
UndisturbedAnswerComplete ==
    NoPauseBeyondBothKeys /\ answer.saved /\ ~answer.recovered => answer.body = 1..(N - 1)

\* Neither a pause that outlasted a key nor a failed renewal has cost an owner
\* its listener.
NoListenerLost == faults["stall"] = MaxStalls /\ faults["renew"] = MaxRenewFaults

\* The recovery scan finds turns by their runtime state only: unless a listener
\* was lost, it is deleted when the turn is settled and its terminal record
\* acknowledged, not before.
ReleasedWhenSettled ==
    NoListenerLost /\ runtime.status = "none" => TerminalAcked /\ Settled

\* A takeover lets its listener read new records only when every delivered one
\* is acknowledged or waits for nothing but its acknowledgement, unless the
\* owner before it still reads.
RecoveryBarrier ==
    [][\A i \in Inst : NoListenerLost /\ Paused(i) /\ listener'[i] = "live" =>
          \A r \in 1..delivered : pel[r] = NoOne \/ r \in ackRegistry[i]]_vars

\* What a rebuilt context starts from is what the last one wrote its answer
\* from: no snapshot or other Redis command failed, no owner handed over with
\* its last snapshot unwritten, and the turn does not end in an error record,
\* which saves none.
SnapshotsKept ==
    /\ ~ErrorEnds /\ faults["redis"] = MaxRedisFaults /\ faults["handoff"] = MaxHandoffs
    /\ NoListenerLost

\* A terminal record processed again, after crashes and failed message writes
\* and observers, never replaces the persisted answer by one with fewer deltas
\* (updateSelective is an upsert by message id).
AnswerNeverShrinks ==
    [][answer.saved /\ SnapshotsKept => answer.body \subseteq answer'.body]_vars

\* The lease keeps a session's stream to one consumer: two instances read or
\* claim its records at a time only after a pause that outlasted a key.
OneConsumer ==
    faults["stall"] = MaxStalls => \A i, j \in Inst : Active(i) /\ Active(j) => i = j

\* RunningChatSnapshotService: the stored watermark is the last record that the
\* stored snapshot has accumulated, so what it covers need not be accumulated again.
WatermarkCoversSnapshot == \A r \in 1..(N - 1) : r <= snapshot.wm => r \in snapshot.body

\* The turn as ChatTurn states it, read off the stream and the database.
PromisedTurn == INSTANCE ChatTurn WITH
    ended <- produced = N, saved <- answer.saved, notified <- answer.notified,
    acked <- TerminalAcked

\* Every behaviour of the turn is one ChatTurn allows: saved, observed and
\* acknowledged in that order, none of it twice and none of it undone.
KeepsPromise == PromisedTurn!TurnSafe

\* ... and it gets that far, under the fairness of the threads and timers.
FulfilsPromise == PromisedTurn!Turn

\* Once the worker has appended the terminal record, the answer is eventually
\* persisted and its observers run.
EventuallySettled == (produced = N) ~> Settled

\* ... and the turn is released, when no process went down on the way.
EventuallyReleased ==
    (produced = N) ~> (runtime.status = "none" \/ \E i \in Inst : mode[i] = "down")
=============================================================================

# Formal verification of ByClaw

ByClaw's backend (`byclaw-be`) sends a chat turn to a worker, which appends its answer to a Redis
Stream of the session. Several backend instances share Redis and the database; any of them may own
a session's stream, go down, be redeployed, and any may receive the user's stop. The answer must be
persisted once, completely, and before the stream forgets it. That subsystem is the core of this
project; two of the concurrent classes it relies on are modelled on their own, a critical section
at a time. Beside it stand two protocols of the tenant node (`byclaw-tenant-node`), which keeps the
messages of a tenant in the tenant's own database: the forwarding of group messages to other groups,
and the mirroring of chat turns from Redis Streams.

Paths below are relative to `src/`; `chat/service` stands for
`byclaw-be/src/main/java/com/iwhalecloud/byai/state/domain/chat/service`.

## 1. Inventory

| Component | State it keeps | Operations | Interacts with |
|---|---|---|---|
| Session stream (`SessionStreamManager`, `ReactiveSessionStreamReceiver`, `SessionStreamEventRouter`, `StreamRecordProcessor`, `SessionStreamLeaseService`, `StreamAckFailureRegistry`) | Redis Stream, consumer group and pending entries; lease of the session's listener; contexts (`ChatProcessContext`), per-session processing lock, failed ACKs | start, stop and resume a listener; read, route, accumulate, persist, acknowledge; clean up after the terminal ACK; renew leases; hand over at shutdown | workers append; recovery claims; write-behind saves snapshots; database |
| Session recovery (`SessionStreamRecoveryService`, `ChatRuntimeStateService`, `ChatContextRecoveryService`, `RunningOutputStreamRegistry`) | runtime state and running marker of a turn (owner, heartbeat, `running`/`handoff`), recovery lock | periodic scan, lock, rebuild a context from its snapshot, start a paused listener, claim pending pages, resume; targeted claim of failed ACKs; heartbeat | the session stream on every instance |
| Terminal persistence (`ScriptService`, `TerminalPersistMarkerService`, `RunningChatSnapshotService`) | answer message, one-shot gate of the context, terminal marker, running snapshot and watermark | `storeMessage`, observers, mark, save/hydrate/delete snapshot | stream, recovery, stop |
| User stop (`AssistantChatApplicationService.stopChat`) | none of its own | persist what a context or a snapshot has, complete and release the turn, delete the snapshot | gate, stream, registry |
| Batch listener (`RedisStreamMessageListener`) | pending queue, retry batch, timers with a generation, ACK timers | `onMessage`, drain, ACK retry, close | receiver, record processor |
| Snapshot write-behind (`RunningChatSnapshotWriteBehind`) | map of `PendingState`s, each with a write lock | `enqueue`, `flushNow`, `drain`, `shutdown` | router, snapshot service |
| Session locks (`StreamRecordProcessor` 237-264, `SessionLifecycleLocks`) | reference-counted map of locks | acquire, release | listener start/stop, processing |
| Group chat (`state/domain/groupchat/application`) | queued turns, task records, execution and recall state | dispatch, complete, time out, recall, publish | chat turns, tenant nodes |
| Group forward (`byclaw-tenant-node` `group-forward-prepare.ts`, `-commit.ts`, `-delivery.ts`; backend `GroupForwardWorker`, `GroupForwardApplicationService`) | row of the request, row per target group, frozen manifest, attachment checkpoints, delivery journal; leases with fencing versions | prepare, resolve and freeze sources, claim, copy an attachment, ready, commit, complete or deny text, announce, retry, recover | object storage, group membership, connected members |
| Tenant mirror (`byclaw-tenant-node` `stream-mirror-consumer.ts`, `mirror-delivery.ts`, `mirror-store.ts`, `redis-lease.ts`, `redis-business-locks.ts`) | consumer groups and pending entries, reader lease per stream, session lock; mirrored INPUT, answer and offset rows; quarantine | acquire, read, claim, apply in a transaction, acknowledge, quarantine; HTTP entry | Redis, tenant database, backend |
| Sandbox lifecycle (`gateway/sandbox`) | sandbox records, locks, idle times | create, reuse, reclaim, prewarm | container platform |
| Channels (`gateway/channels`) | connections, reply queues | connect, retry, reply | DingTalk, WeCom |
| Leases and locks (`common/lock`, mail, authorization sessions, hooks) | Redis keys with tokens | acquire, renew, release | transactions, schedulers |
| Rest of the tenant node | connections and their readiness, schema version, tasks, quotas | connect, upgrade, run, query | tenant database, backend |
| `byclaw-exe` (byai-channel, watchdog, ACP adapter) | dispatch gate per session, watched remote tasks | dispatch, follow up, settle | agent runtime |
| Scoped events, workgroup storage | child-session messages, dedup keys, admissions | append, dispatch, admit | stream, storage |
| `byclaw-fe`, `byclaw-qa`, `deploy`, `middleware` | user interface, tests, deployment | | |

What is hard in the part chosen first, and what makes it correct:

* **Ordering.** The terminal record is persisted, observed, marked and only then acknowledged, by
  threads that may repeat any of it. *Nothing is acknowledged before it is settled.*
* **Crashes.** Whatever only memory held is gone at any instruction. *A turn whose owner went down
  is found and settled by somebody; a replay never replaces the answer by a smaller one.*
* **Stale owners.** A pause longer than a TTL makes two instances work on one stream. *Without one
  there is a single consumer; with one nothing is acknowledged too early, and an untouched answer
  loses a delta only to a pause beyond both the lease and the heartbeat.*
* **Reordering.** Claimed pages, the retried suffix, targeted claims and new records reach the same
  accumulator. *New records wait for old ones, and each delta counts once.*
* **A stop racing all of it**, through a gate but without the lock. *The answer has one writer, and
  an accepted stop ends with the answer saved and the turn released.*
* **Hand-written synchronisation** in the listener and the write-behind. *One drain and one writer
  at a time, no wakeup lost, no older projection over a newer one.*
* **A long job under fenced leases**, with retries by the user and access that goes away while files
  are copied. *A target group is posted to once or never, only with its files, and the state shown to
  the user is the one that follows from the targets.*
* **Checks made before the call they protect.** Leases and locks of the mirror lapse between a check
  and its statement, and commits succeed whose reply is lost. *An acknowledged event is in the
  database or in quarantine, the answer is its events in order, and it never loses one.*

`PROJECT.json` lists every hazard at its line, with the properties about it or the reason there is
none yet.

## 2. Modules

| Module | Models |
|---|---|
| `ChatTurn` | the abstract promise: ended, saved, observed, acknowledged, in this order, none undone |
| `SessionStream` | one turn on any number of instances, from its first record to its release |
| `MCSessionStream` | its symmetry set and a bound |
| `SessionStop` | extends `SessionStream` by `STOP_CHAT` requests on any instance |
| `MCSessionStop` | its symmetry set |
| `StreamBatchListener` | `RedisStreamMessageListener` with batches |
| `SnapshotWriteBehind` | `RunningChatSnapshotWriteBehind` for one key |
| `ForwardPromise` | the abstract promise of a forward: each target posted once or refused, announced only when posted |
| `GroupForward` | one forward request to any number of target groups, driven by any number of workers |
| `TenantMirror` | the INPUT and the answer of one turn, mirrored by readers of two streams and by HTTP calls |
| `SessionStream_proofs` | types, terminal safety, refinement of `ChatTurn` |
| `SessionStreamLease_proofs` | one consumer at a time, the recovery barrier, release only after the end |
| `SessionStreamAnswer_proofs` | the answer is whole when its context was never rebuilt, and never shrinks |
| `SessionStop_proofs` | types; who finds the gate taken can rely on the other one to write |
| `StreamBatchListener_proofs` | types, one drain, order, nothing dropped |
| `SnapshotWriteBehind_proofs` | types, one writer, no regression of what is stored, everything saved at rest |
| `GroupForward_proofs` | types, one worker per lease, the request's state follows from its targets; posted once and with its attachment; refinement of `ForwardPromise` |
| `TenantMirror_proofs` | types, nothing acknowledged is lost, order and growth of the answer |

The `map` of `PROJECT.json` gives the lines of every definition. Operators introduced by a comment
`Mutant:` are not part of any specification: each is a definition with a plausible slip in it, and
substituting it for the definition it follows makes the property named in `PROJECT.json` fail in
its run. They show that the properties depend on the code's details.

### SessionStream

| Variable | In the program |
|---|---|
| `produced`, `delivered`, `pel` | stream length, last-delivered id of the group, pending entries and their consumers |
| `lease`, `recoverer` | lease key of the listener, recovery lock key |
| `runtime` | runtime state with owner, status, heartbeat freshness; the running marker is folded in |
| `snapshot`, `marker` | running snapshot with its watermark, terminal-persisted marker |
| `answer` | the message row, whether observers ran, and whether it was written from a rebuilt context |
| `mode`, `listener`, `ctx` | process, listener, context of each instance (accumulated body, watermark, `currentStreamId`, gate) |
| `buf`, `work`, `toAck` | queued and failed records; records a thread has taken; records it has yet to acknowledge |
| `lock` | the per-session processing lock, its holder and its program counter through `persistTurnMessage`, observers, marker |
| `behind`, `ackRetry`, `ackRegistry` | snapshot queued in the write-behind, ACK timers, failed ACKs |
| `claim`, `rec`, `cleanup` | claim page, recovery task, cleanup task |
| `faults` | how many faults of each kind may still happen |

A handler that runs under a lock and makes a single external call is one action. Where another
thread can see what is in between, or the process can die there, it is several: `Begin` (context
lookup and `currentStreamId`), `Replay`/`Accumulate`/`EndOfAnswer`, `PersistGate`, `WriteMessage`,
`NotifyObservers`, `MarkPersisted`, then `Ack` once the batch has its results. Message writes,
observers, ACKs, snapshot writes, marker reads and writes, and lease renewals have a failing outcome,
which draws on `faults`.

Time is only what it allows to happen. A key lapses when nobody refreshes it (heartbeat stale after
180 s, lease and recovery lock 120 s); while its holder runs, lapsing is a *stall* and bounded. The
running marker (30 min), the runtime state (24 h) and the idle time of pending entries (180 s) are
not waited for: a page may be claimed as soon as the code would ask for it.

Restrictions, all named here:

* one WebSocket turn of one session with one trace; no HTTP SSE transport with its bounded queue, no
  concurrent turns, child sessions, session-status polling, trimming, or receiver permits;
* batch and page boundaries fall anywhere (any prefix), where the code's 100 would never be reached;
* the three timed ACK attempts are one (`StreamBatchListener` has the counting);
* an instance starts a second listener only after the drain and ACK timers of its first are done,
  and rebuilds a context only after the processing and write-behind of the old one are;
* the Redis commands of recovery itself (scan, lock, lease, pending, claim, `markRunning`) and of
  shutdown and cleanup do not fail; a scan that fails is repeated, and a `markRunning` that throws
  stops its listener through the same path as finding 1;
* the idle time of pending entries does not delay a claim, which allows more interleavings than the
  code does;
* the processing lock excludes (the planned module on session locks will show it);
* crashes and shutdowns leave at least one instance up, as a fresh one would be started.

### SessionStop

`StopChat` reads the context or the snapshot; `StopGate`, `StopWrite`, `StopNotify`, `StopComplete`,
`StopRelease`, `StopClean` are the steps of `flushOnStop` and `stopChat`; `StopUpsert` is the gateless
`flushFromSnapshot` of an instance without a context; `StopWriteFails`/`StopThrows` are the error
paths, which differ between the two. Stream steps interleave with all of them. Not modelled: the
WebSocket protocol, the cancel command to the gateway, the projected-runtime wait, group chat stops.

### StreamBatchListener

An action is one critical section of `batchLock`, or one unlocked step of a drain. Two drain slots
exist although one is promised. A cancelled timer may already be running, as `cancel(false)` allows;
generations decide. A batch processes to any prefix. Restrictions: the mode with a batch delay
(`batchDelayMillis > 0`), and no interrupt of a waiting reader.

### SnapshotWriteBehind

One key (keys share only the map and the scheduler). Callers' and drains' critical sections, the lock
acquisition, and the two halves of a save (build from the live context, write) are separate. A call
brings the next version of the projection. A failed Redis write is logged and swallowed by
`RunningChatSnapshotService.save`; that fault is in `SessionStream`.

`abandoned` is observed, not part of the program: it says that an enqueue has removed a state from
the map while a drain was still writing for it. See "Divergences without a run" below; `OneWriter`,
`StoredNeverRegresses`, `QuiescentIsSaved` and `EventuallySaved` speak of behaviours in which that has
not happened.

### GroupForward

| Variable | In the program |
|---|---|
| `request`, `target` | rows of the request and of its targets: state, lease, `retryable`, delivery pending |
| `bound`, `attempt`, `journal` | manifest entries of attachments, upload checkpoint of a target, announced messages on record |
| `posted`, `carried`, `sent`, `suppressed` | what has happened to the target groups (messages inserted, attachment with them) and to their members |
| `revoked` | target groups, source group or message the user can no longer use |
| `ticket`, `refusing` | what each worker is doing and under which lease; a denied text completion still to be recorded |

Every call of the store is one transaction under the request's row lock and is one action; the
uploads, permission checks and announcements between them are actions of their own. `lease_owner` and
`fencing_version` are one column, `holder`: an owner is made for its claim and every write makes a new
version, so a ticket the row has moved past never matches again. A lease that is renewed is one that
does not lapse: the lapse of a held lease is a mishap, that of an abandoned one is free.

Restrictions: one request (rows of different requests share nothing); one attachment per target; a
request without files is a text request, completed target by target by its own HTTP handler; access
once lost stays lost; a revoked target group stands for a closed group and an archived message when
announcements are suppressed; quotas and the size budget, proofs of sources, the backend's legacy
store and the admission of requests are left out.

### TenantMirror

| Variable | In the program |
|---|---|
| `read`, `owner`, `aged` | last-delivered id of each consumer group, consumer of each pending entry, entries idle for 30 s |
| `lease`, `lock` | Redis reader lease of each stream, lock of the session |
| `input`, `answer` | committed rows: the INPUT, the answer with its last sequence number and content |
| `quarantined` | quarantined entries |
| `job` | the step of each reader or HTTP handler, the entry in its hand and the row it has read |

Each step is one statement together with the check for the next one, because a lease or a lock is
checked before the call it is to protect and can lapse before that call runs. A transaction that has
written its row and not committed blocks another writer, as the database's row lock does. One lock
stands for the schema, session and message locks, which are taken together.

Restrictions: one run of one session in sequence mode (`sourceStreamId` null, the mode of the
backend's `TenantChatMirrorService`, over HTTP as well); the streams hold the INPUT and the events
1..N from the start, their producer is not in the repository; the order by source stream id of the
gateway, conflicts of payload or context hash, and the projections of group tasks are not modelled.
The lock of a live holder lapses only by a mishap, that of a dead process (`Gone`) freely; entries age
only while they are not pending for the lease holder; `MaxMishaps` bounds the HTTP calls too.

## 3. Runs

Every run of a turn has two instances `a`, `b`. `CHECK_DEADLOCK FALSE` is in every configuration
because the modelled systems do stop: a turn that is over, or whose worker has fallen silent, a
forward that is settled and announced, streams that are read to their end have nothing left to do.

| Run | Bounds | Checks and shows |
|---|---|---|
| `turn_crash` | 3 records ending in a response, 1 crash, 2 failed Redis commands, 2 failed writes/observers | types; `AckedTerminalPersisted`; `UndisturbedAnswerComplete`; `ReleasedWhenSettled`; `RecoveryBarrier`; `AnswerNeverShrinks`; `FulfilsPromise` (refinement of `ChatTurn` with its fairness); `EventuallyReleased` |
| `turn_handoff` | 2 records ending in an error event, 1 graceful shutdown and 1 crash | `OneConsumer`, `ReleasedWhenSettled`, `RecoveryBarrier`, `FulfilsPromise` while the turn moves between instances |
| `turn_stall` | 2 records, 2 stalls or 1 stall and a renewal that throws, 1 failed write; safety only | `KeepsPromise` with a stalled owner and its successor on the same records; `UndisturbedAnswerComplete` as long as only one key lapsed |
| `stop` | 2 records, 2 stops, 1 failed Redis command, 1 failed write | types; `UnwrittenAnswerHeldByOther`; `StopSettles` |
| `batch_listener` | 4 records, batch 2, queue 2, 1 ACK retry, 2 failing batches, 2 failing ACKs | types; `OneDrain`, `ProcessedInOrder`, `NothingDropped`, `EventuallyProcessed`, `EventuallyAckedOrRegistered` |
| `write_behind` | 2 callers, 2 scheduler threads, a shutdown, 4 calls | types; `OneWriter`, `QuiescentIsSaved`, `StoredNeverRegresses`, `EventuallySaved` |
| `group_forward` | 2 targets, 2 messages, 2 workers; 1 lapsed lease, crash or denied commit; 1 retry; 1 revocation | types; `RequestStateDerived`, `ExclusiveTickets`, `PostedIsComplete`, `KeepsPromise` (refinement of `ForwardPromise`), `ForwardSettles`, `DeliverySettles` |
| `tenant_mirror` | 1 INPUT reader, 2 answer readers, 1 HTTP caller, an answer of 2 events, 2 mishaps (crash, lapsed lease or lock, lost reply, HTTP call) | types; `AcknowledgedIsKept`, `AnswerInOrder`, `AnswerOnlyGrows`, `CatchesUp` |
| `renewal_lost` | 2 records, 1 renewal that throws | `EventuallySettled` **fails** (finding 1) |
| `stop_observers` | 3 records, 1 stop, no fault | `ObserversSeeAnswer` **fails** (finding 2) |
| `watermark` | 3 records, 1 crash, 1 Redis and 1 write fault | `WatermarkCoversSnapshot` **fails** (finding 3) |
| `group_forward_attachments` | 2 targets, 1 message, 1 worker, 2 retries, no mishap | `AttachmentsComplete` **fails** (finding 4) |

Why the bounds are enough to be interesting. Two deltas and a terminal record are the least in which
a batch can fail in its middle, a page can split, an answer can have a hole that is not its end, and
a replay can meet a watermark between; two records still have a delta before the terminal one. Two
instances give an old and a new owner; a third would repeat the second's part. Two failures of a
kind allow a failure and the failure of its repair. The batch listener's four records are one full
batch in the drain and a full queue behind it, with the reader parked. Four write-behind calls let a
state be replaced while its predecessor's writer is still at work, and let an enqueue overtake a
shutdown whose drain is writing. Two target groups let one succeed while the other fails, which is
where the request's state, the retry and the manifest are hard; two workers give a fenced one and its
successor. Two answer readers give a lease holder and its successor, two events a gap and a
duplicate, and two mishaps a crash or a lapse and a second one during the recovery from it, or an
HTTP call beside it.

Properties that speak of all faults carry their own excuse. `NoListenerLost` leaves out behaviours
in which a stall or a throwing renewal took an owner's listener: there `runtime` may be deleted for a
turn that goes on (finding 1). `AnswerNeverShrinks` holds while `SnapshotsKept` does, and each
part of that is needed, as TLC shows with two instances. A failed Redis command may be the final
snapshot's, without which a replay has nothing better. A turn that ends in an error record saves no
final snapshot, so what a crash after the write leaves to rebuild from may be older than the answer.
After a handoff the new owner may rebuild from a snapshot that the closing one has not flushed yet.
And an owner that lost its listener works on beside the next one. `EventuallyReleased` leaves out turns in which a
process went down: a crash between the terminal ACK and the cleanup leaves the turn `running` until
its TTL (a hazard listed without a property). `UndisturbedAnswerComplete` speaks of contexts that
were never rebuilt: a rebuilt one may lack deltas acknowledged before their snapshot was saved. It
also leaves out a pause beyond both keys (`NoPauseBeyondBothKeys`), see "Divergences without a run".
`UnwrittenAnswerHeldByOther` and `StopSettles` hold while `FaultFree` does: no write has failed, no
owner has lost its listener, and no process has gone down, since each of these can take the write
away from the one who was to do it after the other has relied on it.

A takeover beside a stalled owner needs both its heartbeat and its lease to lapse, which are two
stalls; one stall is a pause between 120 s and 180 s, or the recovery lock's lapse under its task.
`turn_stall` allows two, and bounds itself by `OneListenerLost`: after two of them no renewal throws,
which would multiply the states by ten and only closes a listener that has lost its lease anyway.

### Fairness

Weak fairness of each thread: a virtual thread, scheduler or cleanup executor that can run does run
while its process lives, and timers fire. Recovery is one scheduled thread per instance, so its steps
are one action group; so are the steps of one record's processing. Weak fairness of keys that nobody
refreshes, because Redis expires them. Strong fairness of the recovery lock's lapse: its TTL of
120 s runs from its acquisition and is not renewed, and no task that holds it lasts for ever, but
tasks that find it taken come and go in between. Lapses that need a stall get no fairness
(`UNCHANGED faults`). In `GroupForward` each worker's steps, its claims among them, are weakly fair
(recovery is scheduled every 30 s on every instance), and so is the expiry of a lease nobody renews;
the HTTP handler that completes text gets no fairness, since its client may go away, and the workers
settle what it leaves. In `TenantMirror` readers are weakly fair while their process lives (a node
restarts its loop), leases and locks expire when mishaps or a death allow it, and the acquisition of the session lock is
strongly fair: it polls every 25 ms, while a reader that has lost an entry pauses 250 ms between
attempts. Nothing obliges the worker to append, Redis to deliver to a closed listener, a
user to stop, or a process to stop or crash. Failures are finitely many in a behaviour by the bounds.

### Findings

1. `renewal_lost`: a renewal of a lease that throws stops the listener through the path that deletes
   the runtime state. Recovery scans runtime states only, so nobody takes the turn over, although
   `byclaw-be/README.md:536` says that recovery does.
2. `stop_observers`: a stop and the terminal record pass one gate without a common lock. The loser
   returns as if the message were written and runs the observers, although
   `ChatTurnPersistenceObserver.java:3` says they run only after the message has been persisted.
3. `watermark`: `currentStreamId` is set before a record is accumulated and the write-behind reads it
   on another thread. The stored watermark can cover a delta the stored snapshot does not have,
   although `RunningChatSnapshotService.java:312` defines it as the last aggregated record.
4. `group_forward_attachments`: `freezeSources` (`group-forward-prepare.ts:576`) binds attachments
   once, for the targets that have not failed at that moment. When resolving fails and the user
   retries one target and later another, the second one is posted without its file.

### Divergences without a run

* **A stalled owner beside its successor.** After a pause of more than 180 s the old owner's polling
  goes on until its next renewal notices that the lease is gone. With its heartbeat and its lease
  lapsed, another instance has taken over and read the first records; the old owner reads the rest,
  the terminal record among them, and persists an answer without the records that went to the other
  one. TLC shows it as soon as `UndisturbedAnswerComplete` is stated without its excuse and
  `MaxStalls` is 2; nothing fences a read or a write by the lease. `KeepsPromise` holds all the same:
  the loss is in the body, not in the order of saving, observing and acknowledging.
* **Write-behind, enqueue against shutdown.** A drain that runs when `shutdown` sets its flag leaves
  its projection in `latest` and does not reschedule; the shutdown's own drain takes it. An `enqueue`
  that had passed its first check of the flag then finds `latest` and `future` null
  (`RunningChatSnapshotWriteBehind.java:73`) and removes the state from the map while it is being
  written. A terminal `flushNow` makes a new state with another lock and writes at the same time, so
  the older projection may land last. The comment at line 101 says that an enqueue must not create a
  replacement while an older write is in flight; `shutdown` reaches the same situation through the
  removal. Four calls are needed; `abandoned` marks the behaviours.
* **Mirror, temporary failures.** `LOCK_TIMEOUT` and `LOCK_LOST` are not in the list of failures that
  are tried again (`mirror-delivery.ts:47`), although its comment and
  `byclaw-tenant-node/README.md:229` say that temporary failures leave an entry pending. The lock of a
  dead holder lives up to 60 s and waiters wait 30 s, so a good event can be quarantined and those
  behind it meet a gap. The model has the path from a lock not obtained to quarantine (`LockTimeout`);
  `CatchesUp` leaves out behaviours in which something of the session was quarantined.

## 4. Proofs

### The turn

Proved for any set of instances, any number of records and any fault bounds, from the assumptions
`InstAssumption`, `NAssumption`, `KindAssumption` and `BoundsAssumption` of `SessionStream`, which say
no more than what the constants are.

* `TypeCorrect`: `Spec => []TypeOK`, one lemma per action.
* `Invariance`, `TerminalSafe`: `Spec => []AckedTerminalPersisted`. The property alone is not
  inductive: the terminal record may be in a buffer, a batch, the lock, a thread's unacknowledged
  results or the ACK timer of any instance, and its ACK may be one step away in several of them.
  `IInv` says what each place stands for. Nothing holds the record before it is appended
  (`TerminalProduced`); a taken gate means a saved answer or a lock holder about to write
  (`GateWrites`); past the write the answer is there, past the observers it is settled (`PastWrite`);
  the marker and every place from which the record can be acknowledged mean that the turn is settled
  (`AckableSettled`). Actions are grouped by what they touch (`ElsewhereSafe`, `ContextSafe`), the
  rest has a lemma each.
* `PromiseKept`: `Spec => KeepsPromise`, the refinement of `ChatTurn`. `IInv` supplies the guards: a
  step that sets `saved` happens after the end, one that sets `notified` after `saved`, one that
  acknowledges the terminal record after both; every other step stutters.
* `SingleConsumer`: `Spec => []OneConsumer`. The strengthening `LeaseOfActive` says that, as long as
  no stall has been spent, an active listener runs in a process that is up and holds the lease; two
  of them would hold one key. It needs the order in which shutdown stops polling before it gives the
  lease back, and that a failed renewal stops the listener first.

* `BarrierKept`: `Spec => RecoveryBarrier`. `PageHeld` says that, without a stall, a
  paused listener whose claim is whole has every pending record in the work or the results
  of that claim, or in its registry of failed ACKs. It rests on the single consumer (nobody else can
  read or claim meanwhile) and on the claim being started over whenever one of its records failed;
  `Resume` is then the only step that opens the listener, with the claim empty.
* `ReleaseAfterEnd`: `Spec => []ReleasedWhenSettled`. A turn is released by a cleanup, and a cleanup
  is started by the ACK of its terminal record: `TerminalRead` (the record was delivered, or is
  nowhere), `CleanupAcked` and `ReleasedAcked` make this inductive, and `TerminalSafe` gives the rest.

* `AnswerComplete`: `Spec => []UndisturbedAnswerComplete`. Two invariants. `OriginalAlone` says who
  reads: as long as at most one key has lapsed, a listener whose context was never rebuilt is alone,
  since its lease is still its own or no recovery has begun (`Alone`). `NothingMissed` says what
  becomes of what it reads (`Reached`): what precedes a queued record or one of the batch is
  accumulated or in hand itself (`QueueClosed`, `DrainClosed`), so is all a live listener has read
  (`ReadClosed`), what a repair of failed ACKs claims has been processed before (`ClaimSeen`), and the
  body is every delta up to the watermark (`BodyWhole`). A terminal record that is past the watermark test therefore finds the body whole.
* `NeverShrinks`: `Spec => AnswerNeverShrinks`. While `SnapshotsKept` holds, `OneTakeover` says that a
  recovery that holds its lock finds no listener, and that an owner has its context; `OnePlace` that
  an instance without a listener has nothing in hand, and that the terminal record is in one place of
  the one that has it, so that its first ACK leaves it `Nowhere`; `SnapshotBetween` that the answer is
  within the snapshot and the snapshot within every context somebody works with or is about to, equal
  to it once the context is past the terminal record. Only such a context writes. `Budgeted` says
  that faults are only spent, so that snapshots which are kept were kept all along.

`IInv`, `LeaseOfActive`, `PageHeld`, `OriginalAlone`, `NothingMissed`, `ShrinkInv` and the parts of
`ReleaseInv` were model-checked as invariants
before they were proved.

### The stop

`SessionStop_proofs` adds `StopsAssumption`, for any number of requests.

* `StopTypes`: `SpecStop => []StopTypeOK`. The stream's part is `TypeCorrect`'s lemmas again, since a
  step of `SpecStop` is one of the stream's or leaves most of it alone.
* `UnwrittenHeld`: `SpecStop => []UnwrittenAnswerHeldByOther`. Its inductive invariant `StopInv` says
  that, without a fault, the answer is either `InHands` (saved, or a request or lock holder is about
  to write it) or the turn is `Untouched`: no gate is taken, no marker set, no request past its gate,
  no cleanup begun, the runtime state is there, and the terminal record has not been handled
  anywhere. The gate is the only way from `Untouched` to the rest, and whoever takes it is the
  writer. `Untouched` includes `LeaseOfActive` of the single consumer, since a rebuilt context could
  otherwise come with a fresh gate, and `WithinBudget` says that faults are only ever spent, so that
  a state free of faults was reached without any.

### The listener

`StreamBatchListener_proofs` assumes only `SizesAssumption`.

* `ListenerTypes`: the types, by action.
* `SingleDrain` (`OneDrain`) follows from `DrainInv`: `draining` is set exactly while a drain slot is
  in use, and then the timer of the current generation is not still to come; the slot in use is alone.
  Cancelled timers may run at any time, so the invariant must speak of generations and not of timers.
* `InStreamOrder` (`ProcessedInOrder`) and `NoneDropped` (`NothingDropped`) follow from `OrderInv`: what is processed, the batch in hand,
  the retry batch, the queue and the record a parked reader waits with are one consecutive stretch of
  the stream, and the retry batch is empty while a batch is in hand. Without the last conjunct a
  failed suffix could be put in front of one that is already there.

### The write-behind

`SnapshotWriteBehind_proofs` assumes `ThreadsAssumption` (callers and drains are finite disjoint sets)
and `CallsAssumption`, the number of calls being any.

* `SingleWriter` (`OneWriter`): two writers would hold one state's lock, so the question is how two
  states can be written. `LockInv` ties writers to locks; `CountInv` says that a state's counter is
  the number of its flushers, which keeps it in the map while one waits; `TerminalInv` and `MapInv`
  conclude that a state a flusher waits for, or a writer writes for, is the one in the map, unless an
  enqueue abandoned it.
* `NeverRegresses` (`StoredNeverRegresses`) adds `ReadInv`, a writer's projection is no older than
  what is stored, and `CloserInv` for the shutdown.
* `TypeCorrect` (`TypeOK`): that `flushers` stays within the calls needs `CallInv`, which counts the
  callers at work, each of them with a version of its own.
* `QuiescentSaved` (`QuiescentIsSaved`): `SavedInv` adds `StateInv`, `FlushedInv` and `SaveInv`. What
  is accepted and not yet stored is queued in the map's state, or a thread at that state is on its way
  to write it (`SaveInv`); a state in the map has somebody who will still see to it, a thread, a
  scheduled drain or the shutdown's walk over the map, and one not made yet is untouched
  (`StateInv`); what a `flushNow` returned is stored (`FlushedInv`). The delicate steps are
  the three that remove a state from the map, at the end of a flush, of a drain and in an offer
  during the shutdown: each must leave nothing queued.

### The group forward

Proved for any sets of targets and workers, any number of messages and any bounds,
from `SetsAssumption`, `MessagesAssumption`, `RevocableAssumption` and `BoundsAssumption`.

* `ForwardInv` is `TypeOK`, `LeaseInv` (nothing is copied before the sources are frozen, freezing ends
  the request's own lease, one target at a time is copied under a live lease, and a ticket that still
  matches its row shows the row's state) and `StateInv` (the request's state follows from its targets
  once it exists, and nothing moves before). It gives `TypeCorrect`, `OneWorker` (`ExclusiveTickets`) and `StateDerived`
  (`RequestStateDerived`).
* `PostInv` adds `PostedOnce` (the messages are in a target group exactly when its row succeeded),
  `RecordedAfterPost`, `AnnouncingPosted` and `PostedIsComplete`. It gives `PostedComplete`.
* `PromiseKept`: `Spec => KeepsPromise`. Each action posts one target (`Posts`), refuses some
  (`Refuses`), or stutters (`Stutters`) on `ForwardPromise`; retry and announcement have their own
  cases. `PostInv` supplies the guards: what is posted was waiting, what is announced is posted.

### The tenant mirror

Proved for any readers, callers, number of events and mishaps, from `ReadersAssumption`,
`EventsAssumption` and `MirrorBounds`.

* `EntriesGiven`: whatever a job holds was given to it by its stream. `MirrorTyped` is the types.
* `MirrorInv` is `Ordered(answer)` (the content is the events 1..last), `AcknowledgedIsKept`,
  `OneCommitting` (one uncommitted row at a time) and `Faithful` for every agent: the row an agent is
  to commit extends the committed one by its event and stays so while others act, and an agent
  past its commit has its event in the database. It rests on the database (row lock, compare-and-set
  on the offset), since the lock may have lapsed. `Kept`, `InOrder` and `OnlyGrows` follow.

All strengthenings were model-checked as invariants before they were proved.

### Model-checked only

* Every liveness property, `FulfilsPromise`, `StopSettles` and `EventuallySaved` included: fairness
  and `ENABLED` are beyond the prover.

Every safety property and every action property of a passing run is proved.

No module declares a `RECURSIVE` operator.

## 5. Not modelled

Formatting, event payloads, agent output and suggestion handling of `ScriptService` are data no
property distinguishes. The components marked `not_modelled` in `PROJECT.json` are listed below in the
order in which they would be added; `byclaw-fe`, `byclaw-qa`, `deploy` and `middleware` hold no
protocol state of their own and stay out.

## 6. Plan

Done: the turn (`ChatTurn`, `SessionStream`, `SessionStop`), its two concurrent classes
(`StreamBatchListener`, `SnapshotWriteBehind`), the group forward (`ForwardPromise`, `GroupForward`),
the tenant mirror (`TenantMirror`), and the proofs above. Next, in this order:

1. `SessionLocks`: the reference-counted lock map for any number of threads, and its mutual exclusion
   as a theorem; `SessionStream` then rests on a proved component. Abstract specification: a mutex.
2. `GroupChatTurns`: queue of turns, execution coordinator, task states and timeouts, release
   events, recall. Abstract specification: one active turn per group, every accepted turn answered or
   cancelled.
3. Concurrent turns of one session in `SessionStream`: one marker for several turns, the running
   marker's separate commands, resurrection of an ended turn by `markRunning`.
4. Runs for what the models already have and the code does not prevent: an ACK ahead of its
   snapshot, a watermark that regresses after a handoff, a stop without a context over a newer
   answer, a crash between the terminal ACK and the cleanup, the write-behind's shutdown, the
   quarantine of an event whose lock was not obtained, a stalled owner that reads on.
5. The dispatch gate of `byclaw-exe` (`byai-channel/sdk-app.ts:638`), a chain of promises per session;
   `SandboxLifecycle`, the WeCom reply queue and the transactional lock, as far as they hold
   concurrent state worth a model.
6. The mirror's order by source stream id, beside sequence numbers.
7. Proofs: the invariants and refinements of 1 to 3.

## 7. Running

    tlc -config turn_crash.cfg MCSessionStream.tla
    tlc -config stop.cfg MCSessionStop.tla
    tlc -config batch_listener.cfg StreamBatchListener.tla
    tlc -config write_behind.cfg SnapshotWriteBehind.tla
    tlc -config group_forward.cfg GroupForward.tla
    tlc -config tenant_mirror.cfg TenantMirror.tla
    tlapm SessionStream_proofs.tla
    tlapm SessionStreamAnswer_proofs.tla
    tlapm SessionStop_proofs.tla
    tlapm SnapshotWriteBehind_proofs.tla
    tlapm GroupForward_proofs.tla

The runs take from a second to a minute and a half each; a proof module takes from half a minute to a
few minutes.

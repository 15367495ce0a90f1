------------------------ MODULE SnapshotWriteBehind ------------------------
(***************************************************************************)
(* RunningChatSnapshotWriteBehind for one key. enqueue leaves the latest   *)
(* projection in a PendingState and returns; a scheduled drain saves it    *)
(* under the state's write lock; flushNow supersedes what is queued and    *)
(* saves the terminal projection itself; shutdown drains what is left. A   *)
(* PendingState leaves the map when nobody needs it and the next call      *)
(* makes another one, with another write lock.                             *)
(*                                                                         *)
(* A projection is its version: a call brings the next one, and a save     *)
(* writes what the live context holds when the save reads it.              *)
(***************************************************************************)
EXTENDS Integers, FiniteSets

CONSTANTS
    Callers,    \* threads that call enqueue and flushNow
    Drains,     \* threads of the scheduler
    Closer,     \* the thread that runs shutdown
    MaxCalls,   \* bound on calls
    None

ASSUME ThreadsAssumption ==
    /\ Closer \notin Callers \union Drains /\ Callers \intersect Drains = {}
    /\ None \notin Callers \union Drains \union {Closer}
    /\ IsFiniteSet(Callers) /\ IsFiniteSet(Drains)
ASSUME CallsAssumption == MaxCalls \in Nat

Threads == Callers \union Drains \union {Closer}
States == 1..(2 * MaxCalls)     \* a call makes one, or one more when it must retry
NoState == 0

VARIABLES
    version,    \* projection in the live context
    states,     \* the map's entry of the key
    made,       \* PendingStates made so far
    pending,    \* each PendingState
    thread,     \* each thread: where it is, its PendingState, the projection it has read
    shuttingDown,
    stored,     \* version in Redis
    accepted,   \* version an enqueue last left to be saved (observed only)
    flushed,    \* version a flushNow last promised (observed only)
    abandoned   \* has a PendingState been removed under a write? (observed only)

saved == <<stored, accepted, flushed, abandoned>>
vars == <<version, states, made, pending, thread, shuttingDown, saved>>

Fresh == [latest |-> FALSE, future |-> "none", terminal |-> FALSE, flushers |-> 0, writer |-> None]
Idle == [pc |-> "idle", state |-> NoState, read |-> 0]

Init ==
    /\ version = 0 /\ states = NoState /\ made = 0
    /\ pending = [s \in States |-> Fresh]
    /\ thread = [t \in Threads |-> Idle]
    /\ shuttingDown = FALSE
    /\ stored = 0 /\ accepted = 0 /\ flushed = 0 /\ abandoned = FALSE

Goto(t, pc) == thread' = [thread EXCEPT ![t].pc = pc]
Return(t) == thread' = [thread EXCEPT ![t] = Idle]
Mine(t) == pending[thread[t].state]

Writing(t) == thread[t].pc \in {"flushBuild", "flushWrite", "drainBuild", "drainWrite"}
Written(s) == \E t \in Threads : thread[t].state = s /\ Writing(t)

-----------------------------------------------------------------------------
\* A call: enqueue returns at once when the process shuts down, flushNow does not.
Enqueue(c) ==
    /\ thread[c].pc = "idle" /\ version < MaxCalls /\ ~shuttingDown
    /\ version' = version + 1 /\ Goto(c, "enqueue")
    /\ UNCHANGED <<states, made, pending, shuttingDown, saved>>

FlushNow(c) ==
    /\ thread[c].pc = "idle" /\ version < MaxCalls
    /\ version' = version + 1 /\ Goto(c, "flush")
    /\ UNCHANGED <<states, made, pending, shuttingDown, saved>>

\* states.computeIfAbsent, at the head of both loops.
GetState(c) ==
    /\ thread[c].pc \in {"enqueue", "flush"} /\ made < 2 * MaxCalls
    /\ LET s == IF states = NoState THEN made + 1 ELSE states IN
       /\ states' = s
       /\ made' = IF states = NoState THEN made + 1 ELSE made
       /\ thread' = [thread EXCEPT ![c].state = s,
                                   ![c].pc = IF @ = "enqueue" THEN "offer" ELSE "supersede"]
    /\ UNCHANGED <<version, pending, shuttingDown, saved>>

\* enqueue's critical section.
Offer(c) ==
    LET s == thread[c].state IN
    /\ thread[c].pc = "offer"
    /\ IF pending[s].terminal
       THEN Return(c) /\ UNCHANGED <<states, pending, accepted, abandoned>>
       ELSE IF states # s
       THEN Goto(c, "enqueue") /\ UNCHANGED <<states, pending, accepted, abandoned>>
       ELSE /\ Return(c)
            /\ IF shuttingDown
               THEN /\ IF ~pending[s].latest /\ pending[s].future = "none"
                       THEN states' = NoState /\ abandoned' = (abandoned \/ Written(s))
                       ELSE UNCHANGED <<states, abandoned>>
                    /\ UNCHANGED <<pending, accepted>>
               ELSE /\ pending' = [pending EXCEPT ![s].latest = TRUE,
                                      ![s].future = IF @ = "none" THEN "scheduled" ELSE @]
                    /\ accepted' = version
                    /\ UNCHANGED <<states, abandoned>>
    /\ UNCHANGED <<version, made, shuttingDown, stored, flushed>>

\* Mutant: the flusher is not counted.
SupersedeUncounted(c) ==
    LET s == thread[c].state IN
    /\ thread[c].pc = "supersede" /\ states = s
    /\ pending' = [pending EXCEPT ![s].terminal = TRUE, ![s].future = "none", ![s].latest = FALSE]
    /\ Goto(c, "flushLock")
    /\ UNCHANGED <<version, states, made, shuttingDown, saved>>

\* flushNow's critical section. A drain that runs already is not stopped.
Supersede(c) ==
    LET s == thread[c].state IN
    /\ thread[c].pc = "supersede"
    /\ IF states # s
       THEN Goto(c, "flush") /\ UNCHANGED pending
       ELSE /\ pending' = [pending EXCEPT ![s].terminal = TRUE, ![s].flushers = @ + 1,
                                          ![s].future = "none", ![s].latest = FALSE]
            /\ Goto(c, "flushLock")
    /\ UNCHANGED <<version, states, made, shuttingDown, saved>>

\* Mutant: no lock is waited for.
LockUnchecked(t) ==
    /\ thread[t].pc \in {"flushLock", "drainLock"}
    /\ pending' = [pending EXCEPT ![thread[t].state].writer = t]
    /\ Goto(t, IF thread[t].pc = "flushLock" THEN "flushBuild" ELSE "drainCheck")
    /\ UNCHANGED <<version, states, made, shuttingDown, saved>>

\* writeLock.lock(), for who writes next.
Lock(t) ==
    /\ thread[t].pc \in {"flushLock", "drainLock"} /\ Mine(t).writer = None
    /\ pending' = [pending EXCEPT ![thread[t].state].writer = t]
    /\ Goto(t, IF thread[t].pc = "flushLock" THEN "flushBuild" ELSE "drainCheck")
    /\ UNCHANGED <<version, states, made, shuttingDown, saved>>

\* snapshotService.save: the projection is built, then written.
Build(t) ==
    /\ thread[t].pc \in {"flushBuild", "drainBuild"}
    /\ thread' = [thread EXCEPT ![t].read = version,
                                ![t].pc = IF @ = "flushBuild" THEN "flushWrite" ELSE "drainWrite"]
    /\ UNCHANGED <<version, states, made, pending, shuttingDown, saved>>

Write(t) ==
    /\ thread[t].pc \in {"flushWrite", "drainWrite"}
    /\ stored' = thread[t].read
    /\ Goto(t, IF thread[t].pc = "flushWrite" THEN "flushEnd" ELSE "drainEnd")
    /\ UNCHANGED <<version, states, made, pending, shuttingDown, accepted, flushed, abandoned>>

\* Mutant: the first flusher that ends removes the state.
FlushEndRemoving(c) ==
    LET s == thread[c].state IN
    /\ thread[c].pc = "flushEnd"
    /\ pending' = [pending EXCEPT ![s].flushers = @ - 1, ![s].writer = None]
    /\ states' = IF states = s THEN NoState ELSE states
    /\ flushed' = thread[c].read
    /\ Return(c)
    /\ UNCHANGED <<version, made, shuttingDown, stored, accepted, abandoned>>

\* The last of a state's flushers removes it.
FlushEnd(c) ==
    LET s == thread[c].state  left == pending[s].flushers - 1 IN
    /\ thread[c].pc = "flushEnd"
    /\ pending' = [pending EXCEPT ![s].flushers = left, ![s].writer = None]
    /\ states' = IF left = 0 /\ states = s THEN NoState ELSE states
    /\ flushed' = thread[c].read
    /\ Return(c)
    /\ UNCHANGED <<version, made, shuttingDown, stored, accepted, abandoned>>

-----------------------------------------------------------------------------
\* The scheduler runs a state's drain.
Run(d) ==
    /\ thread[d].pc = "idle"
    /\ \E s \in States :
          /\ pending[s].future = "scheduled"
          /\ pending' = [pending EXCEPT ![s].future = "running"]
          /\ thread' = [thread EXCEPT ![d] = [pc |-> "drainLock", state |-> s, read |-> 0]]
    /\ UNCHANGED <<version, states, made, shuttingDown, saved>>

\* drain's first critical section: nothing to do for a state that is gone or terminal.
DrainCheck(d) ==
    LET s == thread[d].state IN
    /\ thread[d].pc = "drainCheck"
    /\ IF states # s \/ pending[s].terminal
       THEN /\ pending' = [pending EXCEPT ![s].writer = None]
            /\ Return(d)
       ELSE /\ pending' = [pending EXCEPT ![s].latest = FALSE]
            /\ Goto(d, IF pending[s].latest THEN "drainBuild" ELSE "drainEnd")
    /\ UNCHANGED <<version, states, made, shuttingDown, saved>>

\* Mutant: what came while the drain was saving waits for the next call.
DrainEndOnce(d) ==
    LET s == thread[d].state IN
    /\ thread[d].pc = "drainEnd"
    /\ pending' = [pending EXCEPT ![s].writer = None, ![s].future = "none"]
    /\ states' = IF ~pending[s].latest /\ pending[s].flushers = 0 /\ states = s
                 THEN NoState ELSE states
    /\ Return(d)
    /\ UNCHANGED <<version, made, shuttingDown, saved>>

\* drain's last critical section: remove the state, or run again for what came meanwhile.
DrainEnd(d) ==
    LET s == thread[d].state
        over == ~pending[s].latest /\ pending[s].flushers = 0
        again == ~over /\ ~pending[s].terminal /\ ~shuttingDown
    IN
    /\ thread[d].pc = "drainEnd"
    /\ pending' = [pending EXCEPT ![s].writer = None,
                                  ![s].future = IF again THEN "scheduled" ELSE "none"]
    /\ states' = IF over /\ states = s THEN NoState ELSE states
    /\ Return(d)
    /\ UNCHANGED <<version, made, shuttingDown, saved>>

\* PreDestroy: from here on nothing is scheduled ...
Shutdown ==
    /\ ~shuttingDown /\ shuttingDown' = TRUE
    /\ Goto(Closer, "closing")
    /\ UNCHANGED <<version, states, made, pending, saved>>

\* Mutant: shutdown cancels the scheduled drain and runs none itself.
ShutdownCancels ==
    /\ thread[Closer].pc = "closing"
    /\ pending' = IF states = NoState THEN pending
                  ELSE [pending EXCEPT ![states].future = IF @ = "scheduled" THEN "cancelled" ELSE @]
    /\ Return(Closer)
    /\ UNCHANGED <<version, states, made, shuttingDown, saved>>

\* ... and the key's state, when the map has one, is drained by the closer.
ShutdownState ==
    /\ thread[Closer].pc = "closing"
    /\ IF states = NoState
       THEN Return(Closer) /\ UNCHANGED pending
       ELSE /\ pending' = [pending EXCEPT ![states].future = IF @ = "scheduled" THEN "cancelled" ELSE @]
            /\ thread' = [thread EXCEPT ![Closer] = [pc |-> "drainLock", state |-> states, read |-> 0]]
    /\ UNCHANGED <<version, states, made, shuttingDown, saved>>

CallerStep(c) == GetState(c) \/ Offer(c) \/ Supersede(c) \/ FlushEnd(c)
DrainStep(d) == DrainCheck(d) \/ DrainEnd(d)
WriterStep(t) == Lock(t) \/ Build(t) \/ Write(t)

Next ==
    \/ Shutdown \/ ShutdownState
    \/ \E c \in Callers : Enqueue(c) \/ FlushNow(c) \/ CallerStep(c)
    \/ \E d \in Drains : Run(d)
    \/ \E d \in Drains \union {Closer} : DrainStep(d)
    \/ \E t \in Threads : WriterStep(t)

Spec == Init /\ [][Next]_vars

\* Threads run and the scheduler has one for every drain; write locks are fair.
Fairness ==
    /\ \A c \in Callers : WF_vars(CallerStep(c))
    /\ \A d \in Drains : WF_vars(Run(d))
    /\ \A d \in Drains \union {Closer} : WF_vars(DrainStep(d))
    /\ \A t \in Threads : WF_vars(Lock(t)) /\ WF_vars(Build(t) \/ Write(t))
    /\ WF_vars(ShutdownState)

FairSpec == Spec /\ Fairness

-----------------------------------------------------------------------------
(* Properties.                                                             *)

\* Type invariant of the write-behind.
TypeOK ==
    /\ version \in 0..MaxCalls /\ stored \in 0..version
    /\ accepted \in 0..version /\ flushed \in 0..version
    /\ states \in States \union {NoState} /\ made \in 0..(2 * MaxCalls)
    /\ pending \in [States -> [latest : BOOLEAN, terminal : BOOLEAN,
                               future : {"none", "scheduled", "running", "cancelled"},
                               flushers : 0..MaxCalls, writer : Threads \union {None}]]
    /\ thread \in [Threads -> [pc : {"idle", "enqueue", "flush", "offer", "supersede",
                                     "flushLock", "flushBuild", "flushWrite", "flushEnd",
                                     "drainLock", "drainCheck", "drainBuild", "drainWrite",
                                     "drainEnd", "closing"},
                               state : States \union {NoState}, read : 0..version]]
    /\ shuttingDown \in BOOLEAN /\ abandoned \in BOOLEAN

\* The key's projections are written one at a time, although each PendingState
\* brings a write lock of its own: "Enqueue must not create a replacement while
\* an older Redis write or the terminal write is still in flight." The code
\* does so in one case, which abandoned tells: an enqueue that passed its first
\* check before the shutdown removes the state the shutdown is saving.
OneWriter == ~abandoned => \A t, u \in Threads : Writing(t) /\ Writing(u) => t = u

\* README: a terminal write waits for the older one and overrides it. No write
\* ever replaces a projection by an older one.
StoredNeverRegresses == [][~abandoned => stored <= stored']_stored

\* When no thread is at work and no drain is scheduled, Redis has what the last
\* accepted enqueue left, also across a shutdown, and the map holds nothing.
QuiescentIsSaved ==
    ~abandoned /\ (\A t \in Threads : thread[t].pc = "idle")
    /\ (\A s \in States : pending[s].future # "scheduled") =>
        stored >= accepted /\ stored >= flushed /\ states = NoState

\* What enqueue accepted is eventually in Redis.
EventuallySaved == \A v \in 1..MaxCalls : (accepted >= v) ~> (stored >= v \/ abandoned)
=============================================================================

---------------------------- MODULE TenantMirror ----------------------------
(***************************************************************************)
(* The tenant node mirrors a chat turn into the tenant's database: the     *)
(* user's INPUT, then the events of the answer, numbered from 1, of which  *)
(* the last is its terminal. Readers take them from two Redis streams, one *)
(* entry at a time and under one lease per stream; the back end may also   *)
(* hand an event in by HTTP. Every event is applied in a transaction under *)
(* the session's lock, and a stream's entry is acknowledged after it.      *)
(*                                                                         *)
(* Leases and locks are checked before the call they are to protect, and   *)
(* can lapse before that call is executed: a step here is one statement    *)
(* and the check for the next one.                                         *)
(***************************************************************************)
EXTENDS Naturals, Sequences

CONSTANTS
    InputReaders, AnswerReaders,    \* the consumers of either stream
    Callers,                        \* HTTP handlers
    NumEvents,                      \* the events of the answer, the terminal included
    None, Gone, Done,               \* no reader; a process that is no more; acknowledged
    MaxMishaps                      \* bound on faults and on HTTP requests

Readers == InputReaders \cup AnswerReaders
Agents == Readers \cup Callers
Streams == {"input", "answer"}

ASSUME ReadersAssumption ==
    /\ InputReaders \cap AnswerReaders = {} /\ Readers \cap Callers = {}
    /\ {None, Gone, Done} \cap Agents = {}
    /\ None # Gone /\ None # Done /\ Gone # Done
ASSUME EventsAssumption == NumEvents \in Nat \ {0}
ASSUME MirrorBounds == MaxMishaps \in Nat

VARIABLES
    read,           \* how many of its entries each stream's group was given
    owner,          \* the consumer each entry is pending for, or Done
    aged,           \* the entries pending for at least 30 s
    lease,          \* each stream's reader lease
    lock,           \* the session's lock
    input,          \* whether the INPUT is in the database
    answer,         \* the answer's row: its last event and its content
    quarantined,    \* the entries in quarantine
    job,            \* what each agent is doing
    mishaps

streams == <<read, owner, aged>>
database == <<input, answer>>
vars == <<streams, lease, lock, database, quarantined, job, mishaps>>

Input == 0
Events == 0..NumEvents
Entries == 1..NumEvents
StreamOf(r) == IF r \in InputReaders THEN "input" ELSE "answer"

Free == [step |-> "idle", at |-> 0, event |-> 0, row |-> [last |-> 0, content |-> <<>>]]
ToApply(i, e) == [step |-> "locking", at |-> i, event |-> e, row |-> Free.row]

\* The streams' entries; a node that starts reads them from the start.
Size(s) == IF s = "input" THEN 1 ELSE NumEvents
EventAt(s, i) == IF s = "input" THEN Input ELSE i

Init ==
    /\ read = [s \in Streams |-> 0]
    /\ owner = [s \in Streams |-> [i \in Entries |-> None]]
    /\ aged = [s \in Streams |-> {}]
    /\ lease = [s \in Streams |-> None] /\ lock = None
    /\ input = FALSE /\ answer = [last |-> 0, content |-> <<>>]
    /\ quarantined = [s \in Streams |-> {}]
    /\ job = [g \in Agents |-> Free]
    /\ mishaps = 0

Mishap == mishaps < MaxMishaps /\ mishaps' = mishaps + 1
At(g, step) == job' = [job EXCEPT ![g].step = step]
Quit(g) == job' = [job EXCEPT ![g] = Free]

---------------------------------------------------------------------------
\* A reader's loop: the lease, the oldest pending entry, else a new one.
Acquire(r) ==
    /\ job[r].step = "idle" /\ lease[StreamOf(r)] \in {None, r}
    /\ lease' = [lease EXCEPT ![StreamOf(r)] = r]
    /\ At(r, "looking")
    /\ UNCHANGED <<streams, lock, database, quarantined, mishaps>>

Pending(s) == {i \in Entries : owner[s][i] \notin {None, Done}}
Oldest(S, i) == i \in S /\ \A j \in S : i <= j

\* pending: what the oldest pending entry asks for.
Look(r) ==
    LET s == StreamOf(r) IN
    /\ job[r].step = "looking"
    /\ \/ Pending(s) = {} /\ At(r, "reading")
       \/ \E i \in Entries :
             /\ Oldest(Pending(s), i)
             /\ \/ owner[s][i] = r /\ At(r, "rereading")
                \/ owner[s][i] # r /\ i \in aged[s] /\ At(r, "claiming")
                \/ owner[s][i] # r /\ i \notin aged[s] /\ Quit(r)
    /\ UNCHANGED <<streams, lease, lock, database, quarantined, mishaps>>

\* Mutant: entries of another consumer are never claimed.
FetchableOwn(r, i) ==
    LET s == StreamOf(r) IN
    \/ job[r].step = "reading" /\ i = read[s] + 1 /\ i <= Size(s)
    \/ job[r].step = "rereading" /\ Oldest({j \in Pending(s) : owner[s][j] = r}, i)

\* Mutant: the group is given one entry more than there is.
FetchablePast(r, i) ==
    LET s == StreamOf(r) IN
    \/ job[r].step = "reading" /\ i = read[s] + 1 /\ read[s] <= Size(s)
    \/ job[r].step = "rereading" /\ Oldest({j \in Pending(s) : owner[s][j] = r}, i)
    \/ job[r].step = "claiming" /\ Oldest(Pending(s) \cap aged[s], i)

\* XREADGROUP of the next entry or of the reader's own, XAUTOCLAIM of an aged one.
Fetchable(r, i) ==
    LET s == StreamOf(r) IN
    \/ job[r].step = "reading" /\ i = read[s] + 1 /\ i <= Size(s)
    \/ job[r].step = "rereading" /\ Oldest({j \in Pending(s) : owner[s][j] = r}, i)
    \/ job[r].step = "claiming" /\ Oldest(Pending(s) \cap aged[s], i)

Fetch(r, i) ==
    LET s == StreamOf(r) IN
    /\ Fetchable(r, i)
    /\ read' = [read EXCEPT ![s] = IF i > @ THEN i ELSE @]
    /\ owner' = [owner EXCEPT ![s][i] = r]
    /\ aged' = [aged EXCEPT ![s] = @ \ {i}]
    /\ job' = [job EXCEPT ![r] = ToApply(i, EventAt(s, i))]
    /\ UNCHANGED <<lease, lock, database, quarantined, mishaps>>

\* Nothing to fetch (any more): the next round.
FetchNothing(r) ==
    /\ job[r].step \in {"reading", "rereading", "claiming"} /\ ~\E i \in Entries : Fetchable(r, i)
    /\ Quit(r)
    /\ UNCHANGED <<streams, lease, lock, database, quarantined, mishaps>>

\* POST /internal/v1/chat/mirror.
Call(c, e) ==
    /\ job[c].step = "idle" /\ Mishap
    /\ job' = [job EXCEPT ![c] = ToApply(0, e)]
    /\ UNCHANGED <<streams, lease, lock, database, quarantined>>

---------------------------------------------------------------------------
\* The transaction of MirrorService.apply.
TakeLock(g) ==
    /\ job[g].step = "locking" /\ lock = None /\ lock' = g
    /\ At(g, "locked")
    /\ UNCHANGED <<streams, lease, database, quarantined, mishaps>>

Unlock(g) == lock' = IF lock = g THEN None ELSE lock

\* An error that may pass leaves the entry pending; any other one rejects it.
Leave(g) == Quit(g) /\ Unlock(g)
Reject(g) == Unlock(g) /\ IF g \in Readers THEN At(g, "rejecting") ELSE Quit(g)

\* LOCK_TIMEOUT: not among the errors that may pass.
LockTimeout(g) ==
    /\ job[g].step = "locking" /\ lock # None
    /\ Reject(g)
    /\ Mishap
    /\ UNCHANGED <<streams, lease, database, quarantined>>

Holds(g) == lock = g
\* beforeCommit: a reader must still have its stream's lease.
Guarded(g) == g \in Readers => lease[StreamOf(g)] = g

\* Mutant: an event that does not follow the last one counts as an old one.
OldUnlessNext(e) ==
    IF e = Input THEN input ELSE input /\ e # answer.last + 1

\* input, reduceAnswer: the event was applied before.
Old(e) ==
    IF e = Input THEN input ELSE input /\ e <= answer.last

\* Mutant: gaps are not noticed.
NewAhead(e) ==
    IF e = Input THEN ~input ELSE input /\ e > answer.last

\* Mutant: only a repetition of the last event is recognised.
NewUnlessLast(e) ==
    IF e = Input THEN ~input ELSE input /\ e # answer.last

\* reduceAnswer: the event that follows the last one.
New(e) ==
    IF e = Input THEN ~input ELSE input /\ e = answer.last + 1

\* Reads the rows; LOCK_LOST is found out by the check for the next statement.
ReadRows(g) ==
    LET e == job[g].event IN
    /\ job[g].step = "locked"
    /\ \/ /\ Holds(g) /\ New(e)
          /\ job' = [job EXCEPT ![g].step = "saving", ![g].row = answer]
          /\ UNCHANGED lock
       \/ Holds(g) /\ Old(e) /\ Guarded(g) /\ Unlock(g) /\ At(g, "ack")
       \/ ~Holds(g) /\ Reject(g)
       \* INPUT_NOT_COMMITTED, MIRROR_SEQUENCE_GAP, CONSUMER_LEASE_LOST
       \/ ~New(e) /\ (Old(e) => ~Guarded(g)) /\ Leave(g)
    /\ UNCHANGED <<streams, lease, database, quarantined, mishaps>>

\* RESOURCE_NOT_ACCESSIBLE: the user has lost the session meanwhile.
DenyInput(g) ==
    /\ job[g].step = "locked" /\ job[g].event = Input /\ ~input
    /\ Reject(g)
    /\ Mishap
    /\ UNCHANGED <<streams, lease, database, quarantined>>

\* The version of the row is still the one that was read; for a new row, its
\* key is still free.
UnchangedSince(g) == IF job[g].event = Input THEN ~input ELSE answer = job[g].row

\* saveAnswer, insertInput: another transaction's uncommitted row is waited for.
Save(g) ==
    LET e == job[g].event IN
    /\ job[g].step = "saving"
    /\ \A h \in Agents \ {g} :
          job[h].step = "committing" => (job[h].event = Input) # (e = Input)
    /\ \/ /\ UnchangedSince(g) /\ Holds(g) /\ Guarded(g)
          /\ job' = [job EXCEPT ![g].step = "committing",
                                ![g].row = [last |-> e, content |-> Append(@.content, e)]]
          /\ UNCHANGED lock
       \/ ~Holds(g) /\ Reject(g)
       \/ (~UnchangedSince(g) \/ ~Guarded(g)) /\ Leave(g)
    /\ UNCHANGED <<streams, lease, database, quarantined, mishaps>>

Written(g) ==
    IF job[g].event = Input THEN input' = TRUE /\ UNCHANGED answer
    ELSE answer' = job[g].row /\ UNCHANGED input

\* The commit, and the check after it.
Commit(g) ==
    /\ job[g].step = "committing"
    /\ Written(g)
    /\ IF Holds(g) THEN At(g, "ack") /\ Unlock(g) ELSE Leave(g)
    /\ UNCHANGED <<streams, lease, quarantined, mishaps>>

\* COMMIT_UNCERTAIN: the reply to the commit is lost.
CommitUncertain(g) ==
    /\ job[g].step = "committing" /\ Mishap
    /\ Written(g) \/ UNCHANGED database
    /\ Leave(g)
    /\ UNCHANGED <<streams, lease, quarantined>>

---------------------------------------------------------------------------
\* XACK is by entry: it counts whoever the entry is pending for.
Acknowledge(g) ==
    LET s == StreamOf(g) IN
    /\ job[g].step = "ack"
    /\ IF g \in Readers
       THEN /\ owner' = [owner EXCEPT ![s][job[g].at] = Done]
            /\ aged' = [aged EXCEPT ![s] = @ \ {job[g].at}]
       ELSE UNCHANGED <<owner, aged>>
    /\ Quit(g)
    /\ UNCHANGED <<read, lease, lock, database, quarantined, mishaps>>

\* The quarantine's script adds the reference and acknowledges.
Quarantine(r) ==
    LET s == StreamOf(r) IN
    /\ job[r].step = "rejecting"
    /\ quarantined' = [quarantined EXCEPT ![s] = @ \cup {job[r].at}]
    /\ owner' = [owner EXCEPT ![s][job[r].at] = Done]
    /\ aged' = [aged EXCEPT ![s] = @ \ {job[r].at}]
    /\ Quit(r)
    /\ UNCHANGED <<read, lease, lock, database, mishaps>>

\* Redis does not answer: the loop's catch, or process, leaves the entry pending.
Unanswered(r) ==
    /\ job[r].step \in {"ack", "rejecting", "looking", "reading", "rereading", "claiming"}
    /\ Mishap
    /\ Quit(r)
    /\ UNCHANGED <<streams, lease, lock, database, quarantined>>

---------------------------------------------------------------------------
Renamed(x, r) == IF x = r THEN Gone ELSE x

\* A reader dies and is started again, under a name of its own: what is pending
\* for it, its lease and its lock stay behind.
Crash(r) ==
    LET s == StreamOf(r) IN
    /\ Mishap
    /\ owner' = [owner EXCEPT ![s] = [i \in Entries |-> Renamed(@[i], r)]]
    /\ lease' = [lease EXCEPT ![s] = Renamed(@, r)]
    /\ lock' = Renamed(lock, r)
    /\ Quit(r)
    /\ UNCHANGED <<read, aged, database, quarantined>>

\* stop: the loop has ended and the lease is released.
Stop(r) ==
    LET s == StreamOf(r) IN
    /\ job[r].step = "idle" /\ Mishap
    /\ owner' = [owner EXCEPT ![s] = [i \in Entries |-> Renamed(@[i], r)]]
    /\ lease' = [lease EXCEPT ![s] = IF @ = r THEN None ELSE @]
    /\ UNCHANGED <<read, aged, lock, database, quarantined, job>>

\* A lease and a lock lapse: those of a process that is gone in time, others
\* by a mishap (renewed too late).
ExpireLease(s) ==
    /\ lease[s] # None
    /\ IF lease[s] = Gone THEN UNCHANGED mishaps ELSE Mishap
    /\ lease' = [lease EXCEPT ![s] = None]
    /\ UNCHANGED <<streams, lock, database, quarantined, job>>

ExpireLock ==
    /\ lock # None
    /\ IF lock = Gone THEN UNCHANGED mishaps ELSE Mishap
    /\ lock' = None
    /\ UNCHANGED <<streams, lease, database, quarantined, job>>

\* 30 s since an entry was delivered; of interest to a reader it is not pending for.
Age(s) ==
    /\ \E i \in Pending(s) \ aged[s] :
          owner[s][i] # lease[s] /\ aged' = [aged EXCEPT ![s] = @ \cup {i}]
    /\ UNCHANGED <<read, owner, lease, lock, database, quarantined, job, mishaps>>

---------------------------------------------------------------------------
Apply(g) ==
    TakeLock(g) \/ ReadRows(g) \/ Save(g) \/ Commit(g) \/ Acknowledge(g)
Loop(r) ==
    \/ Acquire(r) \/ Look(r) \/ FetchNothing(r) \/ Quarantine(r) \/ Apply(r)
    \/ \E i \in Entries : Fetch(r, i)
Fault ==
    \/ \E g \in Agents : LockTimeout(g) \/ DenyInput(g) \/ CommitUncertain(g)
    \/ \E r \in Readers : Unanswered(r) \/ Crash(r) \/ Stop(r)
Lapse == ExpireLock \/ \E s \in Streams : ExpireLease(s) \/ Age(s)

Next ==
    \/ \E r \in Readers : Loop(r)
    \/ \E c \in Callers : Apply(c) \/ \E e \in Events : Call(c, e)
    \/ Fault \/ Lapse

Spec == Init /\ [][Next]_vars

\* The loops go on, the lock is asked for every 25 ms while a reader pauses for
\* 250 ms between two attempts, and what a dead process held expires.
Fairness ==
    /\ \A r \in Readers : WF_vars(Loop(r))
    /\ \A c \in Callers : WF_vars(Apply(c))
    /\ \A g \in Agents : SF_vars(TakeLock(g))
    /\ WF_vars(ExpireLock) /\ \A s \in Streams : WF_vars(ExpireLease(s)) /\ WF_vars(Age(s))
FairSpec == Spec /\ Fairness

---------------------------------------------------------------------------
Rows == [last : Events, content : Seq(Events)]
Jobs == [step : {"idle", "looking", "reading", "rereading", "claiming", "locking", "locked",
                 "saving", "committing", "ack", "rejecting"},
         at : 0..NumEvents, event : Events, row : Rows]

\* An entry is pending or acknowledged once the group was given it.
StreamsOK ==
    /\ read \in [Streams -> 0..NumEvents]
    /\ owner \in [Streams -> [Entries -> Readers \cup {None, Gone, Done}]]
    /\ aged \in [Streams -> SUBSET Entries] /\ quarantined \in [Streams -> SUBSET Entries]
    /\ \A s \in Streams : read[s] <= Size(s)
    /\ \A s \in Streams, i \in Entries : owner[s][i] # None <=> i <= read[s]

\* A reader's event is the one of its entry.
JobsOK ==
    /\ job \in [Agents -> Jobs]
    /\ \A r \in Readers : job[r].at # 0 => job[r].event = EventAt(StreamOf(r), job[r].at)

\* The type invariant.
TypeOK ==
    /\ StreamsOK /\ JobsOK
    /\ lease \in [Streams -> Readers \cup {None, Gone}] /\ lock \in Agents \cup {None, Gone}
    /\ input \in BOOLEAN /\ answer \in Rows

\* What is acknowledged is in the database or in quarantine, whichever reader
\* acknowledged it and whatever it had lost by then.
Applied(e) == IF e = Input THEN input ELSE e <= answer.last
AcknowledgedIsKept ==
    \A s \in Streams, i \in Entries :
        owner[s][i] = Done => Applied(EventAt(s, i)) \/ i \in quarantined[s]

\* The answer consists of its events, in order, each of them once.
AnswerInOrder == answer.content = [i \in 1..answer.last |-> i]

\* A transaction that was overtaken never sets the answer back, and a terminal
\* answer stays.
AnswerOnlyGrows == [][answer'.last >= answer.last /\ (input => input')]_vars

\* The mirror keeps up with its streams as long as nothing of the session went
\* into quarantine: an event that did leaves a gap nothing fills.
CatchesUp ==
    \A s \in Streams, i \in Entries :
        i <= Size(s) => <>(owner[s][i] = Done \/ \E q \in Streams : quarantined[q] # {})
=============================================================================

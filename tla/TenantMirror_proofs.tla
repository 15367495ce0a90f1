------------------------ MODULE TenantMirror_proofs ------------------------
(***************************************************************************)
(* TenantMirror for any readers, callers, number of events and mishaps.    *)
(***************************************************************************)
EXTENDS TenantMirror, TLAPS

LEMMA NumbersTyped ==
    /\ NumEvents \in Nat /\ NumEvents >= 1 /\ 0 \in 0..NumEvents /\ Input \in Events
    /\ \A s \in Streams : Size(s) \in 1..NumEvents
    /\ \A s \in Streams, i \in Entries : EventAt(s, i) \in Events
    /\ \A r \in Readers : StreamOf(r) \in Streams
BY EventsAssumption DEF Input, Events, Entries, Size, EventAt, StreamOf, Streams

LEMMA FreeTyped == Free \in Jobs /\ Free.step = "idle" /\ Free.at = 0 /\ Free.event = 0
<1>1. <<>> \in Seq(Events)
  OBVIOUS
<1> QED  BY <1>1, NumbersTyped DEF Free, Jobs, Rows, Events

Steps == {"idle", "looking", "reading", "rereading", "claiming", "locking", "locked",
          "saving", "committing", "ack", "rejecting"}

\* What the two ends of a step make of a job.
LEMMA AtTyped ==
    ASSUME JobsOK, NEW g \in Agents, NEW step \in Steps, At(g, step)
    PROVE  /\ JobsOK'
           /\ job'[g].step = step /\ job'[g].at = job[g].at
           /\ job'[g].event = job[g].event /\ job'[g].row = job[g].row
           /\ \A h \in Agents \ {g} : job'[h] = job[h]
BY DEF JobsOK, Jobs, At, Steps, Readers, Agents

LEMMA QuitTyped ==
    ASSUME JobsOK, NEW g \in Agents, Quit(g)
    PROVE  /\ JobsOK' /\ job'[g] = Free
           /\ \A h \in Agents \ {g} : job'[h] = job[h]
BY FreeTyped DEF JobsOK, Quit, Readers, Agents

LEMMA UnlockTyped ==
    ASSUME lock \in Agents \cup {None, Gone}, NEW g, Unlock(g)
    PROVE  lock' \in Agents \cup {None, Gone}
BY DEF Unlock

\* Entries: only a delivery, an acknowledgement or a death changes them.
LEMMA StreamsKept ==
    ASSUME StreamsOK, UNCHANGED streams, quarantined' = quarantined
    PROVE  StreamsOK'
BY DEF StreamsOK, streams

LEMMA EndedTyped ==
    ASSUME StreamsOK, NEW s \in Streams, NEW i \in Entries, owner[s][i] # None,
           owner' = [owner EXCEPT ![s][i] = Done], aged' = [aged EXCEPT ![s] = @ \ {i}],
           read' = read,
           quarantined' \in [Streams -> SUBSET Entries]
    PROVE  StreamsOK'
BY ReadersAssumption DEF StreamsOK

LEMMA RenamedTyped ==
    ASSUME StreamsOK, NEW r \in Readers, NEW s \in Streams,
           owner' = [owner EXCEPT ![s] = [i \in Entries |-> Renamed(@[i], r)]],
           UNCHANGED <<read, aged, quarantined>>
    PROVE  StreamsOK'
<1>1. \A x \in Readers \cup {None, Gone, Done} :
         /\ Renamed(x, r) \in Readers \cup {None, Gone, Done}
         /\ Renamed(x, r) # None <=> x # None
         /\ Renamed(x, r) = Done <=> x = Done
  BY ReadersAssumption DEF Renamed, Agents
<1>2. \A i \in Entries : owner'[s][i] = Renamed(owner[s][i], r)
  BY DEF StreamsOK
<1>3. \A q \in Streams \ {s} : owner'[q] = owner[q]
  BY DEF StreamsOK
<1> QED  BY <1>1, <1>2, <1>3 DEF StreamsOK

(***************************************************************************)
(* Types, and the entry a reader works on: one its stream's group was      *)
(* given.                                                                  *)
(***************************************************************************)
Working == {"locking", "locked", "saving", "committing", "ack", "rejecting"}
WorkedOn(g) == job[g].step \in Working => job[g].at # 0 /\ job[g].at <= read[StreamOf(g)]
EntriesGiven == \A r \in Readers : WorkedOn(r)

PlacesOK ==
    /\ lease \in [Streams -> Readers \cup {None, Gone}] /\ lock \in Agents \cup {None, Gone}
    /\ input \in BOOLEAN /\ answer \in Rows

LEMMA GivenKept ==
    ASSUME EntriesGiven, read' = read, NEW g \in Agents,
           \A h \in Agents \ {g} : job'[h] = job[h],
           g \in Readers => WorkedOn(g)'
    PROVE  EntriesGiven'
BY DEF EntriesGiven, WorkedOn, Agents

\* Every action keeps both.
LEMMA TypeStep ==
    ASSUME TypeOK, EntriesGiven, [Next]_vars
    PROVE  TypeOK' /\ EntriesGiven'
<1> DEFINE G == StreamsOK' /\ JobsOK' /\ PlacesOK' /\ EntriesGiven'
<1>0. StreamsOK /\ JobsOK /\ PlacesOK
  BY DEF TypeOK, PlacesOK
<1> SUFFICES G
  BY DEF TypeOK, PlacesOK
<1> USE DEF streams, database
<1>1. ASSUME NEW r \in Readers, Acquire(r) PROVE G
  <2>1. r \in Agents /\ StreamOf(r) \in Streams
    BY NumbersTyped DEF Agents
  <2>2. StreamsOK'
    BY <1>0, <1>1, StreamsKept DEF Acquire
  <2>3. JobsOK' /\ job'[r].step = "looking" /\ \A h \in Agents \ {r} : job'[h] = job[h]
    BY <1>0, <1>1, <2>1, AtTyped DEF Acquire, Steps
  <2>4. PlacesOK'
    BY <1>0, <1>1, <2>1 DEF Acquire, PlacesOK
  <2>5. WorkedOn(r)'
    BY <2>3 DEF WorkedOn, Working
  <2> QED  BY <1>1, <2>1, <2>2, <2>3, <2>4, <2>5, GivenKept DEF Acquire
<1>2. ASSUME NEW r \in Readers, Look(r) PROVE G
  <2>1. r \in Agents
    BY DEF Agents
  <2>2. StreamsOK' /\ PlacesOK'
    BY <1>0, <1>2, StreamsKept DEF Look, PlacesOK
  <2>3. /\ JobsOK' /\ \A h \in Agents \ {r} : job'[h] = job[h]
        /\ job'[r].step \in {"idle", "reading", "rereading", "claiming"}
    <3>1. CASE Quit(r)
      BY <1>0, <2>1, <3>1, QuitTyped, FreeTyped
    <3>2. CASE \E step \in {"reading", "rereading", "claiming"} : At(r, step)
      BY <1>0, <2>1, <3>2, AtTyped DEF Steps
    <3> QED  BY <1>2, <3>1, <3>2 DEF Look
  <2>4. WorkedOn(r)'
    BY <2>3 DEF WorkedOn, Working
  <2> QED  BY <1>2, <2>1, <2>2, <2>3, <2>4, GivenKept DEF Look
<1>3. ASSUME NEW r \in Readers, NEW i \in Entries, Fetch(r, i) PROVE G
  <2> DEFINE s == StreamOf(r)
  <2>1. r \in Agents /\ s \in Streams
    BY NumbersTyped DEF Agents
  <2>2. i <= Size(s) /\ (i <= read[s] \/ i = read[s] + 1)
    <3>1. CASE i = read[s] + 1 /\ i <= Size(s)
      BY <3>1
    <3>2. CASE i \in Pending(s)
      BY <1>0, <2>1, <3>2, NumbersTyped DEF Pending, StreamsOK, Entries
    <3> QED  BY <1>3, <3>1, <3>2 DEF Fetch, Fetchable, Oldest
  <2>3. read' = [read EXCEPT ![s] = IF i > @ THEN i ELSE @]
    BY <1>3 DEF Fetch
  <2>4. /\ read' \in [Streams -> 0..NumEvents] /\ i <= read'[s] /\ read'[s] <= Size(s)
        /\ \A j \in Entries : j # i => (j <= read'[s] <=> j <= read[s])
        /\ \A q \in Streams \ {s} : read'[q] = read[q]
        /\ \A q \in Streams : read[q] <= read'[q]
    BY <1>0, <2>1, <2>2, <2>3, NumbersTyped DEF StreamsOK, Entries
  <2>5. /\ owner' \in [Streams -> [Entries -> Readers \cup {None, Gone, Done}]]
        /\ owner'[s][i] = r
        /\ \A j \in Entries \ {i} : owner'[s][j] = owner[s][j]
        /\ \A q \in Streams \ {s} : owner'[q] = owner[q]
        /\ r # None
    BY <1>0, <1>3, <2>1, ReadersAssumption DEF StreamsOK, Fetch, Agents
  <2>6. aged' \in [Streams -> SUBSET Entries] /\ quarantined' = quarantined
    BY <1>0, <1>3, <2>1 DEF StreamsOK, Fetch
  <2>7. StreamsOK'
    BY <1>0, <2>1, <2>4, <2>5, <2>6 DEF StreamsOK
  <2>8. PlacesOK'
    BY <1>0, <1>3 DEF Fetch, PlacesOK
  <2>9. job' = [job EXCEPT ![r] = ToApply(i, EventAt(s, i))] /\ EventAt(s, i) \in Events
    BY <1>3, <2>1, NumbersTyped DEF Fetch
  <2>10. ToApply(i, EventAt(s, i)) \in Jobs /\ ToApply(i, EventAt(s, i)).at = i
         /\ ToApply(i, EventAt(s, i)).event = EventAt(s, i)
    BY <2>9, FreeTyped, NumbersTyped DEF ToApply, Jobs, Entries
  <2>11. /\ JobsOK' /\ job'[r].at = i /\ \A h \in Agents \ {r} : job'[h] = job[h]
    BY <1>0, <2>1, <2>9, <2>10 DEF JobsOK, Agents
  <2>12. EntriesGiven'
    <3>1. WorkedOn(r)'
      BY <2>1, <2>4, <2>11 DEF WorkedOn, Entries
    <3>2. ASSUME NEW q \in Readers, q # r PROVE WorkedOn(q)'
      <4>1. q \in Agents \ {r} /\ StreamOf(q) \in Streams
        BY <3>2, NumbersTyped DEF Agents
      <4>2. read[StreamOf(q)] <= read'[StreamOf(q)] /\ job[q].at \in Nat
            /\ read[StreamOf(q)] \in Nat /\ read'[StreamOf(q)] \in Nat
        BY <1>0, <2>4, <4>1 DEF JobsOK, Jobs, StreamsOK
      <4> QED  BY <2>11, <4>1, <4>2 DEF WorkedOn, EntriesGiven
    <3> QED  BY <3>1, <3>2 DEF EntriesGiven
  <2> QED  BY <2>7, <2>8, <2>11, <2>12
<1>4. ASSUME NEW r \in Readers, FetchNothing(r) \/ Unanswered(r) PROVE G
  <2>1. r \in Agents
    BY DEF Agents
  <2>2. StreamsOK' /\ PlacesOK'
    BY <1>0, <1>4, StreamsKept DEF FetchNothing, Unanswered, PlacesOK
  <2>3. JobsOK' /\ job'[r] = Free /\ \A h \in Agents \ {r} : job'[h] = job[h]
    BY <1>0, <1>4, <2>1, QuitTyped DEF FetchNothing, Unanswered
  <2>4. WorkedOn(r)'
    BY <2>3, FreeTyped DEF WorkedOn, Working
  <2> QED  BY <1>4, <2>1, <2>2, <2>3, <2>4, GivenKept DEF FetchNothing, Unanswered
<1>5. ASSUME NEW c \in Callers, NEW e \in Events, Call(c, e) PROVE G
  <2>1. c \in Agents /\ c \notin Readers
    BY ReadersAssumption DEF Agents
  <2>2. StreamsOK' /\ PlacesOK'
    BY <1>0, <1>5, StreamsKept DEF Call, PlacesOK
  <2>3. ToApply(0, e) \in Jobs
    BY FreeTyped, NumbersTyped DEF ToApply, Jobs
  <2>4. JobsOK' /\ \A h \in Agents \ {c} : job'[h] = job[h]
    BY <1>0, <1>5, <2>1, <2>3 DEF JobsOK, Call, Agents
  <2> QED  BY <1>5, <2>1, <2>2, <2>4, GivenKept DEF Call
<1>6. ASSUME NEW g \in Agents, Quit(g), UNCHANGED <<streams, lease, quarantined>>,
             lock' \in Agents \cup {None, Gone}, input' \in BOOLEAN, answer' \in Rows
      PROVE  G
  <2>1. StreamsOK' /\ PlacesOK'
    BY <1>0, <1>6, StreamsKept DEF PlacesOK
  <2>2. JobsOK' /\ job'[g] = Free /\ \A h \in Agents \ {g} : job'[h] = job[h]
    BY <1>0, <1>6, QuitTyped
  <2>3. WorkedOn(g)'
    BY <2>2, FreeTyped DEF WorkedOn, Working
  <2> QED  BY <1>6, <2>1, <2>2, <2>3, GivenKept
<1>7. ASSUME NEW g \in Agents, NEW step \in Working, At(g, step), job[g].step \in Working,
             UNCHANGED <<streams, lease, quarantined>>,
             lock' \in Agents \cup {None, Gone}, input' \in BOOLEAN, answer' \in Rows
      PROVE  G
  <2>1. StreamsOK' /\ PlacesOK'
    BY <1>0, <1>7, StreamsKept DEF PlacesOK
  <2>2. /\ JobsOK' /\ job'[g].at = job[g].at /\ job'[g].step = step
        /\ \A h \in Agents \ {g} : job'[h] = job[h]
    BY <1>0, <1>7, AtTyped DEF Steps, Working
  <2>3. g \in Readers => WorkedOn(g)'
    BY <1>7, <2>2 DEF WorkedOn, EntriesGiven
  <2> QED  BY <1>7, <2>1, <2>2, <2>3, GivenKept
<1>8. ASSUME NEW g \in Agents, NEW step \in Working, NEW row \in Rows,
             job' = [job EXCEPT ![g].step = step, ![g].row = row], job[g].step \in Working,
             UNCHANGED <<streams, lease, lock, database, quarantined>>
      PROVE  G
  <2>1. StreamsOK' /\ PlacesOK'
    BY <1>0, <1>8, StreamsKept DEF PlacesOK
  <2>2. /\ JobsOK' /\ job'[g].at = job[g].at
        /\ \A h \in Agents \ {g} : job'[h] = job[h]
    BY <1>0, <1>8 DEF JobsOK, Jobs, Working, Agents
  <2>3. g \in Readers => WorkedOn(g)'
    BY <1>8, <2>2 DEF WorkedOn, EntriesGiven
  <2> QED  BY <1>8, <2>1, <2>2, <2>3, GivenKept
<1>9. ASSUME NEW g \in Agents, TakeLock(g) PROVE G
  BY <1>0, <1>7, <1>9 DEF TakeLock, PlacesOK, Working
<1>10. ASSUME NEW g \in Agents, LockTimeout(g) \/ DenyInput(g) PROVE G
  <2>1. lock' \in Agents \cup {None, Gone}
    BY <1>0, <1>10, UnlockTyped DEF LockTimeout, DenyInput, Reject, PlacesOK
  <2> QED
    BY <1>0, <1>6, <1>7, <1>10, <2>1 DEF LockTimeout, DenyInput, Reject, PlacesOK, Working
<1>11. ASSUME NEW g \in Agents, ReadRows(g) PROVE G
  <2>1. job[g].step \in Working /\ UNCHANGED <<streams, lease, database, quarantined>>
    BY <1>11 DEF ReadRows, Working
  <2>2. CASE job' = [job EXCEPT ![g].step = "saving", ![g].row = answer] /\ UNCHANGED lock
    BY <1>0, <1>8, <2>1, <2>2 DEF PlacesOK, Working
  <2>3. CASE Unlock(g) /\ At(g, "ack")
    BY <1>0, <1>7, <2>1, <2>3, UnlockTyped DEF PlacesOK, Working
  <2>4. CASE Reject(g)
    BY <1>0, <1>6, <1>7, <2>1, <2>4, UnlockTyped DEF Reject, PlacesOK, Working
  <2>5. CASE Leave(g)
    BY <1>0, <1>6, <2>1, <2>5, UnlockTyped DEF Leave, PlacesOK
  <2> QED  BY <1>11, <2>2, <2>3, <2>4, <2>5 DEF ReadRows
<1>12. ASSUME NEW g \in Agents, Save(g) PROVE G
  <2>1. job[g].step \in Working /\ UNCHANGED <<streams, lease, database, quarantined>>
    BY <1>12 DEF Save, Working
  <2>2. CASE /\ job' = [job EXCEPT ![g].step = "committing",
                            ![g].row = [last |-> job[g].event,
                                        content |-> Append(@.content, job[g].event)]]
             /\ UNCHANGED lock
    <3>1. job[g].event \in Events /\ job[g].row \in Rows /\ job \in [Agents -> Jobs]
      BY <1>0 DEF JobsOK, Jobs
    <3> DEFINE new == [last |-> job[g].event,
                       content |-> Append(job[g].row.content, job[g].event)]
    <3>2. new \in Rows
      BY <3>1 DEF Rows
    <3>3. job' = [job EXCEPT ![g].step = "committing", ![g].row = new]
      BY <2>2, <3>1 DEF Jobs
    <3> QED  BY <1>8, <2>1, <2>2, <3>2, <3>3 DEF Working
  <2>3. CASE Reject(g)
    BY <1>0, <1>6, <1>7, <2>1, <2>3, UnlockTyped DEF Reject, PlacesOK, Working
  <2>4. CASE Leave(g)
    BY <1>0, <1>6, <2>1, <2>4, UnlockTyped DEF Leave, PlacesOK
  <2> QED  BY <1>12, <2>2, <2>3, <2>4 DEF Save
<1>13. ASSUME NEW g \in Agents, Commit(g) \/ CommitUncertain(g) PROVE G
  <2>1. job[g].step \in Working /\ UNCHANGED <<streams, lease, quarantined>>
    BY <1>13 DEF Commit, CommitUncertain, Working
  <2>2. input' \in BOOLEAN /\ answer' \in Rows
    BY <1>0, <1>13 DEF Commit, CommitUncertain, Written, JobsOK, Jobs, PlacesOK
  <2>3. CASE At(g, "ack") /\ Unlock(g)
    BY <1>0, <1>7, <2>1, <2>2, <2>3, UnlockTyped DEF PlacesOK, Working
  <2>4. CASE Leave(g)
    BY <1>0, <1>6, <2>1, <2>2, <2>4, UnlockTyped DEF Leave, PlacesOK
  <2> QED  BY <1>13, <2>3, <2>4 DEF Commit, CommitUncertain
<1>14. ASSUME NEW g \in Readers, Acknowledge(g) \/ Quarantine(g) PROVE G
  <2> DEFINE s == StreamOf(g)
             i == job[g].at
  <2>1. g \in Agents /\ s \in Streams
    BY NumbersTyped DEF Agents
  <2>2. i \in Entries /\ owner[s][i] # None
    BY <1>0, <1>14, <2>1
    DEF EntriesGiven, WorkedOn, Working, Acknowledge, Quarantine, JobsOK, Jobs, Entries, StreamsOK
  <2>3. quarantined' \in [Streams -> SUBSET Entries]
    BY <1>0, <1>14, <2>2 DEF Acknowledge, Quarantine, StreamsOK
  <2>4. /\ owner' = [owner EXCEPT ![s][i] = Done] /\ aged' = [aged EXCEPT ![s] = @ \ {i}]
        /\ read' = read /\ Quit(g) /\ UNCHANGED <<lease, lock, database>>
    BY <1>14 DEF Acknowledge, Quarantine
  <2>5. StreamsOK' /\ PlacesOK'
    BY <1>0, <2>1, <2>2, <2>3, <2>4, EndedTyped DEF PlacesOK
  <2>6. JobsOK' /\ job'[g] = Free /\ \A h \in Agents \ {g} : job'[h] = job[h]
    BY <1>0, <2>1, <2>4, QuitTyped
  <2>7. WorkedOn(g)'
    BY <2>6, FreeTyped DEF WorkedOn, Working
  <2> QED  BY <2>1, <2>4, <2>5, <2>6, <2>7, GivenKept
<1>15. ASSUME NEW c \in Callers, Acknowledge(c) PROVE G
  <2>1. c \in Agents /\ c \notin Readers
    BY ReadersAssumption DEF Agents
  <2> QED  BY <1>0, <1>6, <1>15, <2>1 DEF Acknowledge, PlacesOK
<1>16. ASSUME NEW r \in Readers, Crash(r) PROVE G
  <2>1. r \in Agents /\ StreamOf(r) \in Streams
    BY NumbersTyped DEF Agents
  <2>2. StreamsOK'
    BY <1>0, <1>16, <2>1, RenamedTyped DEF Crash
  <2>3. PlacesOK'
    BY <1>0, <1>16, <2>1 DEF Crash, PlacesOK, Renamed
  <2>4. JobsOK' /\ job'[r] = Free /\ \A h \in Agents \ {r} : job'[h] = job[h]
    BY <1>0, <1>16, <2>1, QuitTyped DEF Crash
  <2>5. WorkedOn(r)'
    BY <2>4, FreeTyped DEF WorkedOn, Working
  <2> QED  BY <1>16, <2>1, <2>2, <2>3, <2>4, <2>5, GivenKept DEF Crash
<1>17. ASSUME NEW r \in Readers, Stop(r) PROVE G
  <2>1. StreamOf(r) \in Streams
    BY NumbersTyped
  <2>2. StreamsOK'
    BY <1>0, <1>17, <2>1, RenamedTyped DEF Stop
  <2>3. PlacesOK' /\ JobsOK' /\ EntriesGiven'
    BY <1>0, <1>17, <2>1 DEF Stop, PlacesOK, JobsOK, EntriesGiven, WorkedOn
  <2> QED  BY <2>2, <2>3
<1>18. ASSUME NEW s \in Streams, ExpireLease(s) \/ Age(s) PROVE G
  <2>1. StreamsOK'
    BY <1>0, <1>18 DEF ExpireLease, Age, StreamsOK, Pending
  <2>2. PlacesOK' /\ JobsOK' /\ EntriesGiven'
    BY <1>0, <1>18 DEF ExpireLease, Age, PlacesOK, JobsOK, EntriesGiven, WorkedOn
  <2> QED  BY <2>1, <2>2
<1>19. ASSUME ExpireLock \/ UNCHANGED vars PROVE G
  BY <1>0, <1>19 DEF ExpireLock, vars, StreamsOK, PlacesOK, JobsOK, EntriesGiven, WorkedOn
<1>20. ASSUME NEW g \in Agents, Apply(g) PROVE G
  BY <1>9, <1>11, <1>12, <1>13, <1>14, <1>15, <1>20 DEF Apply, Agents
<1> HIDE DEF G
<1> QED
  BY <1>1, <1>2, <1>3, <1>4, <1>5, <1>10, <1>13, <1>14, <1>16, <1>17, <1>18, <1>19, <1>20
  DEF Next, Loop, Fault, Lapse, Agents

---------------------------------------------------------------------------
(***************************************************************************)
(* What an agent knows. A row it is about to save follows the one it read; *)
(* one it is about to commit follows the one in the database, because no   *)
(* other uncommitted row of the answer exists and the version was compared *)
(* under that row's lock, whether or not it still holds the session's      *)
(* lock. What it is about to acknowledge is in the database.               *)
(***************************************************************************)
Ordered(row) == row.content = [i \in 1..row.last |-> i]

Faithful(g) ==
    LET j == job[g] IN
    /\ j.step = "saving" /\ j.event # Input => Ordered(j.row) /\ j.event = j.row.last + 1
    /\ j.step = "committing" /\ j.event = Input => ~input
    /\ j.step = "committing" /\ j.event # Input =>
          Ordered(j.row) /\ j.row.last = j.event /\ j.event = answer.last + 1
    /\ j.step = "ack" => Applied(j.event)

OneCommitting ==
    \A g, h \in Agents :
        /\ job[g].step = "committing" /\ job[h].step = "committing"
        /\ job[g].event = Input <=> job[h].event = Input
        => g = h

MirrorInv ==
    /\ Ordered(answer) /\ AcknowledgedIsKept /\ OneCommitting
    /\ \A g \in Agents : Faithful(g)

Grows == answer'.last >= answer.last /\ (input => input')

LEMMA OrderedAppend ==
    ASSUME NEW row \in Rows, Ordered(row), NEW new, NEW e \in Nat, e = row.last + 1,
           new = [last |-> e, content |-> Append(row.content, e)]
    PROVE  Ordered(new) /\ new.last = e
<1>1. row.last \in Nat /\ row.content \in Seq(Events)
  BY EventsAssumption DEF Rows, Events
<1>2. Len(row.content) = row.last
  BY <1>1 DEF Ordered
<1>3. Append(row.content, e) = [i \in 1..e |-> IF i = e THEN e ELSE row.content[i]]
  BY <1>1, <1>2
<1>4. \A i \in 1..e : (IF i = e THEN e ELSE row.content[i]) = i
  BY <1>1 DEF Ordered
<1>5. Append(row.content, e) = [i \in 1..e |-> i]
  BY <1>3, <1>4
<1> QED  BY <1>5 DEF Ordered

LEMMA AppliedStays ==
    ASSUME TypeOK, TypeOK', Grows, NEW e \in Events, Applied(e)
    PROVE  Applied(e)'
BY EventsAssumption DEF TypeOK, Rows, Events, Grows, Applied, Input

\* A step that leaves the database alone and ends in no commit.
LEMMA QuietStep ==
    ASSUME MirrorInv, UNCHANGED database, NEW g \in Agents,
           \A h \in Agents \ {g} : job'[h] = job[h],
           job'[g].step # "committing", Faithful(g)', AcknowledgedIsKept'
    PROVE  MirrorInv'
<1>1. Ordered(answer)'
  BY DEF MirrorInv, Ordered, database
<1>2. \A h \in Agents : Faithful(h)'
  BY DEF MirrorInv, Faithful, Ordered, Applied, database
<1>3. OneCommitting'
  BY DEF MirrorInv, OneCommitting
<1> QED  BY <1>1, <1>2, <1>3 DEF MirrorInv

LEMMA KeptAsBefore ==
    ASSUME MirrorInv, UNCHANGED <<streams, database, quarantined>>
    PROVE  AcknowledgedIsKept'
BY DEF MirrorInv, AcknowledgedIsKept, Applied, streams, database

LEMMA MirrorStep ==
    ASSUME TypeOK, TypeOK', EntriesGiven, MirrorInv, [Next]_vars
    PROVE  MirrorInv' /\ Grows
<1> DEFINE Idle == {"idle", "looking", "reading", "rereading", "claiming", "locking",
                    "locked", "rejecting"}
           G == MirrorInv' /\ Grows
<1> SUFFICES G
  OBVIOUS
<1>0. JobsOK /\ StreamsOK /\ answer \in Rows
  BY DEF TypeOK
<1>1. ASSUME UNCHANGED database PROVE Grows
  <2>1. answer.last \in Nat
    BY <1>0, EventsAssumption DEF Rows, Events
  <2> QED  BY <1>1, <2>1 DEF Grows, database
<1>2. ASSUME NEW g \in Agents, \A h \in Agents \ {g} : job'[h] = job[h],
             job'[g].step \in Idle, UNCHANGED <<streams, database, quarantined>>
      PROVE  G
  <2>1. Faithful(g)'
    BY <1>2 DEF Faithful
  <2> QED  BY <1>1, <1>2, <2>1, KeptAsBefore, QuietStep
<1>3. ASSUME NEW g \in Agents, Quit(g), UNCHANGED <<streams, database, quarantined>> PROVE G
  BY <1>0, <1>2, <1>3, QuitTyped, FreeTyped
<1>4. ASSUME NEW g \in Agents, NEW step \in Idle, At(g, step),
             UNCHANGED <<streams, database, quarantined>>
      PROVE  G
  BY <1>0, <1>2, <1>4, AtTyped DEF Steps
<1>5. ASSUME NEW r \in Readers, Acquire(r) \/ Look(r) \/ FetchNothing(r) \/ Unanswered(r)
      PROVE  G
  <2>1. r \in Agents
    BY DEF Agents
  <2>2. CASE Acquire(r)
    BY <1>4, <2>1, <2>2 DEF Acquire
  <2>3. CASE Look(r)
    BY <1>3, <1>4, <2>1, <2>3 DEF Look
  <2>4. CASE FetchNothing(r) \/ Unanswered(r)
    BY <1>3, <2>1, <2>4 DEF FetchNothing, Unanswered
  <2> QED  BY <1>5, <2>2, <2>3, <2>4
<1>6. ASSUME NEW r \in Readers, NEW i \in Entries, Fetch(r, i) PROVE G
  <2>1. r \in Agents /\ r # Done /\ StreamOf(r) \in Streams
    BY ReadersAssumption, NumbersTyped DEF Agents
  <2>2. /\ job'[r].step = "locking" /\ \A h \in Agents \ {r} : job'[h] = job[h]
    BY <1>0, <1>6, <2>1 DEF Fetch, ToApply, JobsOK
  <2>3. Faithful(r)'
    BY <2>2 DEF Faithful
  <2>4. /\ owner' = [owner EXCEPT ![StreamOf(r)][i] = r]
        /\ UNCHANGED <<database, quarantined>>
    BY <1>6 DEF Fetch
  <2>5. AcknowledgedIsKept'
    BY <1>0, <2>1, <2>4 DEF StreamsOK, MirrorInv, AcknowledgedIsKept, Applied, database
  <2> QED  BY <1>1, <2>1, <2>2, <2>3, <2>4, <2>5, QuietStep
<1>7. ASSUME NEW c \in Callers, NEW e \in Events, Call(c, e) PROVE G
  <2>1. c \in Agents
    BY DEF Agents
  <2>2. /\ job'[c].step = "locking" /\ \A h \in Agents \ {c} : job'[h] = job[h]
    BY <1>0, <1>7, <2>1 DEF Call, ToApply, JobsOK
  <2> QED  BY <1>2, <1>7, <2>1, <2>2 DEF Call
<1>8. ASSUME NEW g \in Agents, Reject(g), UNCHANGED <<streams, database, quarantined>>
      PROVE  G
  BY <1>3, <1>4, <1>8 DEF Reject
<1>9. ASSUME NEW g \in Agents, TakeLock(g) \/ LockTimeout(g) \/ DenyInput(g) PROVE G
  BY <1>4, <1>8, <1>9 DEF TakeLock, LockTimeout, DenyInput
<1>10. ASSUME NEW g \in Agents, ReadRows(g) PROVE G
  <2>1. UNCHANGED <<streams, database, quarantined>>
    BY <1>10 DEF ReadRows
  <2>2. job[g].event \in Events /\ answer.last \in Nat
    BY <1>0, EventsAssumption DEF JobsOK, Jobs, Rows, Events
  <2>3. CASE New(job[g].event)
             /\ job' = [job EXCEPT ![g].step = "saving", ![g].row = answer]
    <3>1. /\ job'[g].step = "saving" /\ job'[g].row = answer
          /\ job'[g].event = job[g].event /\ \A h \in Agents \ {g} : job'[h] = job[h]
      BY <1>0, <2>3 DEF JobsOK, Jobs
    <3>2. Faithful(g)'
      BY <2>3, <3>1 DEF Faithful, New, MirrorInv
    <3> QED  BY <1>1, <2>1, <3>1, <3>2, KeptAsBefore, QuietStep
  <2>4. CASE Old(job[g].event) /\ At(g, "ack")
    <3>1. /\ job'[g].step = "ack" /\ job'[g].event = job[g].event
          /\ \A h \in Agents \ {g} : job'[h] = job[h]
      BY <1>0, <2>4, AtTyped DEF Steps
    <3>2. Faithful(g)'
      BY <2>1, <2>4, <3>1 DEF Faithful, Old, Applied, database
    <3> QED  BY <1>1, <2>1, <3>1, <3>2, KeptAsBefore, QuietStep
  <2>5. CASE Reject(g)
    BY <1>8, <2>1, <2>5
  <2>6. CASE Leave(g)
    BY <1>3, <2>1, <2>6 DEF Leave
  <2> QED  BY <1>10, <2>3, <2>4, <2>5, <2>6 DEF ReadRows
<1>11. ASSUME NEW g \in Agents, Save(g) PROVE G
  <2>1. UNCHANGED <<streams, database, quarantined>>
    BY <1>11 DEF Save
  <2>2. job[g].event \in Events /\ job[g].row \in Rows /\ job \in [Agents -> Jobs]
    BY <1>0 DEF JobsOK, Jobs
  <2> DEFINE e == job[g].event
             new == [last |-> e, content |-> Append(job[g].row.content, e)]
  <2>3. CASE /\ UnchangedSince(g)
             /\ job' = [job EXCEPT ![g].step = "committing",
                            ![g].row = [last |-> e, content |-> Append(@.content, e)]]
    <3>1. /\ job'[g].step = "committing" /\ job'[g].event = e /\ job'[g].row = new
          /\ \A h \in Agents \ {g} : job'[h] = job[h]
      BY <2>2, <2>3 DEF Jobs
    <3>2. ASSUME e = Input PROVE ~input'
      BY <2>1, <2>3, <3>2 DEF UnchangedSince, database
    <3>3. ASSUME e # Input PROVE Ordered(new) /\ new.last = e /\ e = answer'.last + 1
      <4>1. Faithful(g) /\ job[g].step = "saving"
        BY <1>11 DEF MirrorInv, Save
      <4>2. Ordered(job[g].row) /\ e = job[g].row.last + 1 /\ answer = job[g].row
        BY <2>3, <3>3, <4>1 DEF Faithful, UnchangedSince
      <4>3. e \in Nat
        BY <2>2, EventsAssumption DEF Events
      <4>4. Ordered(new) /\ new.last = e
        BY <2>2, <4>2, <4>3, OrderedAppend
      <4> QED  BY <2>1, <4>2, <4>4 DEF database
    <3>4. Faithful(g)'
      BY <3>1, <3>2, <3>3 DEF Faithful
    <3>5. \A h \in Agents \ {g} : Faithful(h)'
      BY <2>1, <3>1 DEF MirrorInv, Faithful, Ordered, Applied, database
    <3>6. OneCommitting'
      <4>1. \A h \in Agents \ {g} :
               job[h].step = "committing" => (job[h].event = Input) # (e = Input)
        BY <1>11 DEF Save
      <4> QED  BY <3>1, <4>1 DEF MirrorInv, OneCommitting
    <3>7. Ordered(answer)' /\ AcknowledgedIsKept'
      BY <2>1, KeptAsBefore DEF MirrorInv, Ordered, database
    <3> QED  BY <1>1, <2>1, <3>4, <3>5, <3>6, <3>7 DEF MirrorInv
  <2>4. CASE Reject(g)
    BY <1>8, <2>1, <2>4
  <2>5. CASE Leave(g)
    BY <1>3, <2>1, <2>5 DEF Leave
  <2> QED  BY <1>11, <2>3, <2>4, <2>5 DEF Save
<1>12. ASSUME NEW g \in Agents, Commit(g) \/ CommitUncertain(g) PROVE G
  <2>1. job[g].step = "committing" /\ UNCHANGED <<streams, quarantined>>
    BY <1>12 DEF Commit, CommitUncertain
  <2>2. /\ Quit(g) \/ At(g, "ack")
        /\ Written(g) \/ (UNCHANGED database /\ Quit(g))
    BY <1>12 DEF Commit, CommitUncertain, Leave
  <2>3. CASE UNCHANGED database /\ Quit(g)
    BY <1>3, <2>1, <2>3
  <2>4. CASE Written(g)
    <3>1. /\ job'[g].step \in {"idle", "ack"}
          /\ job'[g].step = "ack" => job'[g].event = job[g].event
          /\ \A h \in Agents \ {g} : job'[h] = job[h]
      BY <1>0, <2>2, AtTyped, QuitTyped, FreeTyped DEF Steps
    <3>2. Faithful(g) /\ job[g].event \in Events /\ answer.last \in Nat
      BY <1>0, EventsAssumption DEF MirrorInv, JobsOK, Jobs, Rows, Events
    <3>3. CASE job[g].event = Input
      <4>1. input' = TRUE /\ answer' = answer
        BY <2>4, <3>3 DEF Written
      <4>2. Grows
        BY <3>2, <4>1 DEF Grows
      <4>3. Faithful(g)'
        BY <3>1, <3>3, <4>1 DEF Faithful, Applied
      <4>4. ASSUME NEW h \in Agents \ {g} PROVE Faithful(h)'
        <5>1. Faithful(h) /\ job'[h] = job[h] /\ job[h].event \in Events
          BY <1>0, <3>1 DEF MirrorInv, JobsOK, Jobs
        <5>2. job[h].step = "committing" => job[h].event # Input
          BY <2>1, <3>3 DEF MirrorInv, OneCommitting
        <5> QED  BY <4>1, <4>2, <5>1, <5>2, AppliedStays DEF Faithful, Ordered
      <4> QED  BY <2>1, <3>1, <4>1, <4>2, <4>3, <4>4
               DEF MirrorInv, OneCommitting, Ordered, AcknowledgedIsKept, Applied, streams
    <3>4. CASE job[g].event # Input
      <4>1. /\ answer' = job[g].row /\ input' = input
            /\ Ordered(answer') /\ answer'.last = job[g].event
            /\ answer'.last = answer.last + 1
        BY <2>1, <2>4, <3>2, <3>4 DEF Written, Faithful
      <4>2. Grows
        BY <3>2, <4>1 DEF Grows
      <4>3. Faithful(g)'
        BY <3>1, <3>2, <3>4, <4>1, EventsAssumption DEF Faithful, Applied, Events
      <4>4. ASSUME NEW h \in Agents \ {g} PROVE Faithful(h)'
        <5>1. Faithful(h) /\ job'[h] = job[h] /\ job[h].event \in Events
          BY <1>0, <3>1 DEF MirrorInv, JobsOK, Jobs
        <5>2. job[h].step = "committing" => job[h].event = Input
          BY <2>1, <3>4 DEF MirrorInv, OneCommitting
        <5> QED  BY <4>1, <4>2, <5>1, <5>2, AppliedStays DEF Faithful, Ordered
      <4>5. AcknowledgedIsKept'
        <5> SUFFICES ASSUME NEW s \in Streams, NEW i \in Entries, owner'[s][i] = Done
                     PROVE  Applied(EventAt(s, i))' \/ i \in quarantined'[s]
          BY DEF AcknowledgedIsKept
        <5>1. Applied(EventAt(s, i)) \/ i \in quarantined[s]
          BY <2>1 DEF MirrorInv, AcknowledgedIsKept, streams
        <5> QED  BY <2>1, <4>2, <5>1, NumbersTyped, AppliedStays
      <4> QED  BY <3>1, <4>1, <4>2, <4>3, <4>4, <4>5 DEF MirrorInv, OneCommitting, Ordered
    <3> QED  BY <3>3, <3>4
  <2> QED  BY <2>2, <2>3, <2>4
<1>13. ASSUME NEW g \in Readers, Acknowledge(g) \/ Quarantine(g) PROVE G
  <2> DEFINE s == StreamOf(g)
             i == job[g].at
  <2>1. g \in Agents /\ s \in Streams /\ Faithful(g)
    BY NumbersTyped DEF Agents, MirrorInv
  <2>2. i # 0 /\ job[g].event = EventAt(s, i) /\ i \in Entries
    BY <1>0, <1>13, <2>1
    DEF EntriesGiven, WorkedOn, Working, Acknowledge, Quarantine, JobsOK, Jobs, Entries
  <2>3. /\ owner' = [owner EXCEPT ![s][i] = Done] /\ Quit(g) /\ UNCHANGED database
    BY <1>13 DEF Acknowledge, Quarantine
  <2>4. /\ \A q \in Streams : quarantined[q] \subseteq quarantined'[q]
        /\ Applied(EventAt(s, i)) \/ i \in quarantined'[s]
    BY <1>0, <1>13, <2>1, <2>2 DEF Acknowledge, Quarantine, StreamsOK, Faithful
  <2>5. AcknowledgedIsKept'
    BY <1>0, <2>1, <2>2, <2>3, <2>4
    DEF MirrorInv, AcknowledgedIsKept, Applied, StreamsOK, database
  <2>6. job'[g].step = "idle" /\ \A h \in Agents \ {g} : job'[h] = job[h]
    BY <1>0, <2>1, <2>3, QuitTyped, FreeTyped
  <2>7. Faithful(g)'
    BY <2>6 DEF Faithful
  <2> QED  BY <1>1, <2>1, <2>3, <2>5, <2>6, <2>7, QuietStep
<1>14. ASSUME NEW c \in Callers, Acknowledge(c) PROVE G
  <2>1. c \in Agents /\ c \notin Readers
    BY ReadersAssumption DEF Agents
  <2> QED  BY <1>3, <1>14, <2>1 DEF Acknowledge, streams
<1>15. ASSUME NEW r \in Readers, Crash(r) \/ Stop(r) PROVE G
  <2>1. r \in Agents /\ StreamOf(r) \in Streams
    BY NumbersTyped DEF Agents
  <2>2. /\ owner' = [owner EXCEPT ![StreamOf(r)] = [i \in Entries |-> Renamed(@[i], r)]]
        /\ UNCHANGED <<database, quarantined>>
    BY <1>15 DEF Crash, Stop
  <2>3. \A x : Renamed(x, r) = Done => x = Done
    BY ReadersAssumption DEF Renamed
  <2>4. \A s \in Streams, i \in Entries : owner'[s][i] = Done => owner[s][i] = Done
    BY <1>0, <2>1, <2>2, <2>3 DEF StreamsOK
  <2>5. AcknowledgedIsKept'
    BY <2>2, <2>4 DEF MirrorInv, AcknowledgedIsKept, Applied, database
  <2>6. CASE Quit(r)
    <3>1. job'[r].step = "idle" /\ \A h \in Agents \ {r} : job'[h] = job[h]
      BY <1>0, <2>1, <2>6, QuitTyped, FreeTyped
    <3>2. Faithful(r)'
      BY <3>1 DEF Faithful
    <3> QED  BY <1>1, <2>1, <2>2, <2>5, <3>1, <3>2, QuietStep
  <2>7. CASE UNCHANGED job /\ job[r].step = "idle"
    <3>1. Faithful(r)'
      BY <2>7 DEF Faithful
    <3> QED  BY <1>1, <2>1, <2>2, <2>5, <2>7, <3>1, QuietStep
  <2> QED  BY <1>15, <2>6, <2>7 DEF Crash, Stop
<1>16. ASSUME UNCHANGED <<owner, database, quarantined, job>> PROVE G
  BY <1>1, <1>16
  DEF MirrorInv, AcknowledgedIsKept, Applied, Ordered, Faithful, OneCommitting, database
<1>17. ASSUME Lapse \/ UNCHANGED vars PROVE G
  BY <1>16, <1>17 DEF Lapse, ExpireLock, ExpireLease, Age, vars, streams
<1>18. ASSUME NEW g \in Agents, Apply(g) PROVE G
  BY <1>9, <1>10, <1>11, <1>12, <1>13, <1>14, <1>18 DEF Apply, Agents
<1> HIDE DEF G
<1> QED
  BY <1>5, <1>6, <1>7, <1>9, <1>12, <1>13, <1>15, <1>17, <1>18
  DEF Next, Loop, Fault, Agents

---------------------------------------------------------------------------
LEMMA MirrorInit == Init => TypeOK /\ EntriesGiven /\ MirrorInv
<1> SUFFICES ASSUME Init PROVE TypeOK /\ EntriesGiven /\ MirrorInv
  OBVIOUS
<1> DEFINE empty == [last |-> 0, content |-> <<>>]
<1>1. StreamsOK
  BY NumbersTyped, ReadersAssumption DEF Init, StreamsOK, Entries
<1>2. job \in [Agents -> Jobs] /\ \A g \in Agents : job[g] = Free
  BY FreeTyped DEF Init
<1>3. JobsOK
  BY <1>2, FreeTyped DEF JobsOK, Agents
<1>4. answer \in Rows /\ Ordered(answer)
  <2>1. <<>> \in Seq(Events) /\ <<>> = [i \in 1..0 |-> i]
    OBVIOUS
  <2> QED  BY <2>1, NumbersTyped DEF Init, Rows, Ordered, Events
<1>5. TypeOK
  BY <1>1, <1>3, <1>4 DEF Init, TypeOK
<1>6. EntriesGiven
  BY <1>2, FreeTyped DEF EntriesGiven, WorkedOn, Working, Agents
<1>7. (\A g \in Agents : Faithful(g)) /\ OneCommitting
  BY <1>2, FreeTyped DEF Faithful, OneCommitting
<1>8. AcknowledgedIsKept
  BY ReadersAssumption DEF Init, AcknowledgedIsKept
<1> QED  BY <1>4, <1>5, <1>6, <1>7, <1>8 DEF MirrorInv

LEMMA MirrorInvariant == Spec => [](TypeOK /\ EntriesGiven /\ MirrorInv)
<1>1. TypeOK /\ EntriesGiven /\ MirrorInv /\ [Next]_vars
      => (TypeOK /\ EntriesGiven /\ MirrorInv)'
  BY TypeStep, MirrorStep
<1> QED  BY MirrorInit, <1>1, PTL DEF Spec

\* The streams, leases, rows and jobs keep their types, and an entry is pending
\* or acknowledged exactly when its group was given it.
THEOREM MirrorTyped == Spec => []TypeOK
BY MirrorInvariant, PTL

\* Nothing is acknowledged that is neither in the database nor in quarantine.
THEOREM Kept == Spec => []AcknowledgedIsKept
<1>1. MirrorInv => AcknowledgedIsKept
  BY DEF MirrorInv
<1> QED  BY <1>1, MirrorInvariant, PTL

\* The mirrored answer is its events, in order, each of them once.
THEOREM InOrder == Spec => []AnswerInOrder
<1>1. MirrorInv => AnswerInOrder
  BY DEF MirrorInv, Ordered, AnswerInOrder
<1> QED  BY <1>1, MirrorInvariant, PTL

\* No transaction sets the answer back, whatever locks and leases lapsed under it.
THEOREM OnlyGrows == Spec => AnswerOnlyGrows
<1>1. (TypeOK /\ EntriesGiven /\ MirrorInv) /\ (TypeOK /\ EntriesGiven /\ MirrorInv)'
      /\ [Next]_vars => [Grows]_vars
  BY MirrorStep
<1>2. [Grows]_vars => [answer'.last >= answer.last /\ (input => input')]_vars
  BY DEF Grows
<1> QED  BY <1>1, <1>2, MirrorInvariant, PTL DEF Spec, AnswerOnlyGrows
=============================================================================

-------------------- MODULE SessionStreamLease_proofs --------------------
(***************************************************************************)
(* The listener lease keeps a session's stream to one consumer, for every  *)
(* number of instances, as long as no pause outlasts a key. On it rest the *)
(* barrier between claimed and new records, and the release of a turn.     *)
(***************************************************************************)
EXTENDS SessionStream_proofs

\* Unless something has stalled, an active listener runs in a process that is
\* up and holds the lease.
LeaseOfActive ==
    /\ faults["stall"] <= MaxStalls
    /\ faults["stall"] = MaxStalls =>
          \A i \in Inst : Active(i) => mode[i] = "up" /\ lease = i

\* Only a stall is counted as one.
LEMMA StallKept ==
    ASSUME TypeOK, LeaseOfActive
    PROVE  /\ \A k \in FaultKinds \ {"stall"} : Spend(k) => faults'["stall"] = faults["stall"]
           /\ Spend("stall") => faults'["stall"] \in 0..(MaxStalls - 1)
BY BoundsAssumption DEF TypeOK, LeaseOfActive, Spend, FaultKinds

\* Actions on neither listener, process nor lease.
LEMMA ElsewhereKeepsLease ==
    ASSUME TypeOK, LeaseOfActive, UNCHANGED <<listener, mode>>,
           \/ UNCHANGED lease /\ faults'["stall"] = faults["stall"]
           \/ faults'["stall"] \in 0..(MaxStalls - 1)
    PROVE  LeaseOfActive'
<1>1. faults["stall"] \in Nat
  BY DEF TypeOK, FaultKinds
<1>2. \A i \in Inst : Active(i)' = Active(i)
  BY DEF Active, Paused
<1>3. CASE faults'["stall"] = faults["stall"] /\ UNCHANGED lease
  BY <1>2, <1>3 DEF LeaseOfActive
<1>4. CASE faults'["stall"] \in 0..(MaxStalls - 1)
  BY <1>4, BoundsAssumption DEF LeaseOfActive
<1> QED  BY <1>3, <1>4

\* Actions that stop the listener of one instance and touch no other lease.
LEMMA StoppedKeepsLease ==
    ASSUME TypeOK, LeaseOfActive, NEW i \in Inst, faults'["stall"] = faults["stall"],
           \A j \in Inst : Active(j)' => j # i /\ Active(j),
           \A j \in Inst \ {i} : mode'[j] = mode[j],
           lease' = lease \/ (lease' = NoOne /\ (lease = i \/ \A j \in Inst : ~Active(j)))
    PROVE  LeaseOfActive'
BY DEF LeaseOfActive

\* A failed renewal stops the listener before anything else.
LEMMA RenewFailsKeepsLease ==
    ASSUME TypeOK, LeaseOfActive, NEW i \in Inst, RenewFails(i)
    PROVE  LeaseOfActive'
<1>1. /\ listener' = [listener EXCEPT ![i] = "closed"] /\ UNCHANGED mode
      /\ lease' = lease \/ (lease = i /\ lease' = NoOne)
  BY DEF RenewFails, StopListener
<1>2. faults'["stall"] = faults["stall"]
  BY StallKept DEF RenewFails, FaultKinds
<1>3. \A j \in Inst : Active(j)' => j # i /\ Active(j)
  BY <1>1 DEF Active, Paused, TypeOK
<1> QED  BY <1>1, <1>2, <1>3, StoppedKeepsLease

\* The cleanup gives a lease back with its listener.
LEMMA CompleteTurnKeepsLease ==
    ASSUME TypeOK, LeaseOfActive, NEW i \in Inst, CompleteTurn(i)
    PROVE  LeaseOfActive'
<1>1. UNCHANGED <<mode, faults>>
  BY DEF CompleteTurn
<1>2. CASE Active(i)
  <2>1. /\ listener' = [listener EXCEPT ![i] = "closed"]
        /\ lease' = lease \/ (lease = i /\ lease' = NoOne)
    BY <1>2 DEF CompleteTurn, EndTurn, StopListener
  <2>2. \A j \in Inst : Active(j)' => j # i /\ Active(j)
    BY <2>1 DEF Active, Paused, TypeOK
  <2> QED  BY <1>1, <2>1, <2>2, StoppedKeepsLease
<1>3. CASE ~Active(i)
  BY <1>1, <1>3, ElsewhereKeepsLease DEF CompleteTurn, EndTurn
<1> QED  BY <1>2, <1>3

\* A closing instance closes its listener while it holds the lease.
LEMMA HandoffKeepsLease ==
    ASSUME TypeOK, LeaseOfActive, NEW i \in Inst, Handoff(i)
    PROVE  LeaseOfActive'
<1>1. \A j \in Inst \ {i} : mode'[j] = mode[j]
  BY DEF Handoff, TypeOK
<1>2. faults'["stall"] = faults["stall"]
  BY StallKept DEF Handoff, FaultKinds
<1>3. \A j \in Inst : Active(j)' => j # i /\ Active(j)
  <2>1. CASE Active(i)
    <3>1. listener' = [listener EXCEPT ![i] = "closed"]
      BY <2>1 DEF Handoff
    <3> QED  BY <3>1 DEF Active, Paused, TypeOK
  <2>2. CASE ~Active(i)
    BY <2>2 DEF Handoff, Active, Paused
  <2> QED  BY <2>1, <2>2
<1> QED  BY <1>1, <1>2, <1>3, StoppedKeepsLease DEF Handoff

\* A process ends with its listener.
LEMMA DownKeepsLease ==
    ASSUME TypeOK, LeaseOfActive, NEW i \in Inst, Exit(i) \/ Crash(i)
    PROVE  LeaseOfActive'
<1>1. Down(i)
  BY DEF Exit, Crash
<1>2. faults'["stall"] = faults["stall"]
  BY StallKept DEF Exit, Crash, FaultKinds
<1>3. \A j \in Inst \ {i} : mode'[j] = mode[j]
  BY <1>1 DEF Down, TypeOK
<1>4. listener' = [listener EXCEPT ![i] = "none"] /\ UNCHANGED lease
  BY <1>1 DEF Down, redis
<1>5. \A j \in Inst : Active(j)' => j # i /\ Active(j)
  BY <1>4 DEF Active, Paused, TypeOK
<1> QED  BY <1>2, <1>3, <1>4, <1>5, StoppedKeepsLease

\* A lease whose listener is refreshed lapses by a stall only.
LEMMA KeysKeepsLease ==
    ASSUME TypeOK, LeaseOfActive, Keys
    PROVE  LeaseOfActive'
<1>1. UNCHANGED <<listener, mode>>
  BY DEF Keys, HeartbeatLapses, LeaseLapses, RecoveryLockLapses, local
<1>2. CASE HeartbeatLapses \/ RecoveryLockLapses
  BY <1>1, <1>2, StallKept, ElsewhereKeepsLease DEF HeartbeatLapses, RecoveryLockLapses
<1>3. CASE LeaseLapses
  <2>1. CASE Refreshes(lease)
    BY <1>1, <1>3, <2>1, StallKept, ElsewhereKeepsLease DEF LeaseLapses
  <2>2. CASE ~Refreshes(lease)
    <3>1. UNCHANGED faults /\ lease' = NoOne
      BY <1>3, <2>2 DEF LeaseLapses
    <3>2. \A j \in Inst : Active(j)' = Active(j)
      BY <1>1 DEF Active, Paused
    <3> QED  BY <1>1, <2>2, <3>1, <3>2 DEF LeaseOfActive, Refreshes
  <2> QED  BY <2>1, <2>2
<1> QED  BY <1>2, <1>3 DEF Keys

\* A takeover starts under a free lease.
LEMMA StartKeepsLease ==
    ASSUME TypeOK, LeaseOfActive, NEW i \in Inst,
           StartPaused(i) \/ Resume(i) \/ ReleaseLease(i)
    PROVE  LeaseOfActive'
<1>1. CASE StartPaused(i)
  <2>1. lease = NoOne /\ lease' = i /\ mode[i] = "up" /\ UNCHANGED <<mode, faults>>
    BY <1>1 DEF StartPaused
  <2>2. \A j \in Inst \ {i} : Active(j)' = Active(j)
    BY <1>1 DEF StartPaused, Active, Paused, TypeOK
  <2> QED  BY <2>1, <2>2, InstAssumption DEF LeaseOfActive
<1>2. CASE Resume(i)
  <2>1. UNCHANGED <<mode, faults, lease>> /\ Active(i)
    BY <1>2 DEF Resume, redis, Active
  <2>2. \A j \in Inst \ {i} : Active(j)' = Active(j)
    BY <1>2 DEF Resume, Active, Paused, TypeOK
  <2> QED  BY <2>1, <2>2 DEF LeaseOfActive
<1>3. CASE ReleaseLease(i)
  <2>1. mode[i] = "closing" /\ lease = i /\ lease' = NoOne /\ UNCHANGED <<mode, faults, listener>>
    BY <1>3 DEF ReleaseLease, local
  <2>2. \A j \in Inst : Active(j)' = Active(j)
    BY <2>1 DEF Active, Paused
  <2> QED  BY <2>1, <2>2 DEF LeaseOfActive
<1> QED  BY <1>1, <1>2, <1>3

\* The sender's instance holds the lease.
LEMMA LeaseStart == Init => LeaseOfActive
<1> SUFFICES ASSUME Init PROVE LeaseOfActive
  OBVIOUS
<1>1. faults["stall"] = MaxStalls
  BY DEF Init, Budget
<1>2. PICK i \in Inst : lease = i /\ listener = [j \in Inst |-> IF j = i THEN "live" ELSE "none"]
  BY DEF Init
<1>3. \A j \in Inst : Active(j) => j = i
  BY <1>2 DEF Active, Paused
<1> QED  BY <1>1, <1>2, <1>3, BoundsAssumption DEF LeaseOfActive, Init

\* Every step keeps an active listener under its lease.
LEMMA LeaseStep ==
    ASSUME TypeOK, LeaseOfActive, [Next]_vars
    PROVE  LeaseOfActive'
<1>1. CASE Keys
  BY <1>1, KeysKeepsLease
<1>2. ASSUME NEW i \in Inst, RenewFails(i) \/ Cleaning(i) \/ Handoff(i) \/ Exit(i) \/ Crash(i)
      PROVE  LeaseOfActive'
  <2>1. CASE CleanupSnapshot(i)
    BY <2>1, ElsewhereKeepsLease DEF CleanupSnapshot
  <2> QED
    BY <1>2, <2>1, RenewFailsKeepsLease, CompleteTurnKeepsLease, HandoffKeepsLease,
       DownKeepsLease DEF Cleaning
<1>3. ASSUME NEW i \in Inst, Recovery(i) \/ ReleaseLease(i)
      PROVE  LeaseOfActive'
  <2>1. CASE StartPaused(i) \/ Resume(i) \/ ReleaseLease(i)
    BY <2>1, StartKeepsLease
  <2>2. CASE \/ Scan(i) \/ TakeRecoveryLock(i) \/ StartRefused(i)
             \/ ClaimPage(i) \/ ClaimAckFailed(i)
    BY <2>2, ElsewhereKeepsLease
       DEF Scan, TakeRecoveryLock, StartRefused, ClaimPage, ClaimAckFailed, redis
  <2> QED  BY <1>3, <2>1, <2>2 DEF Recovery
<1>4. ASSUME NEW i \in Inst, Processing(i)
      PROVE  LeaseOfActive'
  <2>1. UNCHANGED <<listener, mode, lease>>
    BY <1>4 DEF Processing, Replay, Accumulate, EndOfAnswer, PersistGate, WriteMessage,
       WriteFails,
                NotifyObservers, NotifyFails, MarkPersisted, redis
  <2>2. UNCHANGED faults \/ Spend("redis") \/ Spend("persist")
    BY <1>4 DEF Processing, Replay, Accumulate, EndOfAnswer, PersistGate, WriteMessage,
       WriteFails,
                NotifyObservers, NotifyFails, MarkPersisted
  <2> QED  BY <2>1, <2>2, StallKept, ElsewhereKeepsLease DEF FaultKinds
<1>5. ASSUME NEW i \in Inst, NEW t \in Threads, Thread(i, t)
      PROVE  LeaseOfActive'
  BY <1>5, StallKept, ElsewhereKeepsLease
     DEF Thread, Begin, Missing, Ack, AckFails, redis, FaultKinds
<1>6. ASSUME NEW i \in Inst,
     Reader(i) \/ StartDrain(i) \/ SaveSnapshot(i) \/ AckAgain(i) \/ Heartbeat(i)
      PROVE  LeaseOfActive'
  <2>1. UNCHANGED <<listener, mode, lease>>
    BY <1>6 DEF Reader, Read, ReadLate, StartDrain, SaveSnapshot, AckAgain, Heartbeat, redis,
       local
  <2>2. UNCHANGED faults \/ Spend("redis") \/ Spend("stall")
    BY <1>6 DEF Reader, Read, ReadLate, StartDrain, SaveSnapshot, AckAgain, Heartbeat
  <2> QED  BY <2>1, <2>2, StallKept, ElsewhereKeepsLease DEF FaultKinds
<1>7. CASE Produce \/ UNCHANGED vars
  BY <1>7, ElsewhereKeepsLease DEF Produce, vars, redis, local
<1> QED
  BY <1>1, <1>2, <1>3, <1>4, <1>5, <1>6, <1>7 DEF Next

\* Two instances read or claim the records of a session at a time only after a
\* pause that outlasted a key (SessionStreamLeaseService, the renewal task and
\* ContextClosedEvent).
THEOREM SingleConsumer == Spec => []OneConsumer
<1>1. Init => TypeOK /\ LeaseOfActive
  BY InitTyped, LeaseStart
<1>2. TypeOK /\ LeaseOfActive /\ [Next]_vars => (TypeOK /\ LeaseOfActive)'
  BY TypeStep, LeaseStep
<1>3. LeaseOfActive => OneConsumer
  BY DEF LeaseOfActive, OneConsumer
<1> QED  BY <1>1, <1>2, <1>3, PTL DEF Spec

-----------------------------------------------------------------------------
(***************************************************************************)
(* The recovery barrier. A paused listener that has claimed everything     *)
(* still has it: what is pending is being processed, or its                *)
(* acknowledgement has failed.                                             *)
(***************************************************************************)
Working(i) == work[i]["claim"] \union toAck[i]["claim"] \union ackRegistry[i]

PageHeld ==
    faults["stall"] = MaxStalls =>
        \A i \in Inst : Paused(i) /\ claim[i].whole => Pending \subseteq Working(i)

\* No fault is ever given back.
NeverGained == \A k \in FaultKinds : faults'[k] <= faults[k]
StallsSpent == faults'["stall"] = MaxStalls => faults["stall"] = MaxStalls

LEMMA SpentOnly ==
    ASSUME TypeOK, UNCHANGED faults \/ \E k \in FaultKinds : Spend(k)
    PROVE  NeverGained
<1>1. \A k \in FaultKinds : faults[k] \in Nat
  BY DEF TypeOK
<1>2. CASE UNCHANGED faults
  BY <1>1, <1>2 DEF NeverGained
<1>3. ASSUME NEW k \in FaultKinds, Spend(k) PROVE NeverGained
  <2>1. \A j \in FaultKinds : faults'[j] = IF j = k THEN faults[k] - 1 ELSE faults[j]
    BY <1>3 DEF Spend, TypeOK
  <2> QED  BY <1>1, <2>1 DEF NeverGained
<1> QED  BY <1>2, <1>3

LEMMA FaultsStep ==
    ASSUME TypeOK, [Next]_vars
    PROVE  NeverGained
<1>1. CASE UNCHANGED vars \/ Produce \/ Keys
  BY <1>1, SpentOnly
     DEF vars, Produce, Keys, HeartbeatLapses, LeaseLapses, RecoveryLockLapses, FaultKinds
<1>2. ASSUME NEW i \in Inst, Reader(i) \/ StartDrain(i) \/ SaveSnapshot(i) \/ AckAgain(i)
                             \/ Cleaning(i) \/ Heartbeat(i) \/ RenewFails(i)
      PROVE  NeverGained
  BY <1>2, SpentOnly
     DEF Reader, Read, ReadLate, StartDrain, SaveSnapshot, AckAgain, Cleaning, CleanupSnapshot,
         CompleteTurn, Heartbeat, RenewFails, FaultKinds
<1>3. ASSUME NEW i \in Inst, Processing(i) PROVE NeverGained
  BY <1>3, SpentOnly
     DEF Processing, Replay, Accumulate, EndOfAnswer, PersistGate, WriteMessage, WriteFails,
         NotifyObservers, NotifyFails, MarkPersisted, FaultKinds
<1>4. ASSUME NEW i \in Inst, Recovery(i) \/ Handoff(i) \/ ReleaseLease(i) \/ Exit(i) \/ Crash(i)
      PROVE  NeverGained
  BY <1>4, SpentOnly
     DEF Recovery, Scan, TakeRecoveryLock, StartPaused, StartRefused, ClaimPage, Resume,
         ClaimAckFailed, Handoff, ReleaseLease, Exit, Crash, FaultKinds
<1>5. ASSUME NEW i \in Inst, NEW t \in Threads, Thread(i, t) PROVE NeverGained
  BY <1>5, SpentOnly DEF Thread, Begin, Missing, Ack, AckFails, FaultKinds
<1> QED  BY <1>1, <1>2, <1>3, <1>4, <1>5 DEF Next

LEMMA StallStep ==
    ASSUME TypeOK, LeaseOfActive, [Next]_vars
    PROVE  StallsSpent
<1>1. faults'["stall"] <= faults["stall"] /\ faults["stall"] \in Nat /\ faults'["stall"] \in Nat
  BY FaultsStep, TypeStep DEF NeverGained, FaultKinds, TypeOK
<1> QED  BY <1>1, BoundsAssumption DEF StallsSpent, LeaseOfActive

\* A listener that stays paused on its pages keeps what it is working on, but
\* for what is acknowledged.
LEMMA PagesKept ==
    ASSUME PageHeld, StallsSpent,
           \A r \in Records : pel'[r] # NoOne => pel[r] # NoOne,
           \A i \in Inst : Paused(i)' /\ claim'[i].whole =>
               /\ Paused(i) /\ claim[i].whole
               /\ \A r \in Working(i) : r \in Working(i)' \/ pel'[r] = NoOne
    PROVE  PageHeld'
BY DEF PageHeld, StallsSpent, Pending

LEMMA ElsewhereKeepsPages ==
    ASSUME PageHeld, StallsSpent, UNCHANGED <<pel, listener, claim, work, toAck, ackRegistry>>
    PROVE  PageHeld'
BY DEF PageHeld, StallsSpent, Pending, Paused, Working

\* Its owner reads new records only while nobody is paused.
LEMMA ReadKeepsPages ==
    ASSUME TypeOK, LeaseOfActive, PageHeld, StallsSpent, NEW i \in Inst, Reader(i)
    PROVE  PageHeld'
<1>1. CASE Read(i)
  <2>1. listener[i] = "live" /\ UNCHANGED <<listener, claim>>
    BY <1>1 DEF Read
  <2>2. ASSUME faults["stall"] = MaxStalls, NEW j \in Inst, Paused(j) PROVE FALSE
    <3>1. i = j
      BY <2>1, <2>2 DEF LeaseOfActive, Active
    <3> QED  BY <2>1, <2>2, <3>1 DEF Paused
  <2> QED  BY <2>1, <2>2 DEF PageHeld, StallsSpent, Paused
<1>2. CASE ReadLate(i)
  <2>1. faults'["stall"] # MaxStalls
    BY <1>2, StallKept, BoundsAssumption DEF ReadLate
  <2> QED  BY <2>1 DEF PageHeld
<1> QED  BY <1>1, <1>2 DEF Reader

\* A batch of the drain is none of the claim's.
LEMMA StartDrainKeepsPages ==
    ASSUME TypeOK, PageHeld, StallsSpent, NEW i \in Inst, StartDrain(i)
    PROVE  PageHeld'
<1>1. \A j \in Inst : work'[j]["claim"] = work[j]["claim"]
  BY DEF StartDrain, TypeOK, Threads
<1>2. UNCHANGED <<pel, listener, claim, toAck, ackRegistry>>
  BY DEF StartDrain, redis
<1> QED  BY <1>1, <1>2 DEF PageHeld, StallsSpent, Pending, Paused, Working

\* Giving up ends the claim, or is the drain's.
LEMMA GiveUpKeepsPages ==
    ASSUME TypeOK, PageHeld, StallsSpent, NEW i \in Inst, NEW t \in Threads, GiveUp(i, t),
           UNCHANGED <<pel, listener, toAck>>
    PROVE  PageHeld'
<1>1. \A j \in Inst \ {i} : work'[j] = work[j] /\ claim'[j] = claim[j] /\ ackRegistry'[j] = ackRegistry[j]
  BY DEF GiveUp, TypeOK
<1>2. CASE t = "drain"
  <2>1. work'[i]["claim"] = work[i]["claim"] /\ UNCHANGED <<claim, ackRegistry>>
    BY <1>2 DEF GiveUp, TypeOK, Threads
  <2> QED  BY <1>1, <2>1 DEF PageHeld, StallsSpent, Pending, Paused, Working
<1>3. CASE t = "claim"
  <2>1. ~claim'[i].whole
    BY <1>3 DEF GiveUp, TypeOK, NoClaim
  <2> QED  BY <1>1, <2>1 DEF PageHeld, StallsSpent, Pending, Paused, Working
<1> QED  BY <1>2, <1>3 DEF Threads

\* A record that is processed waits for its acknowledgement.
LEMMA HandledKeepsPages ==
    ASSUME TypeOK, PageHeld, StallsSpent, NEW i \in Inst, Handled(i),
           UNCHANGED <<pel, listener, claim, ackRegistry>>
    PROVE  PageHeld'
<1>1. PICK t \in Threads : t = lock[i].by
  BY FieldsTyped
<1>2. /\ work' = [work EXCEPT ![i][t] = @ \ {lock[i].rec}]
      /\ toAck' = [toAck EXCEPT ![i][t] = @ \union {lock[i].rec}]
  BY <1>1 DEF Handled
<1>3. \A j \in Inst : Working(j) \subseteq Working(j)'
  BY <1>2 DEF Working, TypeOK, Threads
<1> QED  BY <1>3 DEF PageHeld, StallsSpent, Pending, Paused

LEMMA ProcessingKeepsPages ==
    ASSUME TypeOK, PageHeld, StallsSpent, NEW i \in Inst, Processing(i)
    PROVE  PageHeld'
<1>1. lock[i].by \in Threads
  BY FieldsTyped
<1>2. CASE Replay(i)
  <2>1. Handled(i) \/ UNCHANGED <<work, toAck>>
    BY <1>2 DEF Replay
  <2>2. UNCHANGED <<pel, listener, claim, ackRegistry>>
    BY <1>2 DEF Replay, redis
  <2> QED  BY <2>1, <2>2, HandledKeepsPages, ElsewhereKeepsPages
<1>3. CASE Accumulate(i) \/ MarkPersisted(i)
  BY <1>3, HandledKeepsPages DEF Accumulate, MarkPersisted, redis
<1>4. CASE EndOfAnswer(i) \/ PersistGate(i) \/ WriteMessage(i) \/ NotifyObservers(i)
  BY <1>4, ElsewhereKeepsPages DEF EndOfAnswer, PersistGate, WriteMessage, NotifyObservers, redis
<1>5. CASE WriteFails(i) \/ NotifyFails(i)
  BY <1>1, <1>5, GiveUpKeepsPages DEF WriteFails, NotifyFails, redis
<1> QED  BY <1>2, <1>3, <1>4, <1>5 DEF Processing

\* An acknowledged record is not pending; one whose acknowledgement fails is on record.
LEMMA AckedKeepsPages ==
    ASSUME TypeOK, PageHeld, StallsSpent, NEW i \in Inst, NEW r \in Records,
           Acknowledged(i, r), UNCHANGED <<listener, claim, work>>,
           \A j \in Inst : toAck[j]["claim"] \subseteq toAck'[j]["claim"] \union {r}
    PROVE  PageHeld'
<1>1. pel'[r] = NoOne /\ \A q \in Records : pel'[q] # NoOne => pel[q] # NoOne
  BY DEF Acknowledged, TypeOK
<1>2. \A j \in Inst : ackRegistry[j] \subseteq ackRegistry'[j] \union {r}
  BY DEF Acknowledged, TypeOK
<1>3. \A j \in Inst : \A q \in Working(j) : q \in Working(j)' \/ pel'[q] = NoOne
  BY <1>1, <1>2 DEF Working
<1> QED  BY <1>1, <1>3, PagesKept DEF Paused

LEMMA ThreadKeepsPages ==
    ASSUME TypeOK, PageHeld, StallsSpent, NEW i \in Inst, NEW t \in Threads, Thread(i, t)
    PROVE  PageHeld'
<1>1. CASE Begin(i, t)
  BY <1>1, ElsewhereKeepsPages DEF Begin, redis
<1>2. CASE Missing(i, t)
  BY <1>2, GiveUpKeepsPages DEF Missing, redis
<1>3. CASE Ack(i, t)
  <2>1. PICK r \in toAck[i][t] : toAck' = [toAck EXCEPT ![i][t] = @ \ {r}] /\ Acknowledged(i, r)
    BY <1>3 DEF Ack
  <2>2. r \in Records
    BY FieldsTyped
  <2>3. \A j \in Inst : toAck[j]["claim"] \subseteq toAck'[j]["claim"] \union {r}
    BY <2>1 DEF TypeOK, Threads
  <2> QED  BY <1>3, <2>1, <2>2, <2>3, AckedKeepsPages DEF Ack
<1>4. CASE AckFails(i, t)
  <2>1. PICK r \in toAck[i][t] :
          /\ toAck' = [toAck EXCEPT ![i][t] = @ \ {r}]
          /\ IF t = "drain" /\ Active(i) THEN UNCHANGED ackRegistry
             ELSE ackRegistry' = [ackRegistry EXCEPT ![i] = @ \union {r}]
    BY <1>4 DEF AckFails
  <2>2. UNCHANGED <<pel, listener, claim, work>>
    BY <1>4 DEF AckFails, redis
  <2>3. \A j \in Inst : Working(j) \subseteq Working(j)'
    <3>1. CASE t = "drain"
      BY <2>1, <2>2, <3>1 DEF Working, TypeOK, Threads
    <3>2. CASE t # "drain"
      BY <2>1, <2>2, <3>2 DEF Working, TypeOK, Threads
    <3> QED  BY <3>1, <3>2
  <2> QED  BY <2>2, <2>3 DEF PageHeld, StallsSpent, Pending, Paused
<1> QED  BY <1>1, <1>2, <1>3, <1>4 DEF Thread

LEMMA AckAgainKeepsPages ==
    ASSUME TypeOK, PageHeld, StallsSpent, NEW i \in Inst, AckAgain(i)
    PROVE  PageHeld'
<1>1. PICK r \in ackRetry[i] :
          \/ Acknowledged(i, r)
          \/ ackRegistry' = [ackRegistry EXCEPT ![i] = @ \union {r}] /\ UNCHANGED pel
  BY DEF AckAgain
<1>2. r \in Records /\ UNCHANGED <<listener, claim, work, toAck>>
  BY DEF AckAgain, TypeOK
<1>3. CASE Acknowledged(i, r)
  BY <1>2, <1>3, AckedKeepsPages
<1>4. CASE ackRegistry' = [ackRegistry EXCEPT ![i] = @ \union {r}] /\ UNCHANGED pel
  <2>1. \A j \in Inst : Working(j) \subseteq Working(j)'
    BY <1>2, <1>4 DEF Working, TypeOK
  <2> QED  BY <1>2, <1>4, <2>1 DEF PageHeld, StallsSpent, Pending, Paused
<1> QED  BY <1>1, <1>3, <1>4

\* A listener that stops, or whose process does, is not paused any more.
LEMMA StopKeepsPages ==
    ASSUME TypeOK, PageHeld, StallsSpent, NEW i \in Inst,
           \/ RenewFails(i) \/ CompleteTurn(i) \/ Handoff(i) \/ Exit(i) \/ Crash(i)
    PROVE  PageHeld'
<1>1. /\ UNCHANGED pel
      /\ \A j \in Inst \ {i} : /\ listener'[j] = listener[j] /\ claim'[j] = claim[j]
                               /\ Working(j)' = Working(j)
  <2>1. CASE RenewFails(i)
    BY <2>1 DEF RenewFails, StopListener, Working, TypeOK
  <2>2. CASE CompleteTurn(i)
    BY <2>2 DEF CompleteTurn, EndTurn, StopListener, Working, TypeOK
  <2>3. CASE Handoff(i)
    BY <2>3 DEF Handoff, Working, TypeOK
  <2>4. CASE Exit(i) \/ Crash(i)
    BY <2>4 DEF Exit, Crash, Down, redis, Working, TypeOK
  <2> QED  BY <2>1, <2>2, <2>3, <2>4
<1>2. ~Paused(i)' \/ (listener'[i] = listener[i] /\ claim'[i] = claim[i] /\ Working(i)' = Working(i))
  <2>1. CASE RenewFails(i)
    BY <2>1 DEF RenewFails, StopListener, Paused, TypeOK
  <2>2. CASE CompleteTurn(i)
    <3>1. CASE Active(i)
      BY <2>2, <3>1 DEF CompleteTurn, EndTurn, StopListener, Paused, TypeOK
    <3>2. CASE ~Active(i)
      BY <2>2, <3>2 DEF CompleteTurn, EndTurn, Working
    <3> QED  BY <3>1, <3>2
  <2>3. CASE Handoff(i)
    <3>1. CASE Active(i)
      BY <2>3, <3>1 DEF Handoff, Paused, TypeOK
    <3>2. CASE ~Active(i)
      BY <2>3, <3>2 DEF Handoff, Working
    <3> QED  BY <3>1, <3>2
  <2>4. CASE Exit(i) \/ Crash(i)
    BY <2>4 DEF Exit, Crash, Down, Paused, TypeOK
  <2> QED  BY <2>1, <2>2, <2>3, <2>4
<1> QED  BY <1>1, <1>2 DEF PageHeld, StallsSpent, Pending, Paused

\* A page is what is pending and not on record; what it claims stays pending.
LEMMA RecoveryKeepsPages ==
    ASSUME TypeOK, PageHeld, StallsSpent, NEW i \in Inst, Recovery(i)
    PROVE  PageHeld'
<1>1. CASE Scan(i) \/ TakeRecoveryLock(i) \/ StartRefused(i)
  BY <1>1, ElsewhereKeepsPages DEF Scan, TakeRecoveryLock, StartRefused, redis
<1>2. CASE StartPaused(i)
  <2>1. ~claim'[i].whole /\ UNCHANGED <<pel, work, toAck, ackRegistry>>
    BY <1>2 DEF StartPaused, NoClaim, TypeOK
  <2>2. \A j \in Inst \ {i} : listener'[j] = listener[j] /\ claim'[j] = claim[j]
    BY <1>2 DEF StartPaused, TypeOK
  <2> QED  BY <2>1, <2>2 DEF PageHeld, StallsSpent, Pending, Paused, Working
<1>3. CASE Resume(i)
  <2>1. ~Paused(i)' /\ UNCHANGED <<pel, work, toAck, ackRegistry>>
    BY <1>3 DEF Resume, Paused, TypeOK, redis
  <2>2. \A j \in Inst \ {i} : listener'[j] = listener[j] /\ claim'[j] = claim[j]
    BY <1>3 DEF Resume, TypeOK
  <2> QED  BY <2>1, <2>2 DEF PageHeld, StallsSpent, Pending, Paused, Working
<1>4. CASE ClaimPage(i)
  <2>1. PICK P \in SUBSET Page(i) :
          /\ pel' = [r \in Records |-> IF r \in P THEN i ELSE pel[r]]
          /\ work' = [work EXCEPT ![i]["claim"] = P]
          /\ claim' = [claim EXCEPT ![i] = [ids |-> P, paged |-> TRUE,
                                            whole |-> Paused(i) /\ P = Page(i)]]
    BY <1>4 DEF ClaimPage, UpTo
  <2>2. UNCHANGED <<listener, toAck, ackRegistry>>
    BY <1>4 DEF ClaimPage
  <2>3. Pending' \subseteq Pending
    BY <2>1 DEF Pending, Page
  <2>4. claim'[i].whole => Pending \subseteq Working(i)'
    <3>1. claim'[i].whole => P = Page(i) /\ Paused(i)
      BY <2>1 DEF TypeOK
    <3>2. P \union ackRegistry[i] \subseteq Working(i)'
      BY <2>1, <2>2 DEF Working, TypeOK, Threads
    <3>3. Paused(i) => Pending \subseteq Page(i) \union ackRegistry[i]
      BY DEF Page
    <3> QED  BY <3>1, <3>2, <3>3
  <2>5. \A j \in Inst \ {i} : claim'[j] = claim[j] /\ Working(j)' = Working(j)
    BY <2>1, <2>2 DEF Working, TypeOK
  <2> QED  BY <2>2, <2>3, <2>4, <2>5 DEF PageHeld, StallsSpent, Paused
<1>5. CASE ClaimAckFailed(i)
  <2>1. listener[i] = "live" /\ UNCHANGED <<listener, toAck>>
    BY <1>5 DEF ClaimAckFailed
  <2>2. Pending' \subseteq Pending
    BY <1>5 DEF ClaimAckFailed, Pending
  <2>3. \A j \in Inst \ {i} : claim'[j] = claim[j] /\ Working(j)' = Working(j)
    BY <1>5 DEF ClaimAckFailed, Working, TypeOK
  <2> QED  BY <2>1, <2>2, <2>3 DEF PageHeld, StallsSpent, Paused
<1> QED  BY <1>1, <1>2, <1>3, <1>4, <1>5 DEF Recovery

LEMMA PagesStep ==
    ASSUME TypeOK, LeaseOfActive, PageHeld, [Next]_vars
    PROVE  PageHeld'
<1>1. StallsSpent
  BY StallStep
<1>2. CASE UNCHANGED vars \/ Produce \/ Keys
  BY <1>1, <1>2, ElsewhereKeepsPages
     DEF vars, redis, local, Produce, Keys, HeartbeatLapses, LeaseLapses, RecoveryLockLapses
<1>3. ASSUME NEW i \in Inst,
             SaveSnapshot(i) \/ CleanupSnapshot(i) \/ Heartbeat(i) \/ ReleaseLease(i)
      PROVE  PageHeld'
  BY <1>1, <1>3, ElsewhereKeepsPages DEF SaveSnapshot, CleanupSnapshot, Heartbeat, ReleaseLease, local
<1> QED
  BY <1>1, <1>2, <1>3, ReadKeepsPages, StartDrainKeepsPages, ProcessingKeepsPages,
     ThreadKeepsPages, AckAgainKeepsPages, StopKeepsPages, RecoveryKeepsPages
  DEF Next, Cleaning

\* Only Resume lets a paused listener read.
LEMMA BarrierOpens ==
    ASSUME TypeOK, [Next]_vars, NEW i \in Inst, Paused(i), listener'[i] = "live"
    PROVE  Resume(i)
<1>1. ASSUME NEW j \in Inst, RenewFails(j) \/ CompleteTurn(j) \/ Handoff(j) \/ Exit(j) \/ Crash(j)
      PROVE  FALSE
  <2>1. \/ UNCHANGED listener
        \/ listener' = [listener EXCEPT ![j] = "closed"]
        \/ listener' = [listener EXCEPT ![j] = "none"]
    BY <1>1 DEF RenewFails, CompleteTurn, EndTurn, StopListener, Handoff, Exit, Crash, Down
  <2> QED  BY <2>1 DEF Paused, TypeOK
<1>2. ASSUME NEW j \in Inst, StartPaused(j) PROVE FALSE
  <2>1. listener' = [listener EXCEPT ![j] = "paused"] \/ listener' = [listener EXCEPT ![j] = "pausedNow"]
    BY <1>2 DEF StartPaused
  <2> QED  BY <2>1 DEF Paused, TypeOK
<1>3. ASSUME NEW j \in Inst, Resume(j) PROVE Resume(i)
  BY <1>3 DEF Resume, Paused, TypeOK
<1>4. ~UNCHANGED listener
  BY DEF Paused
<1>5. ASSUME NEW j \in Inst, Processing(j) PROVE FALSE
  BY <1>4, <1>5
     DEF Processing, Replay, Accumulate, EndOfAnswer, PersistGate, WriteMessage, WriteFails,
         NotifyObservers, NotifyFails, MarkPersisted
<1>6. ASSUME NEW j \in Inst, NEW t \in Threads, Thread(j, t) PROVE FALSE
  BY <1>4, <1>6 DEF Thread, Begin, Missing, Ack, AckFails
<1>7. ASSUME NEW j \in Inst, Reader(j) \/ StartDrain(j) \/ SaveSnapshot(j) \/ AckAgain(j)
                \/ CleanupSnapshot(j) \/ Heartbeat(j) \/ ReleaseLease(j)
      PROVE  FALSE
  BY <1>4, <1>7 DEF Reader, Read, ReadLate, StartDrain, SaveSnapshot, AckAgain, CleanupSnapshot,
                    Heartbeat, ReleaseLease, local
<1>8. ASSUME NEW j \in Inst, Scan(j) \/ TakeRecoveryLock(j) \/ StartRefused(j) \/ ClaimPage(j)
                             \/ ClaimAckFailed(j)
      PROVE  FALSE
  BY <1>4, <1>8 DEF Scan, TakeRecoveryLock, StartRefused, ClaimPage, ClaimAckFailed
<1>9. CASE UNCHANGED vars \/ Produce \/ Keys
  BY <1>4, <1>9
     DEF vars, local, Produce, Keys, HeartbeatLapses, LeaseLapses, RecoveryLockLapses
<1> QED
  BY <1>1, <1>2, <1>3, <1>5, <1>6, <1>7, <1>8, <1>9 DEF Next, Recovery, Cleaning

\* A takeover lets its listener read new records only when every delivered one
\* is acknowledged or waits for nothing but its acknowledgement
\* (SessionStreamRecoveryService, the paused listener and its pages).
THEOREM BarrierKept == Spec => RecoveryBarrier
<1> DEFINE Inv == TypeOK /\ LeaseOfActive /\ PageHeld
           Barrier == \A i \in Inst : NoListenerLost /\ Paused(i) /\ listener'[i] = "live" =>
                         \A r \in 1..delivered : pel[r] = NoOne \/ r \in ackRegistry[i]
<1>1. Init => Inv
  <2>1. Init => \A i \in Inst : ~claim[i].whole
    <3>1. ~NoClaim.whole
      BY DEF NoClaim
    <3> QED  BY <3>1 DEF Init
  <2>2. Init => PageHeld
    BY <2>1 DEF PageHeld
  <2> QED  BY <2>2, InitTyped, LeaseStart
<1>2. Inv /\ [Next]_vars => Inv'
  BY TypeStep, LeaseStep, PagesStep
<1>3. Inv /\ [Next]_vars => [Barrier]_vars
  <2> SUFFICES ASSUME Inv, [Next]_vars, NEW i \in Inst, NoListenerLost, Paused(i),
                      listener'[i] = "live", NEW r \in 1..delivered, pel[r] # NoOne
               PROVE  r \in ackRegistry[i]
    OBVIOUS
  <2>1. Resume(i)
    BY BarrierOpens
  <2>2. r \in Pending
    BY NAssumption DEF Pending, Records, TypeOK
  <2>3. CASE Page(i) = {}
    BY <2>2, <2>3 DEF Page
  <2>4. CASE claim[i].whole
    BY <2>1, <2>2, <2>4 DEF PageHeld, NoListenerLost, Working, Resume, ClaimIdle
  <2> QED  BY <2>1, <2>3, <2>4 DEF Resume
<1> QED  BY <1>1, <1>2, <1>3, PTL DEF Spec, RecoveryBarrier

-----------------------------------------------------------------------------
(***************************************************************************)
(* The release. Nobody has the terminal record before it was read, so who  *)
(* acknowledges it does so for good; the cleanup starts no earlier, and    *)
(* nothing else ends a turn whose owner has its listener.                  *)
(***************************************************************************)
Nowhere ==
    /\ pel[N] = NoOne
    /\ \A i \in Inst :
          /\ N \notin buf[i] /\ N \notin ackRetry[i] /\ lock[i].rec # N
          /\ \A t \in Threads : N \notin work[i][t] /\ N \notin toAck[i][t]
TerminalRead == delivered = N \/ Nowhere
CleanupAcked == \A i \in Inst : cleanup[i] # "none" => TerminalAcked
ReleasedAcked == NoListenerLost /\ runtime.status = "none" => TerminalAcked

ReleaseInv ==
    /\ faults["renew"] <= MaxRenewFaults
    /\ TerminalRead /\ CleanupAcked /\ ReleasedAcked

\* A step that reads nothing finds the terminal record where it was.
LEMMA NowhereKept ==
    ASSUME TypeOK, Nowhere, [Next]_vars, UNCHANGED delivered
    PROVE  Nowhere'
<1>0. N \in Records /\ Free.rec # N
  BY NAssumption DEF Records, Free
<1>1. CASE UNCHANGED vars \/ Produce \/ Keys
  BY <1>1 DEF vars, redis, local, Produce, Keys, HeartbeatLapses, LeaseLapses,
              RecoveryLockLapses, Nowhere
<1>2. ASSUME NEW i \in Inst,
             SaveSnapshot(i) \/ CleanupSnapshot(i) \/ Heartbeat(i) \/ ReleaseLease(i)
      PROVE  Nowhere'
  BY <1>2 DEF SaveSnapshot, CleanupSnapshot, Heartbeat, ReleaseLease, local, Nowhere
<1>3. ASSUME NEW i \in Inst, Reader(i) \/ StartDrain(i) PROVE Nowhere'
  <2>1. ~Reader(i)
    BY DEF Reader, Read, ReadLate, TypeOK
  <2>2. StartDrain(i)
    BY <1>3, <2>1
  <2>3. \A j \in Inst : /\ buf'[j] \subseteq buf[j]
                        /\ \A t \in Threads : work'[j][t] \subseteq work[j][t] \union buf[j]
    BY <2>2 DEF StartDrain, UpTo, TypeOK
  <2> QED  BY <2>2, <2>3 DEF StartDrain, redis, Nowhere
<1>4. ASSUME NEW i \in Inst, NEW t \in Threads, GiveUp(i, t),
             UNCHANGED <<pel, ackRetry, toAck>>, UNCHANGED lock \/ lock' = [lock EXCEPT ![i] = Free]
      PROVE  Nowhere'
  <2>1. \A j \in Inst : /\ \A u \in Threads : work'[j][u] \subseteq work[j][u]
                        /\ buf'[j] \subseteq buf[j] \union work[j][t]
    BY <1>4 DEF GiveUp, TypeOK
  <2>2. \A j \in Inst : lock'[j].rec # N
    BY <1>0, <1>4 DEF TypeOK, Nowhere
  <2> QED  BY <1>4, <2>1, <2>2 DEF Nowhere
<1>5. ASSUME NEW i \in Inst, Handled(i), UNCHANGED <<pel, buf, ackRetry>>
      PROVE  Nowhere'
  <2>1. lock[i].by \in Threads /\ lock[i].rec # N
    BY FieldsTyped DEF Nowhere
  <2>2. \A j \in Inst : /\ lock'[j].rec # N
                        /\ \A u \in Threads : /\ work'[j][u] \subseteq work[j][u]
                                              /\ toAck'[j][u] \subseteq toAck[j][u] \union {lock[i].rec}
    BY <1>0, <1>5, <2>1 DEF Handled, TypeOK, Nowhere
  <2> QED  BY <1>5, <2>1, <2>2 DEF Nowhere
<1>6. ASSUME NEW i \in Inst, Processing(i) PROVE Nowhere'
  <2>1. lock[i].by \in Threads
    BY FieldsTyped
  <2>2. CASE WriteFails(i) \/ NotifyFails(i)
    BY <1>4, <2>1, <2>2 DEF WriteFails, NotifyFails, redis
  <2>3. CASE Accumulate(i) \/ MarkPersisted(i)
    BY <1>5, <2>3 DEF Accumulate, MarkPersisted, redis
  <2>4. CASE EndOfAnswer(i) \/ PersistGate(i) \/ WriteMessage(i) \/ NotifyObservers(i)
    <3>1. PICK pc \in {"persist", "write", "notify", "mark"} : lock' = [lock EXCEPT ![i].pc = pc]
      BY <2>4 DEF EndOfAnswer, PersistGate, WriteMessage, NotifyObservers
    <3>2. \A j \in Inst : lock'[j].rec = lock[j].rec
      BY <3>1 DEF TypeOK, LockType, Free
    <3> QED
      BY <2>4, <3>2 DEF EndOfAnswer, PersistGate, WriteMessage, NotifyObservers, redis, Nowhere
  <2>5. CASE Replay(i)
    <3>1. UNCHANGED <<pel, buf, ackRetry>>
      BY <2>5 DEF Replay, redis
    <3>2. lock[i].rec # N
      BY DEF Nowhere
    <3> QED  BY <1>5, <2>5, <3>1, <3>2 DEF Replay
  <2> QED  BY <1>6, <2>2, <2>3, <2>4, <2>5 DEF Processing
<1>7. ASSUME NEW i \in Inst, NEW r \in Records, Acknowledged(i, r) PROVE pel'[N] = NoOne
  BY <1>0, <1>7 DEF Acknowledged, TypeOK, Nowhere
<1>8. ASSUME NEW i \in Inst, NEW t \in Threads, Thread(i, t) PROVE Nowhere'
  <2>1. CASE Begin(i, t)
    <3>1. PICK r \in work[i][t] : lock' = [lock EXCEPT ![i] = [pc |-> "seen", by |-> t, rec |-> r]]
      BY <2>1 DEF Begin
    <3>2. \A j \in Inst : lock'[j].rec # N
      BY <3>1 DEF Nowhere, TypeOK
    <3> QED  BY <2>1, <3>2 DEF Begin, redis, Nowhere
  <2>2. CASE Missing(i, t)
    BY <1>4, <2>2 DEF Missing, redis
  <2>3. CASE Ack(i, t)
    <3>1. PICK r \in toAck[i][t] : toAck' = [toAck EXCEPT ![i][t] = @ \ {r}] /\ Acknowledged(i, r)
      BY <2>3 DEF Ack
    <3>2. pel'[N] = NoOne
      BY <1>7, <3>1, FieldsTyped
    <3>3. \A j \in Inst, u \in Threads : toAck'[j][u] \subseteq toAck[j][u]
      BY <3>1 DEF TypeOK
    <3> QED  BY <2>3, <3>2, <3>3 DEF Ack, Nowhere
  <2>4. CASE AckFails(i, t)
    <3>1. PICK r \in toAck[i][t] :
            /\ toAck' = [toAck EXCEPT ![i][t] = @ \ {r}]
            /\ UNCHANGED ackRetry \/ ackRetry' = [ackRetry EXCEPT ![i] = @ \union {r}]
      BY <2>4 DEF AckFails
    <3>2. \A j \in Inst : /\ N \notin ackRetry'[j]
                          /\ \A u \in Threads : toAck'[j][u] \subseteq toAck[j][u]
      BY <3>1 DEF TypeOK, Nowhere
    <3> QED  BY <2>4, <3>2 DEF AckFails, redis, Nowhere
  <2> QED  BY <1>8, <2>1, <2>2, <2>3, <2>4 DEF Thread
<1>9. ASSUME NEW i \in Inst, AckAgain(i) PROVE Nowhere'
  <2>1. PICK r \in ackRetry[i] : /\ ackRetry' = [ackRetry EXCEPT ![i] = @ \ {r}]
                                 /\ Acknowledged(i, r) \/ UNCHANGED pel
    BY <1>9 DEF AckAgain
  <2>2. pel'[N] = NoOne
    BY <1>7, <2>1 DEF TypeOK, Nowhere
  <2>3. \A j \in Inst : ackRetry'[j] \subseteq ackRetry[j]
    BY <2>1 DEF TypeOK
  <2> QED  BY <1>9, <2>2, <2>3 DEF AckAgain, Nowhere
<1>10. ASSUME NEW i \in Inst,
              RenewFails(i) \/ CompleteTurn(i) \/ Handoff(i) \/ Exit(i) \/ Crash(i)
       PROVE  Nowhere'
  <2>1. CASE Exit(i) \/ Crash(i)
    <3>1. Down(i) /\ UNCHANGED pel
      BY <2>1 DEF Exit, Crash, Down, redis
    <3>2. \A j \in Inst : /\ buf'[j] \subseteq buf[j] /\ ackRetry'[j] \subseteq ackRetry[j]
                          /\ \A t \in Threads : /\ work'[j][t] \subseteq work[j][t]
                                                /\ toAck'[j][t] \subseteq toAck[j][t]
      BY <3>1 DEF Down, Nothing, TypeOK
    <3>3. \A j \in Inst : lock'[j] = lock[j] \/ lock'[j] = Free
      BY <3>1 DEF Down, TypeOK
    <3> QED  BY <1>0, <3>1, <3>2, <3>3 DEF Nowhere
  <2>2. CASE RenewFails(i) \/ CompleteTurn(i) \/ Handoff(i)
    <3>1. UNCHANGED buf \/ buf' = [buf EXCEPT ![i] = {}]
      BY <2>2 DEF RenewFails, CompleteTurn, EndTurn, StopListener, Handoff
    <3>2. \A j \in Inst : buf'[j] \subseteq buf[j]
      BY <3>1 DEF TypeOK
    <3> QED  BY <2>2, <3>2 DEF RenewFails, CompleteTurn, Handoff, Nowhere
  <2> QED  BY <1>10, <2>1, <2>2
<1>11. ASSUME NEW i \in Inst, Recovery(i) PROVE Nowhere'
  <2>1. CASE ClaimPage(i) \/ ClaimAckFailed(i)
    <3>1. PICK P \in SUBSET Pending : /\ pel' = [r \in Records |-> IF r \in P THEN i ELSE pel[r]]
                                      /\ work' = [work EXCEPT ![i]["claim"] = P]
      <4>1. CASE ClaimPage(i)
        <5>1. PICK last \in Page(i) :
                 LET P == UpTo(Page(i), last) IN
                 /\ pel' = [r \in Records |-> IF r \in P THEN i ELSE pel[r]]
                 /\ work' = [work EXCEPT ![i]["claim"] = P]
          BY <4>1 DEF ClaimPage
        <5>2. UpTo(Page(i), last) \in SUBSET Pending
          BY DEF UpTo, Page
        <5> QED  BY <5>1, <5>2
      <4>2. CASE ClaimAckFailed(i)
        BY <4>2 DEF ClaimAckFailed
      <4> QED  BY <2>1, <4>1, <4>2
    <3>2. N \notin P
      BY DEF Pending, Nowhere
    <3>3. \A j \in Inst, u \in Threads : N \notin work'[j][u]
      BY <3>1, <3>2 DEF TypeOK, Nowhere
    <3> QED  BY <1>0, <2>1, <3>1, <3>2, <3>3 DEF ClaimPage, ClaimAckFailed, Nowhere
  <2>2. CASE Scan(i) \/ TakeRecoveryLock(i) \/ StartPaused(i) \/ StartRefused(i) \/ Resume(i)
    BY <2>2 DEF Scan, TakeRecoveryLock, StartPaused, StartRefused, Resume, redis, Nowhere
  <2> QED  BY <1>11, <2>1, <2>2 DEF Recovery
<1> QED
  BY <1>1, <1>2, <1>3, <1>6, <1>8, <1>9, <1>10, <1>11 DEF Next, Cleaning

\* The terminal record is acknowledged for good.
LEMMA AckedForGood ==
    ASSUME TypeOK, TerminalAcked, [Next]_vars
    PROVE  TerminalAcked'
<1>0. N \in Records
  BY NAssumption DEF Records
<1>1. \A i \in Inst : ~Reader(i)
  BY DEF Reader, Read, ReadLate, TypeOK, TerminalAcked
<1>2. CASE UNCHANGED vars \/ Produce \/ Keys
  BY <1>2 DEF vars, redis, Produce, Keys, HeartbeatLapses, LeaseLapses, RecoveryLockLapses,
              TerminalAcked
<1>3. ASSUME NEW i \in Inst, NEW r \in Records, Acknowledged(i, r), UNCHANGED delivered
      PROVE  TerminalAcked'
  BY <1>0, <1>3 DEF Acknowledged, TypeOK, TerminalAcked
<1>4. ASSUME NEW i \in Inst,
             \/ StartDrain(i) \/ SaveSnapshot(i) \/ Cleaning(i) \/ Heartbeat(i) \/ RenewFails(i)
             \/ Handoff(i) \/ ReleaseLease(i) \/ Exit(i) \/ Crash(i)
      PROVE  TerminalAcked'
  BY <1>4 DEF StartDrain, SaveSnapshot, Cleaning, CleanupSnapshot, CompleteTurn, Heartbeat,
              RenewFails, Handoff, ReleaseLease, Exit, Crash, Down, redis, TerminalAcked
<1>5. ASSUME NEW i \in Inst, Processing(i) PROVE TerminalAcked'
  BY <1>5 DEF Processing, Replay, Accumulate, EndOfAnswer, PersistGate, WriteMessage, WriteFails,
              NotifyObservers, NotifyFails, MarkPersisted, redis, TerminalAcked
<1>6. ASSUME NEW i \in Inst, NEW t \in Threads, Thread(i, t) PROVE TerminalAcked'
  <2>1. CASE Ack(i, t)
    BY <1>3, <2>1, FieldsTyped DEF Ack
  <2> QED  BY <1>6, <2>1 DEF Thread, Begin, Missing, AckFails, redis, TerminalAcked
<1>7. ASSUME NEW i \in Inst, AckAgain(i) PROVE TerminalAcked'
  <2>1. PICK r \in ackRetry[i] : Acknowledged(i, r) \/ UNCHANGED pel
    BY <1>7 DEF AckAgain
  <2>2. r \in Records /\ UNCHANGED delivered
    BY <1>7 DEF AckAgain, TypeOK
  <2> QED  BY <1>3, <2>1, <2>2 DEF TerminalAcked
<1>8. ASSUME NEW i \in Inst, Recovery(i) PROVE TerminalAcked'
  <2>1. CASE ClaimPage(i) \/ ClaimAckFailed(i)
    <3>1. \A r \in Records : pel[r] = NoOne => pel'[r] = NoOne
      BY <2>1 DEF ClaimPage, ClaimAckFailed, Page, UpTo, Pending
    <3> QED  BY <1>0, <2>1, <3>1 DEF ClaimPage, ClaimAckFailed, TerminalAcked
  <2> QED
    BY <1>8, <2>1
    DEF Recovery, Scan, TakeRecoveryLock, StartPaused, StartRefused, Resume, redis, TerminalAcked
<1> QED  BY <1>1, <1>2, <1>4, <1>5, <1>6, <1>7, <1>8 DEF Next

LEMMA TerminalReadKept ==
    ASSUME TypeOK, TerminalRead, [Next]_vars
    PROVE  TerminalRead'
<1>1. CASE UNCHANGED delivered
  BY <1>1, NowhereKept DEF TerminalRead
<1>2. ASSUME NEW i \in Inst, Reader(i) PROVE TerminalRead'
  <2>1. /\ delivered < produced /\ delivered' = delivered + 1
        /\ pel' = [pel EXCEPT ![delivered + 1] = i]
        /\ UNCHANGED buf \/ buf' = [buf EXCEPT ![i] = @ \union {delivered + 1}]
        /\ UNCHANGED <<work, toAck, lock, ackRetry>>
    BY <1>2 DEF Reader, Read, ReadLate, local
  <2>2. Nowhere
    BY <2>1 DEF TerminalRead, TypeOK
  <2>3. CASE delivered + 1 = N
    BY <2>1, <2>3 DEF TerminalRead
  <2>4. CASE delivered + 1 # N
    <3>1. pel'[N] = NoOne /\ \A j \in Inst : N \notin buf'[j]
      <4>1. N \in Records
        BY NAssumption DEF Records
      <4>2. pel'[N] = NoOne
        BY <2>1, <2>2, <2>4, <4>1 DEF Nowhere, TypeOK
      <4>3. ASSUME NEW j \in Inst PROVE N \notin buf'[j]
        <5>1. buf'[j] \subseteq buf[j] \union {delivered + 1}
          BY <2>1 DEF TypeOK
        <5> QED  BY <2>2, <2>4, <5>1 DEF Nowhere
      <4> QED  BY <4>2, <4>3
    <3> QED  BY <2>1, <2>2, <3>1 DEF TerminalRead, Nowhere
  <2> QED  BY <2>3, <2>4
<1>3. UNCHANGED delivered \/ \E i \in Inst : Reader(i)
  <2>1. CASE UNCHANGED vars \/ Produce \/ Keys
    BY <2>1 DEF vars, redis, Produce, Keys, HeartbeatLapses, LeaseLapses, RecoveryLockLapses
  <2>2. ASSUME NEW i \in Inst,
               \/ StartDrain(i) \/ SaveSnapshot(i) \/ AckAgain(i) \/ Cleaning(i) \/ Heartbeat(i)
               \/ RenewFails(i) \/ Handoff(i) \/ ReleaseLease(i) \/ Exit(i) \/ Crash(i)
        PROVE  UNCHANGED delivered
    BY <2>2 DEF StartDrain, SaveSnapshot, AckAgain, Cleaning, CleanupSnapshot, CompleteTurn,
                Heartbeat, RenewFails, Handoff, ReleaseLease, Exit, Crash, Down, redis
  <2>3. ASSUME NEW i \in Inst, Processing(i) PROVE UNCHANGED delivered
    BY <2>3 DEF Processing, Replay, Accumulate, EndOfAnswer, PersistGate, WriteMessage,
                WriteFails, NotifyObservers, NotifyFails, MarkPersisted, redis
  <2>4. ASSUME NEW i \in Inst, NEW t \in Threads, Thread(i, t) PROVE UNCHANGED delivered
    BY <2>4 DEF Thread, Begin, Missing, Ack, AckFails, redis
  <2>5. ASSUME NEW i \in Inst, Recovery(i) PROVE UNCHANGED delivered
    BY <2>5 DEF Recovery, Scan, TakeRecoveryLock, StartPaused, StartRefused, ClaimPage, Resume,
                ClaimAckFailed, redis
  <2> QED  BY <2>1, <2>2, <2>3, <2>4, <2>5 DEF Next
<1> QED  BY <1>1, <1>2, <1>3

\* Who acknowledges the terminal record finds it read.
LEMMA AcknowledgedTerminal ==
    ASSUME TypeOK, TerminalRead, CleanupAcked, NEW i \in Inst, NEW r \in Records,
           Acknowledged(i, r), UNCHANGED delivered, r = N => ~Nowhere,
           TerminalAcked => TerminalAcked'
    PROVE  CleanupAcked'
<1>1. CASE r = N
  <2>1. TerminalAcked'
    BY <1>1 DEF Acknowledged, TypeOK, TerminalRead, TerminalAcked
  <2> QED  BY <2>1 DEF CleanupAcked
<1>2. CASE r # N
  BY <1>2 DEF Acknowledged, CleanupAcked
<1> QED  BY <1>1, <1>2

\* The cleanup starts with an acknowledged terminal record.
LEMMA CleanupKept ==
    ASSUME TypeOK, TerminalRead, CleanupAcked, [Next]_vars
    PROVE  CleanupAcked'
<1>0. TerminalAcked => TerminalAcked'
  BY AckedForGood
<1>1. ASSUME UNCHANGED cleanup PROVE CleanupAcked'
  BY <1>0, <1>1 DEF CleanupAcked
<1>2. CASE UNCHANGED vars \/ Produce \/ Keys
  BY <1>1, <1>2
     DEF vars, local, Produce, Keys, HeartbeatLapses, LeaseLapses, RecoveryLockLapses
<1>3. ASSUME NEW i \in Inst,
             \/ Reader(i) \/ StartDrain(i) \/ SaveSnapshot(i) \/ Heartbeat(i) \/ RenewFails(i)
             \/ Handoff(i) \/ ReleaseLease(i)
      PROVE  CleanupAcked'
  BY <1>1, <1>3 DEF Reader, Read, ReadLate, StartDrain, SaveSnapshot, Heartbeat, RenewFails,
                    Handoff, ReleaseLease, local
<1>4. ASSUME NEW i \in Inst, Cleaning(i) \/ Exit(i) \/ Crash(i) PROVE CleanupAcked'
  <2>1. \A j \in Inst : cleanup'[j] # "none" => cleanup[j] # "none"
    BY <1>4 DEF Cleaning, CleanupSnapshot, CompleteTurn, Exit, Crash, Down, TypeOK
  <2> QED  BY <1>0, <2>1 DEF CleanupAcked
<1>5. ASSUME NEW i \in Inst, Processing(i) PROVE CleanupAcked'
  BY <1>1, <1>5
     DEF Processing, Replay, Accumulate, EndOfAnswer, PersistGate, WriteMessage, WriteFails,
         NotifyObservers, NotifyFails, MarkPersisted
<1>6. ASSUME NEW i \in Inst, NEW t \in Threads, Thread(i, t) PROVE CleanupAcked'
  <2>1. CASE Ack(i, t)
    <3>1. PICK r \in toAck[i][t] : Acknowledged(i, r)
      BY <2>1 DEF Ack
    <3>2. r \in Records /\ (r = N => ~Nowhere)
      BY FieldsTyped DEF Nowhere
    <3> QED  BY <1>0, <2>1, <3>1, <3>2, AcknowledgedTerminal DEF Ack
  <2> QED  BY <1>1, <1>6, <2>1 DEF Thread, Begin, Missing, AckFails
<1>7. ASSUME NEW i \in Inst, AckAgain(i) PROVE CleanupAcked'
  <2>1. PICK r \in ackRetry[i] : Acknowledged(i, r) \/ UNCHANGED cleanup
    BY <1>7 DEF AckAgain
  <2>2. r \in Records /\ (r = N => ~Nowhere) /\ UNCHANGED delivered
    BY <1>7 DEF AckAgain, TypeOK, Nowhere
  <2> QED  BY <1>0, <1>1, <2>1, <2>2, AcknowledgedTerminal
<1>8. ASSUME NEW i \in Inst, Recovery(i) PROVE CleanupAcked'
  BY <1>1, <1>8
     DEF Recovery, Scan, TakeRecoveryLock, StartPaused, StartRefused, ClaimPage, Resume,
         ClaimAckFailed
<1> QED  BY <1>2, <1>3, <1>4, <1>5, <1>6, <1>7, <1>8 DEF Next

\* The runtime state is deleted by the cleanup, or by a renewal that failed
\* although its owner has the lease.
LEMMA ReleasedKept ==
    ASSUME TypeOK, LeaseOfActive, CleanupAcked, ReleasedAcked,
           faults["renew"] <= MaxRenewFaults, [Next]_vars
    PROVE  ReleasedAcked' /\ faults'["renew"] <= MaxRenewFaults
<1>0. /\ TerminalAcked => TerminalAcked'
      /\ faults'["renew"] <= faults["renew"] /\ faults'["stall"] <= faults["stall"]
      /\ {faults["renew"], faults["stall"], faults'["renew"], faults'["stall"]} \subseteq Nat
  BY AckedForGood, FaultsStep, TypeStep DEF NeverGained, FaultKinds, TypeOK
<1>1. faults'["renew"] <= MaxRenewFaults /\ (NoListenerLost' => NoListenerLost)
  BY <1>0, BoundsAssumption DEF NoListenerLost, LeaseOfActive
<1>2. ASSUME runtime'.status = "none" => runtime.status = "none" PROVE ReleasedAcked'
  BY <1>0, <1>1, <1>2 DEF ReleasedAcked
<1>3. CASE UNCHANGED vars \/ Produce \/ Keys
  <2>1. UNCHANGED runtime \/ runtime' = [runtime EXCEPT !.fresh = FALSE]
    BY <1>3 DEF vars, redis, Produce, Keys, HeartbeatLapses, LeaseLapses, RecoveryLockLapses
  <2> QED  BY <1>1, <1>2, <2>1 DEF TypeOK, TurnType
<1>4. ASSUME NEW i \in Inst, Handoff(i) PROVE ReleasedAcked'
  <2>1. UNCHANGED runtime \/ runtime' = [runtime EXCEPT !.status = "handoff"]
    BY <1>4 DEF Handoff
  <2> QED  BY <1>2, <2>1 DEF TypeOK, TurnType
<1>5. ASSUME NEW i \in Inst, Heartbeat(i) \/ StartPaused(i) PROVE ReleasedAcked'
  BY <1>2, <1>5 DEF Heartbeat, StartPaused, Running
<1>6. ASSUME NEW i \in Inst, CompleteTurn(i) PROVE ReleasedAcked'
  BY <1>0, <1>6 DEF CompleteTurn, CleanupAcked, ReleasedAcked
<1>7. ASSUME NEW i \in Inst, RenewFails(i) PROVE ReleasedAcked'
  <2>1. CASE lease # i
    <3>1. ~NoListenerLost
      BY <1>7, <2>1 DEF RenewFails, LeaseOfActive, NoListenerLost
    <3> QED  BY <1>1, <3>1 DEF ReleasedAcked
  <2>2. CASE Spend("renew")
    <3>1. faults'["renew"] # MaxRenewFaults
      BY <2>2, <1>0, BoundsAssumption DEF Spend, TypeOK, FaultKinds
    <3> QED  BY <3>1 DEF ReleasedAcked, NoListenerLost
  <2> QED  BY <1>7, <2>1, <2>2 DEF RenewFails
<1>8. ASSUME NEW i \in Inst, Processing(i) PROVE ReleasedAcked'
  BY <1>2, <1>8
     DEF Processing, Replay, Accumulate, EndOfAnswer, PersistGate, WriteMessage, WriteFails,
         NotifyObservers, NotifyFails, MarkPersisted, redis
<1>9. ASSUME NEW i \in Inst, NEW t \in Threads, Thread(i, t) PROVE ReleasedAcked'
  BY <1>2, <1>9 DEF Thread, Begin, Missing, Ack, AckFails, redis
<1>10. ASSUME NEW i \in Inst,
              \/ Reader(i) \/ StartDrain(i) \/ SaveSnapshot(i) \/ AckAgain(i)
              \/ CleanupSnapshot(i) \/ ReleaseLease(i) \/ Exit(i) \/ Crash(i)
       PROVE  ReleasedAcked'
  BY <1>2, <1>10 DEF Reader, Read, ReadLate, StartDrain, SaveSnapshot, AckAgain,
                     CleanupSnapshot, ReleaseLease, Exit, Crash, Down, redis
<1>11. ASSUME NEW i \in Inst,
              \/ Scan(i) \/ TakeRecoveryLock(i) \/ StartRefused(i) \/ ClaimPage(i) \/ Resume(i)
              \/ ClaimAckFailed(i)
       PROVE  ReleasedAcked'
  BY <1>2, <1>11
     DEF Scan, TakeRecoveryLock, StartRefused, ClaimPage, Resume, ClaimAckFailed, redis
<1> QED
  BY <1>1, <1>3, <1>4, <1>5, <1>6, <1>7, <1>8, <1>9, <1>10, <1>11 DEF Next, Recovery, Cleaning

\* The runtime state, by which recovery finds a turn, is deleted only when the
\* turn is settled and its terminal record acknowledged, unless a pause or a
\* failed renewal took a listener (StreamRecordProcessor.afterAcknowledge,
\* completeSessionTurn).
THEOREM ReleaseAfterEnd == Spec => []ReleasedWhenSettled
<1> DEFINE Inv == TypeOK /\ LeaseOfActive /\ ReleaseInv
<1>1. Init => Inv
  <2>1. Init => faults["renew"] <= MaxRenewFaults
    BY BoundsAssumption DEF Init, Budget
  <2>2. Init => TerminalRead
    <3>1. N \in Records /\ Free.rec # N
      BY NAssumption DEF Records, Free
    <3> QED  BY <3>1 DEF Init, TerminalRead, Nowhere, Nothing
  <2>3. Init => CleanupAcked /\ ReleasedAcked
    BY DEF Init, CleanupAcked, ReleasedAcked, Running
  <2> QED  BY <2>1, <2>2, <2>3, InitTyped, LeaseStart DEF ReleaseInv
<1>2. Inv /\ [Next]_vars => Inv'
  BY TypeStep, LeaseStep, TerminalReadKept, CleanupKept, ReleasedKept DEF ReleaseInv
<1>3. Inv /\ AckedTerminalPersisted => ReleasedWhenSettled
  BY DEF ReleaseInv, ReleasedAcked, AckedTerminalPersisted, ReleasedWhenSettled
<1> QED  BY <1>1, <1>2, <1>3, TerminalSafe, PTL DEF Spec
=============================================================================

----------------------- MODULE SessionStream_proofs -----------------------
(***************************************************************************)
(* SessionStream for every number of instances, records and faults: its    *)
(* types; that the terminal record of a turn is acknowledged only with the *)
(* answer persisted and observed; and that it implements ChatTurn.         *)
(***************************************************************************)
EXTENDS SessionStream, TLAPS

(***************************************************************************)
(* Types. The lemmas about updates of the record types come first, then    *)
(* one lemma per action.                                                   *)
(***************************************************************************)

\* The fields of a message context that the code assigns keep it a context.
LEMMA ContextUpdates ==
    ASSUME NEW f \in [Inst -> ContextType], NEW i \in Inst
    PROVE  /\ \A r \in 0..N : [f EXCEPT ![i].cur = r] \in [Inst -> ContextType]
           /\ \A r \in 0..N : [f EXCEPT ![i].wm = r] \in [Inst -> ContextType]
           /\ \A b \in BOOLEAN : [f EXCEPT ![i].held = b] \in [Inst -> ContextType]
           /\ \A b \in BOOLEAN : [f EXCEPT ![i].gate = b] \in [Inst -> ContextType]
           /\ \A S \in SUBSET Records, r \in 0..N :
                 [f EXCEPT ![i].body = S, ![i].wm = r] \in [Inst -> ContextType]
BY DEF ContextType

\* A processing lock moves between the places of processInternal and back to free.
LEMMA LockUpdates ==
    ASSUME NEW f \in [Inst -> LockType], NEW i \in Inst
    PROVE  /\ f[i].pc # "free" =>
                 \A p \in {"seen", "persist", "write", "notify", "mark"} :
                    [f EXCEPT ![i].pc = p] \in [Inst -> LockType]
           /\ [f EXCEPT ![i] = Free] \in [Inst -> LockType]
           /\ \A r \in Records, t \in Threads :
                 [f EXCEPT ![i] = [pc |-> "seen", by |-> t, rec |-> r]] \in [Inst -> LockType]
<1>1. ASSUME f[i].pc # "free", NEW p \in {"seen", "persist", "write", "notify", "mark"}
      PROVE  [f EXCEPT ![i].pc = p] \in [Inst -> LockType]
  <2>1. f[i] \in [pc : {"seen", "persist", "write", "notify", "mark"}, by : Threads,
                 rec : Records]
    BY <1>1 DEF LockType, Free
  <2>2. [f[i] EXCEPT !.pc = p] \in LockType
    BY <1>1, <2>1 DEF LockType
  <2> QED  BY <2>2
<1>2. /\ Free \in LockType
      /\ \A r \in Records, t \in Threads : [pc |-> "seen", by |-> t, rec |-> r] \in LockType
  BY DEF LockType
<1> QED  BY <1>1, <1>2

\* A thread's own batch is all that taking or processing a record changes.
LEMMA ThreadUpdates ==
    ASSUME NEW f \in [Inst -> [Threads -> SUBSET Records]], NEW i \in Inst, NEW t \in Threads,
           NEW S \in SUBSET Records
    PROVE  [f EXCEPT ![i][t] = S] \in [Inst -> [Threads -> SUBSET Records]]
OBVIOUS

\* The runtime state, the answer, recovery tasks and claims have their types after an update.
LEMMA RecordUpdates ==
    /\ \A r \in TurnType : /\ [r EXCEPT !.fresh = FALSE] \in TurnType
                           /\ [r EXCEPT !.status = "handoff"] \in TurnType
    /\ \A a \in AnswerType : [a EXCEPT !.notified = TRUE] \in AnswerType
    /\ \A a \in AnswerType, S \in SUBSET Records, b \in BOOLEAN :
             [a EXCEPT !.saved = TRUE, !.body = S, !.recovered = b] \in AnswerType
    /\ \A f \in [Inst -> TaskType], i \in Inst :
             [f EXCEPT ![i].pc = "hydrated"] \in [Inst -> TaskType]
    /\ \A b \in BOOLEAN : [pc |-> "candidate", graceful |-> b] \in TaskType
    /\ \A S \in SUBSET Records, b, d \in BOOLEAN :
             [ids |-> S, paged |-> b, whole |-> d] \in ClaimType
<1>1. \A r \in TurnType : /\ [r EXCEPT !.fresh = FALSE] \in TurnType
                         /\ [r EXCEPT !.status = "handoff"] \in TurnType
  BY DEF TurnType
<1>2. \A a \in AnswerType : [a EXCEPT !.notified = TRUE] \in AnswerType
  BY DEF AnswerType
<1>3. \A a \in AnswerType, S \in SUBSET Records, b \in BOOLEAN :
           [a EXCEPT !.saved = TRUE, !.body = S, !.recovered = b] \in AnswerType
  BY DEF AnswerType
<1>4. \A f \in [Inst -> TaskType], i \in Inst :
           [f EXCEPT ![i].pc = "hydrated"] \in [Inst -> TaskType]
  BY DEF TaskType
<1>5. \A b \in BOOLEAN : [pc |-> "candidate", graceful |-> b] \in TaskType
  BY DEF TaskType
<1>6. \A S \in SUBSET Records, b, d \in BOOLEAN :
           [ids |-> S, paged |-> b, whole |-> d] \in ClaimType
  BY DEF ClaimType
<1> QED  BY <1>1, <1>2, <1>3, <1>4, <1>5, <1>6

\* What the type invariant says of the fields of one instance.
LEMMA FieldsTyped ==
    ASSUME TypeOK, NEW i \in Inst
    PROVE  /\ ctx[i].held \in BOOLEAN /\ ctx[i].wm \in 0..N /\ ctx[i].cur \in 0..N
           /\ ctx[i].body \in SUBSET Records /\ ctx[i].gate \in BOOLEAN
           /\ ctx[i].recovered \in BOOLEAN
           /\ lock[i].pc # "free" => lock[i].rec \in Records /\ lock[i].rec \in 0..N
           /\ lock[i].by \in Threads
           /\ claim[i].ids \in SUBSET Records
           /\ \A t \in Threads : work[i][t] \in SUBSET Records /\ toAck[i][t] \in SUBSET Records
BY DEF TypeOK, ContextType, LockType, Free, Threads, Records, ClaimType

\* The values the code builds from nothing, or from the stored snapshot, have their types.
LEMMA ValuesTyped ==
    ASSUME TypeOK
    PROVE  /\ Hydrated \in ContextType /\ NoCtx \in ContextType
           /\ \A r \in Records : [Hydrated EXCEPT !.cur = r] \in ContextType
           /\ NoTurn \in TurnType /\ NoSnapshot \in SnapshotType
           /\ NoClaim \in ClaimType /\ NoRec \in TaskType
           /\ Nothing \in [Threads -> SUBSET Records]
           /\ \A i \in Inst : Running(i) \in TurnType
           /\ \A c \in ContextType : SnapshotOf(c) \in SnapshotType
<1>1. snapshot.wm \in 0..N /\ snapshot.body \in SUBSET Records /\ 0 \in 0..N
  BY NAssumption DEF TypeOK, SnapshotType
<1>2. Hydrated \in ContextType
  BY <1>1 DEF Hydrated, ContextType
<1>3. \A r \in Records : [Hydrated EXCEPT !.cur = r] \in ContextType
  BY <1>2 DEF ContextType, Records
<1>4. NoCtx \in ContextType
  BY <1>1 DEF NoCtx, ContextType
<1>5. NoTurn \in TurnType /\ NoClaim \in ClaimType /\ NoRec \in TaskType
  BY DEF NoTurn, TurnType, NoClaim, ClaimType, NoRec, TaskType
<1>6. \A i \in Inst : Running(i) \in TurnType
  BY DEF Running, TurnType
<1>7. \A c \in ContextType : SnapshotOf(c) \in SnapshotType
  BY DEF SnapshotOf, SnapshotType, ContextType
<1>8. NoSnapshot \in SnapshotType
  BY <1>1 DEF NoSnapshot, SnapshotType
<1>9. Nothing \in [Threads -> SUBSET Records]
  BY DEF Nothing
<1> QED  BY <1>2, <1>3, <1>4, <1>5, <1>6, <1>7, <1>8, <1>9

\* The kinds of fault the actions spend.
LEMMA KnownFaults ==
    /\ "crash" \in FaultKinds /\ "handoff" \in FaultKinds /\ "stall" \in FaultKinds
    /\ "redis" \in FaultKinds /\ "persist" \in FaultKinds /\ "renew" \in FaultKinds
BY DEF FaultKinds

\* A fault that happens is taken from the budget of its kind.
LEMMA SpentTyped ==
    ASSUME TypeOK
    PROVE  \A k \in FaultKinds : Spend(k) => faults' \in [FaultKinds -> Nat]
BY DEF TypeOK, Spend

-----------------------------------------------------------------------------
(* One lemma per action.                                                  *)

\* The worker appends.
LEMMA ProduceTyped ==
    ASSUME TypeOK, Produce
    PROVE  TypeOK'
BY NAssumption
   DEF TypeOK, Produce, local

\* XREADGROUP delivers to a live listener.
LEMMA ReadTyped ==
    ASSUME TypeOK, NEW i \in Inst, Read(i)
    PROVE  TypeOK'
BY NAssumption, FieldsTyped
   DEF TypeOK, Read, redis, Records

\* XREADGROUP delivers to a listener that has been unregistered.
LEMMA ReadLateTyped ==
    ASSUME TypeOK, NEW i \in Inst, ReadLate(i)
    PROVE  TypeOK'
<1>1. delivered' \in 0..N /\ pel' \in [Records -> Inst \union {NoOne}]
  BY NAssumption DEF TypeOK, ReadLate, Records
<1>2. faults' \in [FaultKinds -> Nat]
  BY SpentTyped, KnownFaults DEF ReadLate
<1> QED  BY <1>1, <1>2 DEF TypeOK, ReadLate, local

\* A prefix of a batch holds records of the batch.
LEMMA UpToTyped == \A S \in SUBSET Records, r \in Records : UpTo(S, r) \in SUBSET Records
BY DEF UpTo

\* The drain takes a prefix of what has been read.
LEMMA StartDrainTyped ==
    ASSUME TypeOK, NEW i \in Inst, StartDrain(i)
    PROVE  TypeOK'
<1>1. PICK last \in buf[i] : /\ work' = [work EXCEPT ![i]["drain"] = UpTo(buf[i], last)]
                             /\ buf' = [buf EXCEPT ![i] = @ \ UpTo(buf[i], last)]
  BY DEF StartDrain
<1>2. UpTo(buf[i], last) \in SUBSET Records
  BY DEF UpTo, TypeOK
<1>3. work' \in [Inst -> [Threads -> SUBSET Records]]
  BY <1>1, <1>2, ThreadUpdates DEF TypeOK, Threads
<1>4. buf' \in [Inst -> SUBSET Records]
  BY <1>1 DEF TypeOK
<1> QED  BY <1>3, <1>4 DEF StartDrain, TypeOK, redis

\* The router finds or rebuilds a context for the record at the head of a batch.
LEMMA BeginTyped ==
    ASSUME TypeOK, NEW i \in Inst, NEW t \in Threads, Begin(i, t)
    PROVE  TypeOK'
<1>1. PICK r \in work[i][t] :
          /\ lock' = [lock EXCEPT ![i] = [pc |-> "seen", by |-> t, rec |-> r]]
          /\ \/ ctx' = [ctx EXCEPT ![i].cur = r]
             \/ ctx' = [ctx EXCEPT ![i] = [Hydrated EXCEPT !.cur = r]]
  BY DEF Begin
<1>2. r \in Records /\ r \in 0..N
  BY FieldsTyped DEF Records
<1>5. [ctx EXCEPT ![i].cur = r] \in [Inst -> ContextType]
  BY <1>2, ContextUpdates DEF TypeOK
<1>6. [Hydrated EXCEPT !.cur = r] \in ContextType
  BY <1>2, ValuesTyped
<1>3. lock' \in [Inst -> LockType]
  <2>1. [lock EXCEPT ![i] = [pc |-> "seen", by |-> t, rec |-> r]] \in [Inst -> LockType]
    BY <1>2, LockUpdates DEF TypeOK
  <2> QED  BY <1>1, <2>1
<1>7. [ctx EXCEPT ![i] = [Hydrated EXCEPT !.cur = r]] \in [Inst -> ContextType]
  <2>1. ctx \in [Inst -> ContextType]
    BY DEF TypeOK
  <2> QED  BY <1>6, <2>1
<1>4. ctx' \in [Inst -> ContextType]
  BY <1>1, <1>5, <1>7
<1> QED  BY <1>3, <1>4 DEF Begin, TypeOK, redis

\* A batch given back, kept for a retry or registered again, is still a set of records.
LEMMA GiveUpTyped ==
    ASSUME TypeOK, NEW i \in Inst, NEW t \in Threads, GiveUp(i, t)
    PROVE  /\ work' \in [Inst -> [Threads -> SUBSET Records]]
           /\ buf' \in [Inst -> SUBSET Records]
           /\ claim' \in [Inst -> ClaimType]
           /\ ackRegistry' \in [Inst -> SUBSET Records]
<1>1. work' \in [Inst -> [Threads -> SUBSET Records]]
  BY ThreadUpdates DEF GiveUp, TypeOK
<1>2. CASE t = "drain"
  <2>1. buf' \in [Inst -> SUBSET Records]
    <3>1. CASE listener[i] = "live"
      <4>1. buf' = [buf EXCEPT ![i] = @ \union work[i][t]]
        BY <1>2, <3>1 DEF GiveUp
      <4> QED  BY <4>1, FieldsTyped DEF TypeOK
    <3>2. CASE listener[i] # "live"
      BY <1>2, <3>2 DEF GiveUp, TypeOK
    <3> QED  BY <3>1, <3>2
  <2> QED  BY <1>1, <1>2, <2>1 DEF GiveUp, TypeOK
<1>3. CASE t # "drain"
  <2>1. ackRegistry' \in [Inst -> SUBSET Records]
    <3>1. CASE claim[i].paged
      BY <1>3, <3>1 DEF GiveUp, TypeOK
    <3>2. CASE ~claim[i].paged
      <4>1. ackRegistry' = [ackRegistry EXCEPT ![i] = @ \union claim[i].ids]
        BY <1>3, <3>2 DEF GiveUp
      <4> QED  BY <4>1, FieldsTyped DEF TypeOK
    <3> QED  BY <3>1, <3>2
  <2>2. claim' \in [Inst -> ClaimType]
    BY <1>3, ValuesTyped DEF GiveUp, TypeOK
  <2> QED  BY <1>1, <1>3, <2>1, <2>2 DEF GiveUp, TypeOK
<1> QED  BY <1>2, <1>3

\* MISSING_CONTEXT gives the batch up.
LEMMA MissingTyped ==
    ASSUME TypeOK, NEW i \in Inst, NEW t \in Threads, Missing(i, t)
    PROVE  TypeOK'
<1>1. GiveUp(i, t)
  BY DEF Missing
<1> QED  BY <1>1, GiveUpTyped DEF Missing, TypeOK, redis

\* A processed record moves from a thread's batch to its acknowledgements.
LEMMA HandledTyped ==
    ASSUME TypeOK, NEW i \in Inst, lock[i].pc # "free", Handled(i)
    PROVE  /\ work' \in [Inst -> [Threads -> SUBSET Records]]
           /\ toAck' \in [Inst -> [Threads -> SUBSET Records]]
           /\ lock' \in [Inst -> LockType]
<1>1. PICK t \in Threads : t = lock[i].by
  BY FieldsTyped
<1>2. work[i][t] \in SUBSET Records /\ toAck[i][t] \in SUBSET Records /\ lock[i].rec \in Records
  BY FieldsTyped
<1>3. work' = [work EXCEPT ![i][t] = @ \ {lock[i].rec}]
  BY <1>1 DEF Handled
<1>4. toAck' = [toAck EXCEPT ![i][t] = @ \union {lock[i].rec}]
  BY <1>1 DEF Handled
<1>5. work' \in [Inst -> [Threads -> SUBSET Records]]
  BY <1>2, <1>3 DEF TypeOK
<1>6. toAck' \in [Inst -> [Threads -> SUBSET Records]]
  BY <1>2, <1>4 DEF TypeOK
<1>7. lock' \in [Inst -> LockType]
  BY LockUpdates DEF Handled, TypeOK
<1> QED  BY <1>5, <1>6, <1>7

\* A record behind the watermark is acknowledged or persisted again.
LEMMA ReplayTyped ==
    ASSUME TypeOK, NEW i \in Inst, Replay(i)
    PROVE  TypeOK'
<1>1. /\ work' \in [Inst -> [Threads -> SUBSET Records]]
      /\ toAck' \in [Inst -> [Threads -> SUBSET Records]]
      /\ lock' \in [Inst -> LockType]
  <2>1. CASE Handled(i)
    <3>1. lock[i].pc # "free"
      BY DEF Replay
    <3> QED  BY <2>1, <3>1, HandledTyped
  <2>2. CASE ~Handled(i)
    <3>1. lock' = [lock EXCEPT ![i].pc = "persist"] /\ UNCHANGED <<work, toAck>>
      BY <2>2 DEF Replay
    <3>2. lock[i].pc # "free"
      BY DEF Replay
    <3> QED  BY <3>1, <3>2, LockUpdates DEF TypeOK
  <2> QED  BY <2>1, <2>2
<1>2. faults' \in [FaultKinds -> Nat]
  BY SpentTyped, KnownFaults DEF Replay, TypeOK
<1> QED  BY <1>1, <1>2 DEF Replay, TypeOK, redis

\* A delta is accumulated and the watermark advances.
LEMMA AccumulateTyped ==
    ASSUME TypeOK, NEW i \in Inst, Accumulate(i)
    PROVE  TypeOK'
<1>4. lock[i].pc # "free"
  BY DEF Accumulate
<1>0. lock[i].rec \in 0..N /\ ctx[i].body \union {lock[i].rec} \in SUBSET Records
  BY <1>4, FieldsTyped
<1>1. ctx' \in [Inst -> ContextType]
  BY <1>0, ContextUpdates DEF Accumulate, TypeOK
<1>2. behind' \in [Inst -> BOOLEAN]
  BY DEF Accumulate, TypeOK
<1>3. Handled(i) /\ lock[i].pc # "free"
  BY DEF Accumulate
<1> QED  BY <1>1, <1>2, <1>3, HandledTyped DEF Accumulate, TypeOK, redis

\* The terminal event ends the accumulation and stores the final snapshot.
LEMMA EndOfAnswerTyped ==
    ASSUME TypeOK, NEW i \in Inst, EndOfAnswer(i)
    PROVE  TypeOK'
<1>1. lock' \in [Inst -> LockType]
  BY LockUpdates DEF EndOfAnswer, TypeOK
<1>2. CASE ErrorEnds
  BY <1>1, <1>2 DEF EndOfAnswer, TypeOK
<1>3. CASE ~ErrorEnds
  <2>1. ctx' = [ctx EXCEPT ![i].wm = N] /\ N \in 0..N
    BY <1>3, NAssumption DEF EndOfAnswer
  <2>2. ctx' \in [Inst -> ContextType]
    BY <2>1, ContextUpdates DEF TypeOK
  <2>3. snapshot' \in SnapshotType
    <3>1. SnapshotOf(ctx'[i]) \in SnapshotType
      BY <2>2, ValuesTyped
    <3> QED  BY <3>1, <1>3 DEF EndOfAnswer, TypeOK
  <2>4. behind' \in [Inst -> BOOLEAN] /\ faults' \in [FaultKinds -> Nat]
    BY <1>3, SpentTyped, KnownFaults DEF EndOfAnswer, TypeOK
  <2> QED  BY <1>1, <2>2, <2>3, <2>4 DEF EndOfAnswer, TypeOK
<1> QED  BY <1>2, <1>3

\* The gate decides who writes.
LEMMA PersistGateTyped ==
    ASSUME TypeOK, NEW i \in Inst, PersistGate(i)
    PROVE  TypeOK'
<1>1. ctx' \in [Inst -> ContextType]
   BY ContextUpdates DEF TypeOK, PersistGate
<1>2. lock' \in [Inst -> LockType]
   BY LockUpdates DEF TypeOK, PersistGate
<1> QED  BY <1>1, <1>2 DEF TypeOK, PersistGate, redis

\* The answer message is written.
LEMMA WriteMessageTyped ==
    ASSUME TypeOK, NEW i \in Inst, WriteMessage(i)
    PROVE  TypeOK'
<1>1. answer' \in AnswerType
  BY RecordUpdates, FieldsTyped DEF WriteMessage, TypeOK
<1>2. lock' \in [Inst -> LockType]
  BY LockUpdates DEF WriteMessage, TypeOK
<1> QED  BY <1>1, <1>2 DEF WriteMessage, TypeOK, redis

\* A failed write reopens the gate.
LEMMA WriteFailsTyped ==
    ASSUME TypeOK, NEW i \in Inst, WriteFails(i)
    PROVE  TypeOK'
<1>1. ctx' \in [Inst -> ContextType]
   BY ContextUpdates DEF TypeOK, WriteFails
<1>2. lock' \in [Inst -> LockType]
   BY LockUpdates DEF TypeOK, WriteFails
<1>3. faults' \in [FaultKinds -> Nat]
   BY SpentTyped, KnownFaults DEF TypeOK, WriteFails
<1>4. GiveUp(i, lock[i].by) /\ lock[i].by \in Threads
  BY FieldsTyped DEF WriteFails
<1> QED  BY <1>1, <1>2, <1>3, <1>4, GiveUpTyped DEF WriteFails, TypeOK, redis

\* The observers run.
LEMMA NotifyObserversTyped ==
    ASSUME TypeOK, NEW i \in Inst, NotifyObservers(i)
    PROVE  TypeOK'
<1>1. answer' \in AnswerType
  BY RecordUpdates DEF NotifyObservers, TypeOK
<1>2. lock' \in [Inst -> LockType]
  BY LockUpdates DEF NotifyObservers, TypeOK
<1> QED  BY <1>1, <1>2 DEF NotifyObservers, TypeOK, redis

\* A failed observer gives the record up.
LEMMA NotifyFailsTyped ==
    ASSUME TypeOK, NEW i \in Inst, NotifyFails(i)
    PROVE  TypeOK'
<1>2. lock' \in [Inst -> LockType]
   BY LockUpdates DEF TypeOK, NotifyFails
<1>3. faults' \in [FaultKinds -> Nat]
   BY SpentTyped, KnownFaults DEF TypeOK, NotifyFails
<1>4. GiveUp(i, lock[i].by) /\ lock[i].by \in Threads
  BY FieldsTyped DEF NotifyFails
<1> QED  BY <1>2, <1>3, <1>4, GiveUpTyped DEF NotifyFails, TypeOK, redis

\* The marker is written, or not, and the record is ready to be acknowledged.
LEMMA MarkPersistedTyped ==
    ASSUME TypeOK, NEW i \in Inst, MarkPersisted(i)
    PROVE  TypeOK'
<1>1. Handled(i) /\ lock[i].pc # "free"
  BY DEF MarkPersisted
<1>2. marker' \in BOOLEAN /\ faults' \in [FaultKinds -> Nat]
  BY SpentTyped, KnownFaults DEF MarkPersisted, TypeOK
<1> QED  BY <1>1, <1>2, HandledTyped DEF MarkPersisted, TypeOK

\* The write-behind stores or loses a snapshot.
LEMMA SaveSnapshotTyped ==
    ASSUME TypeOK, NEW i \in Inst, SaveSnapshot(i)
    PROVE  TypeOK'
BY ValuesTyped, SpentTyped, KnownFaults
   DEF TypeOK, SaveSnapshot, redis

\* An acknowledgement clears a pending entry and may start the terminal cleanup.
LEMMA AcknowledgedTyped ==
    ASSUME TypeOK, NEW i \in Inst, NEW r \in Records, Acknowledged(i, r)
    PROVE  /\ pel' \in [Records -> Inst \union {NoOne}]
         /\ ackRegistry' \in [Inst -> SUBSET Records]
         /\ cleanup' \in [Inst -> {"none", "snapshot", "turn"}]
BY DEF Acknowledged, TypeOK

\* A thread acknowledges a record.
LEMMA AckTyped ==
    ASSUME TypeOK, NEW i \in Inst, NEW t \in Threads, Ack(i, t)
    PROVE  TypeOK'
<1>1. PICK r \in toAck[i][t] : toAck' = [toAck EXCEPT ![i][t] = @ \ {r}] /\ Acknowledged(i, r)
  BY DEF Ack
<1>2. r \in Records /\ toAck[i][t] \ {r} \in SUBSET Records
  BY FieldsTyped
<1>3. toAck' \in [Inst -> [Threads -> SUBSET Records]]
  BY <1>1, <1>2, ThreadUpdates DEF TypeOK
<1> QED  BY <1>1, <1>2, <1>3, AcknowledgedTyped DEF Ack, TypeOK

\* A failed acknowledgement goes to the retry timer or to the registry.
LEMMA AckFailsTyped ==
    ASSUME TypeOK, NEW i \in Inst, NEW t \in Threads, AckFails(i, t)
    PROVE  TypeOK'
<1>1. PICK r \in toAck[i][t] :
          /\ toAck' = [toAck EXCEPT ![i][t] = @ \ {r}]
          /\ \/ ackRetry' = [ackRetry EXCEPT ![i] = @ \union {r}] /\ UNCHANGED ackRegistry
             \/ ackRegistry' = [ackRegistry EXCEPT ![i] = @ \union {r}] /\ UNCHANGED ackRetry
  BY DEF AckFails
<1>2. r \in Records /\ toAck[i][t] \ {r} \in SUBSET Records
  BY FieldsTyped
<1>3. toAck' \in [Inst -> [Threads -> SUBSET Records]]
  BY <1>1, <1>2, ThreadUpdates DEF TypeOK
<1>4. ackRetry' \in [Inst -> SUBSET Records] /\ ackRegistry' \in [Inst -> SUBSET Records]
  <2>1. CASE ackRetry' = [ackRetry EXCEPT ![i] = @ \union {r}] /\ UNCHANGED ackRegistry
    BY <1>2, <2>1 DEF TypeOK
  <2>2. CASE ackRegistry' = [ackRegistry EXCEPT ![i] = @ \union {r}] /\ UNCHANGED ackRetry
    BY <1>2, <2>2 DEF TypeOK
  <2> QED  BY <1>1, <2>1, <2>2
<1>5. faults' \in [FaultKinds -> Nat]
   BY SpentTyped, KnownFaults DEF TypeOK, AckFails
<1> QED  BY <1>3, <1>4, <1>5 DEF AckFails, TypeOK, redis

\* The retry timer acknowledges or registers.
LEMMA AckAgainTyped ==
    ASSUME TypeOK, NEW i \in Inst, AckAgain(i)
    PROVE  TypeOK'
<1>1. PICK r \in ackRetry[i] :
          /\ ackRetry' = [ackRetry EXCEPT ![i] = @ \ {r}]
          /\ \/ Acknowledged(i, r)
             \/ /\ ackRegistry' = [ackRegistry EXCEPT ![i] = @ \union {r}]
                /\ UNCHANGED <<pel, cleanup>>
  BY DEF AckAgain
<1>2. r \in Records /\ ackRetry' \in [Inst -> SUBSET Records]
  BY <1>1 DEF TypeOK
<1>3. /\ pel' \in [Records -> Inst \union {NoOne}]
      /\ ackRegistry' \in [Inst -> SUBSET Records]
      /\ cleanup' \in [Inst -> {"none", "snapshot", "turn"}]
  <2>1. CASE Acknowledged(i, r)
    BY <1>2, <2>1, AcknowledgedTyped
  <2>2. CASE ackRegistry' = [ackRegistry EXCEPT ![i] = @ \union {r}] /\ UNCHANGED <<pel, cleanup>>
    BY <1>2, <2>2 DEF TypeOK
  <2> QED  BY <1>1, <2>1, <2>2
<1>4. faults' \in [FaultKinds -> Nat]
  BY SpentTyped, KnownFaults DEF AckAgain, TypeOK
<1> QED  BY <1>2, <1>3, <1>4 DEF AckAgain, TypeOK

\* The cleanup deletes the snapshot.
LEMMA CleanupSnapshotTyped ==
    ASSUME TypeOK, NEW i \in Inst, CleanupSnapshot(i)
    PROVE  TypeOK'
BY ValuesTyped
   DEF TypeOK, CleanupSnapshot, redis

\* The cleanup ends the turn.
LEMMA CompleteTurnTyped ==
    ASSUME TypeOK, NEW i \in Inst, CompleteTurn(i)
    PROVE  TypeOK'
<1>1. EndTurn(i)
  BY DEF CompleteTurn
<1>2. ctx' = [ctx EXCEPT ![i].held = FALSE]
  BY <1>1 DEF EndTurn, StopListener
<1>3. ctx' \in [Inst -> ContextType]
  BY <1>2, ContextUpdates DEF TypeOK
<1>4. listener' \in [Inst -> {"none", "paused", "pausedNow", "live", "closed"}]
  BY <1>1 DEF EndTurn, StopListener, TypeOK
<1>5. buf' \in [Inst -> SUBSET Records] /\ ackRegistry' \in [Inst -> SUBSET Records]
  BY <1>1 DEF EndTurn, StopListener, TypeOK
<1>6. runtime' \in TurnType /\ lease' \in Inst \union {NoOne}
  BY <1>1, ValuesTyped DEF EndTurn, TypeOK
<1>7. marker' \in BOOLEAN /\ cleanup' \in [Inst -> {"none", "snapshot", "turn"}]
  BY DEF CompleteTurn, TypeOK
<1> QED  BY <1>3, <1>4, <1>5, <1>6, <1>7 DEF CompleteTurn, TypeOK

\* keepAlive refreshes the turn.
LEMMA HeartbeatTyped ==
    ASSUME TypeOK, NEW i \in Inst, Heartbeat(i)
    PROVE  TypeOK'
BY RecordUpdates, ValuesTyped
   DEF TypeOK, Heartbeat, local

\* Keys with a TTL lapse.
LEMMA KeysTyped ==
    ASSUME TypeOK, Keys
    PROVE  TypeOK'
<1>1. CASE HeartbeatLapses
  BY <1>1, RecordUpdates, SpentTyped, KnownFaults DEF TypeOK, HeartbeatLapses, local
<1>2. CASE LeaseLapses
  BY <1>2, SpentTyped, KnownFaults DEF TypeOK, LeaseLapses, local
<1>3. CASE RecoveryLockLapses
  BY <1>3, SpentTyped, KnownFaults DEF TypeOK, RecoveryLockLapses, local
<1> QED  BY <1>1, <1>2, <1>3 DEF Keys

\* A failed renewal stops the listener.
LEMMA RenewFailsTyped ==
    ASSUME TypeOK, NEW i \in Inst, RenewFails(i)
    PROVE  TypeOK'
<1>1. StopListener(i)
  BY DEF RenewFails
<1>3. ctx' \in [Inst -> ContextType]
  BY <1>1, ContextUpdates DEF TypeOK, StopListener
<1>4. listener' \in [Inst -> {"none", "paused", "pausedNow", "live", "closed"}]
  BY <1>1 DEF StopListener, TypeOK
<1>5. buf' \in [Inst -> SUBSET Records] /\ ackRegistry' \in [Inst -> SUBSET Records]
  BY <1>1 DEF StopListener, TypeOK
<1>6. runtime' \in TurnType /\ lease' \in Inst \union {NoOne}
  BY <1>1, ValuesTyped DEF RenewFails, TypeOK
<1>7. faults' \in [FaultKinds -> Nat]
  BY SpentTyped, KnownFaults DEF RenewFails, TypeOK
<1> QED  BY <1>3, <1>4, <1>5, <1>6, <1>7 DEF RenewFails, TypeOK

\* The scan finds a candidate.
LEMMA ScanTyped ==
    ASSUME TypeOK, NEW i \in Inst, Scan(i)
    PROVE  TypeOK'
BY RecordUpdates, ValuesTyped
   DEF TypeOK, Scan, redis

\* A recovery task takes the lock and rebuilds the context.
LEMMA TakeRecoveryLockTyped ==
    ASSUME TypeOK, NEW i \in Inst, TakeRecoveryLock(i)
    PROVE  TypeOK'
<1>1. CASE recoverer # NoOne
  BY <1>1, ValuesTyped DEF TakeRecoveryLock, TypeOK
<1>2. CASE recoverer = NoOne
  <2>1. rec' = [rec EXCEPT ![i].pc = "hydrated"] /\ recoverer' = i
    BY <1>2 DEF TakeRecoveryLock
  <2>2. rec' \in [Inst -> TaskType]
    BY <2>1, RecordUpdates DEF TypeOK
  <2>3. ctx' \in [Inst -> ContextType]
    BY <1>2, ValuesTyped DEF TakeRecoveryLock, TypeOK
  <2> QED  BY <2>1, <2>2, <2>3 DEF TakeRecoveryLock, TypeOK
<1> QED  BY <1>1, <1>2

\* A paused listener takes the turn over.
LEMMA StartPausedTyped ==
    ASSUME TypeOK, NEW i \in Inst, StartPaused(i)
    PROVE  TypeOK'
BY RecordUpdates, ValuesTyped, FieldsTyped
   DEF TypeOK, StartPaused, redis

\* A takeover that cannot start drops the context.
LEMMA StartRefusedTyped ==
    ASSUME TypeOK, NEW i \in Inst, StartRefused(i)
    PROVE  TypeOK'
<1>1. ctx' \in [Inst -> ContextType]
  <2>1. [ctx EXCEPT ![i].held = FALSE] \in [Inst -> ContextType]
    BY ContextUpdates DEF TypeOK
  <2> QED  BY <2>1 DEF StartRefused, TypeOK
<1>2. rec' \in [Inst -> TaskType]
  BY ValuesTyped DEF StartRefused, TypeOK
<1> QED  BY <1>1, <1>2 DEF StartRefused, TypeOK, redis

\* A page of pending entries is claimed.
LEMMA ClaimPageTyped ==
    ASSUME TypeOK, NEW i \in Inst, ClaimPage(i)
    PROVE  TypeOK'
<1>1. PICK P \in SUBSET Records, w \in BOOLEAN :
          /\ pel' = [r \in Records |-> IF r \in P THEN i ELSE pel[r]]
          /\ work' = [work EXCEPT ![i]["claim"] = P]
          /\ claim' = [claim EXCEPT ![i] = [ids |-> P, paged |-> TRUE, whole |-> w]]
  <2>1. PICK last \in Page(i) :
          LET P == UpTo(Page(i), last) IN
          /\ pel' = [r \in Records |-> IF r \in P THEN i ELSE pel[r]]
          /\ work' = [work EXCEPT ![i]["claim"] = P]
          /\ claim' = [claim EXCEPT ![i] = [ids |-> P, paged |-> TRUE,
                                            whole |-> Paused(i) /\ P = Page(i)]]
    BY DEF ClaimPage
  <2>2. UpTo(Page(i), last) \in SUBSET Records
    BY DEF UpTo, Page, Pending
  <2> QED  BY <2>1, <2>2
<1>2. pel' \in [Records -> Inst \union {NoOne}]
  BY <1>1 DEF TypeOK
<1>3. work' \in [Inst -> [Threads -> SUBSET Records]]
  BY <1>1, ThreadUpdates DEF TypeOK, Threads
<1>4. claim' \in [Inst -> ClaimType]
  BY <1>1, RecordUpdates DEF TypeOK
<1> QED  BY <1>2, <1>3, <1>4 DEF ClaimPage, TypeOK

\* The listener may poll.
LEMMA ResumeTyped ==
    ASSUME TypeOK, NEW i \in Inst, Resume(i)
    PROVE  TypeOK'
BY RecordUpdates, ValuesTyped, FieldsTyped
   DEF TypeOK, Resume, redis

\* Registered acknowledgements are claimed.
LEMMA ClaimAckFailedTyped ==
    ASSUME TypeOK, NEW i \in Inst, ClaimAckFailed(i)
    PROVE  TypeOK'
BY RecordUpdates, ValuesTyped, FieldsTyped, ThreadUpdates
   DEF TypeOK, ClaimAckFailed, Pending, redis, Records, Threads

\* A graceful shutdown offers the turn.
LEMMA HandoffTyped ==
    ASSUME TypeOK, NEW i \in Inst, Handoff(i)
    PROVE  TypeOK'
<1>1. runtime' \in TurnType
  <2>1. [runtime EXCEPT !.status = "handoff"] \in TurnType
    BY RecordUpdates DEF TypeOK
  <2> QED  BY <2>1 DEF Handoff, TypeOK
<1>2. listener' \in [Inst -> {"none", "paused", "pausedNow", "live", "closed"}]
  BY DEF Handoff, TypeOK
<1>3. buf' \in [Inst -> SUBSET Records] /\ mode' \in [Inst -> {"up", "closing", "down"}]
  BY DEF Handoff, TypeOK
<1>4. faults' \in [FaultKinds -> Nat]
  BY SpentTyped, KnownFaults DEF Handoff, TypeOK
<1> QED  BY <1>1, <1>2, <1>3, <1>4 DEF Handoff, TypeOK

\* A closing instance gives its lease back.
LEMMA ReleaseLeaseTyped ==
    ASSUME TypeOK, NEW i \in Inst, ReleaseLease(i)
    PROVE  TypeOK'
BY 
   DEF TypeOK, ReleaseLease, local

\* A closing process ends.
LEMMA ExitTyped ==
    ASSUME TypeOK, NEW i \in Inst, Exit(i)
    PROVE  TypeOK'
BY FieldsTyped, ContextUpdates, ValuesTyped, ThreadUpdates, LockUpdates, RecordUpdates
   DEF TypeOK, Exit, Down, redis, Records, Threads

\* A process dies.
LEMMA CrashTyped ==
    ASSUME TypeOK, NEW i \in Inst, Crash(i)
    PROVE  TypeOK'
BY FieldsTyped, ContextUpdates, ValuesTyped, ThreadUpdates, LockUpdates, RecordUpdates,
   SpentTyped, KnownFaults
   DEF TypeOK, Crash, Down, redis, Records, Threads

\* The turn starts with a listener and nothing read.
LEMMA InitTyped == Init => TypeOK
<1> SUFFICES ASSUME Init PROVE TypeOK
  OBVIOUS
<1>0. 0 \in 0..N /\ {} \in SUBSET Records
  BY NAssumption
<1>7. NoCtx \in ContextType
  BY <1>0 DEF NoCtx, ContextType
<1>1. \A b \in BOOLEAN : [NoCtx EXCEPT !.held = b] \in ContextType
  BY <1>7 DEF ContextType
<1>2. \A i \in Inst : Running(i) \in TurnType
  BY DEF Running, TurnType
<1>3. NoSnapshot \in SnapshotType /\ answer \in AnswerType /\ Free \in LockType
  BY <1>0 DEF NoSnapshot, SnapshotType, AnswerType, Init, LockType
<1>4. ctx \in [Inst -> ContextType]
  BY <1>1 DEF Init
<1>5. NoClaim \in ClaimType /\ NoRec \in TaskType /\ Nothing \in [Threads -> SUBSET Records]
  BY DEF NoClaim, ClaimType, NoRec, TaskType, Nothing
<1>6. faults \in [FaultKinds -> Nat]
  BY BoundsAssumption DEF Init, Budget, FaultKinds
<1> QED  BY <1>0, <1>2, <1>3, <1>4, <1>5, <1>6 DEF Init, TypeOK

\* Every step of every thread keeps the types.
LEMMA TypeStep ==
    ASSUME TypeOK, [Next]_vars
    PROVE  TypeOK'
<1>1. CASE Produce \/ Keys
  BY <1>1, ProduceTyped, KeysTyped
<1>2. ASSUME NEW i \in Inst, Reader(i) \/ StartDrain(i) \/ SaveSnapshot(i)
      PROVE  TypeOK'
  BY <1>2, ReadTyped, ReadLateTyped, StartDrainTyped, SaveSnapshotTyped DEF Reader
<1>3. ASSUME NEW i \in Inst, Processing(i)
      PROVE  TypeOK'
  BY <1>3, ReplayTyped, AccumulateTyped, EndOfAnswerTyped, PersistGateTyped, WriteMessageTyped,
     WriteFailsTyped, NotifyObserversTyped, NotifyFailsTyped, MarkPersistedTyped DEF Processing
<1>4. ASSUME NEW i \in Inst, NEW t \in Threads, Thread(i, t)
      PROVE  TypeOK'
  BY <1>4, BeginTyped, MissingTyped, AckTyped, AckFailsTyped DEF Thread
<1>5. ASSUME NEW i \in Inst, AckAgain(i) \/ Cleaning(i) \/ Heartbeat(i) \/ RenewFails(i)
      PROVE  TypeOK'
  BY <1>5, AckAgainTyped, CleanupSnapshotTyped, CompleteTurnTyped, HeartbeatTyped,
     RenewFailsTyped DEF Cleaning
<1>6. ASSUME NEW i \in Inst, Recovery(i)
      PROVE  TypeOK'
  BY <1>6, ScanTyped, TakeRecoveryLockTyped, StartPausedTyped, StartRefusedTyped, ClaimPageTyped,
     ResumeTyped, ClaimAckFailedTyped DEF Recovery
<1>7. ASSUME NEW i \in Inst, Handoff(i) \/ ReleaseLease(i) \/ Exit(i) \/ Crash(i)
      PROVE  TypeOK'
  BY <1>7, HandoffTyped, ReleaseLeaseTyped, ExitTyped, CrashTyped
<1>8. CASE UNCHANGED vars
  BY <1>8 DEF vars, redis, local, TypeOK
<1> QED  BY <1>1, <1>2, <1>3, <1>4, <1>5, <1>6, <1>7, <1>8 DEF Next

\* The turn's state keeps its types: no record outside the stream is ever
\* buffered, claimed or acknowledged, and no lock is held for a record that is
\* none.
THEOREM TypeCorrect == Spec => []TypeOK
<1>1. Init => TypeOK
  BY InitTyped
<1>2. TypeOK /\ [Next]_vars => TypeOK'
  BY TypeStep
<1> QED  BY <1>1, <1>2, PTL DEF Spec

-----------------------------------------------------------------------------
(***************************************************************************)
(* Terminal safety. AckedTerminalPersisted is not inductive: the record    *)
(* may be in a listener's buffer, a batch, the processing lock or the ACK  *)
(* retries of any instance. IInv says what each of those places stands     *)
(* for.                                                                    *)
(***************************************************************************)

\* Nothing has the terminal record before the worker has appended it.
TerminalProduced ==
    /\ delivered <= produced
    /\ pel[N] # NoOne => produced = N
    /\ \A i \in Inst :
          /\ N \in buf[i] => produced = N
          /\ \A t \in Threads : N \in work[i][t] => produced = N
          /\ lock[i].rec = N => produced = N
          /\ lock[i].pc \in {"persist", "write", "notify", "mark"} => lock[i].rec = N

\* A taken gate means a written answer, but for the thread that is to write it.
GateWrites ==
    \A i \in Inst : ctx[i].gate => answer.saved \/ lock[i].pc = "write"

\* What a thread that is past the write may rely on.
PastWrite ==
    \A i \in Inst :
        /\ lock[i].pc = "notify" => answer.saved
        /\ lock[i].pc = "mark" => Settled

\* Whoever may acknowledge the terminal record has it on a settled turn.
AckableSettled ==
    /\ marker => Settled
    /\ \A i \in Inst :
          /\ \A t \in Threads : N \in toAck[i][t] => Settled
          /\ N \in ackRetry[i] => Settled

\* The inductive invariant.
IInv ==
    /\ TypeOK
    /\ TerminalProduced
    /\ GateWrites
    /\ PastWrite
    /\ AckableSettled
    /\ AckedTerminalPersisted

-----------------------------------------------------------------------------

\* Actions that touch neither records nor contexts nor the answer.
LEMMA ElsewhereSafe ==
    ASSUME IInv, TypeOK',
           UNCHANGED <<produced, delivered, pel, buf, work, lock, ctx, answer, marker, toAck,
              ackRetry>>
    PROVE  IInv'
BY DEF IInv, TerminalProduced, GateWrites, PastWrite, AckableSettled, AckedTerminalPersisted,
       TerminalAcked, Settled

\* Actions that drop contexts and buffers take no gate.
LEMMA ContextSafe ==
    ASSUME IInv, TypeOK', \A j \in Inst : ctx'[j].gate => ctx[j].gate,
           \A j \in Inst : buf'[j] \subseteq buf[j],
           UNCHANGED <<produced, delivered, pel, work, lock, answer, marker, toAck, ackRetry>>
    PROVE  IInv'
BY DEF IInv, TerminalProduced, GateWrites, PastWrite, AckableSettled, AckedTerminalPersisted,
       TerminalAcked, Settled

\* Appending makes nothing acknowledged.
LEMMA ProduceSafe ==
    ASSUME IInv, TypeOK', Produce
    PROVE  IInv'
<1>1. TerminalProduced'
  BY DEF Produce, local, IInv, TypeOK, TerminalProduced
<1> QED
  BY <1>1 DEF Produce, local, IInv, GateWrites, PastWrite, AckableSettled, AckedTerminalPersisted,
              TerminalAcked, Settled

\* A delivered record is pending.
LEMMA ReadSafe ==
    ASSUME IInv, TypeOK', NEW i \in Inst, Read(i) \/ ReadLate(i)
    PROVE  IInv'
<1>1. /\ delivered < produced /\ delivered' = delivered + 1
      /\ pel' = [pel EXCEPT ![delivered + 1] = i]
      /\ UNCHANGED buf \/ buf' = [buf EXCEPT ![i] = @ \union {delivered + 1}]
  BY DEF Read, ReadLate, local
<1>2. UNCHANGED <<produced, work, lock, ctx, answer, marker, toAck, ackRetry>>
  BY DEF Read, ReadLate, local
<1>3. delivered + 1 \in Records /\ (delivered + 1 = N => produced = N)
  BY <1>1, NAssumption DEF IInv, TypeOK, Records
<1>4. \A j \in Inst : N \in buf'[j] => N \in buf[j] \/ delivered + 1 = N
  <2>1. CASE UNCHANGED buf
    BY <2>1
  <2>2. CASE buf' = [buf EXCEPT ![i] = @ \union {delivered + 1}]
    BY <2>2 DEF IInv, TypeOK
  <2> QED  BY <1>1, <2>1, <2>2
<1>5. pel'[N] = pel[N] \/ delivered + 1 = N
  BY <1>1, <1>3, NAssumption DEF IInv, TypeOK, Records
<1>6. TerminalProduced'
  BY <1>1, <1>2, <1>3, <1>4, <1>5 DEF IInv, TypeOK, TerminalProduced
<1>7. ~TerminalAcked'
  BY <1>1, InstAssumption, NAssumption DEF IInv, TypeOK, TerminalAcked, Records
<1> QED
  BY <1>2, <1>6, <1>7 DEF IInv, GateWrites, PastWrite, AckableSettled, AckedTerminalPersisted,
     Settled

\* A batch holds what had been read.
LEMMA StartDrainSafe ==
    ASSUME IInv, TypeOK', NEW i \in Inst, StartDrain(i)
    PROVE  IInv'
<1>1. \A j \in Inst : /\ buf'[j] \subseteq buf[j]
                      /\ \A u \in Threads : work'[j][u] \subseteq work[j][u] \union buf[j]
  BY DEF StartDrain, UpTo, IInv, TypeOK
<1>2. UNCHANGED <<produced, delivered, pel, lock, ctx, answer, marker, toAck, ackRetry>>
  BY DEF StartDrain, redis
<1>3. TerminalProduced'
  BY <1>1, <1>2 DEF IInv, TerminalProduced
<1> QED
  BY <1>2, <1>3 DEF IInv, GateWrites, PastWrite, AckableSettled, AckedTerminalPersisted,
                    TerminalAcked, Settled

\* Begin hands a record over and opens no gate.
LEMMA BeginSafe ==
    ASSUME IInv, TypeOK', NEW i \in Inst, NEW t \in Threads, Begin(i, t)
    PROVE  IInv'
<1>1. PICK r \in work[i][t] :
          /\ lock' = [lock EXCEPT ![i] = [pc |-> "seen", by |-> t, rec |-> r]]
          /\ \/ ctx' = [ctx EXCEPT ![i].cur = r]
             \/ ctx' = [ctx EXCEPT ![i] = [Hydrated EXCEPT !.cur = r]]
  BY DEF Begin
<1>2. TerminalProduced'
  <2>1. lock'[i].rec = r /\ lock'[i].pc = "seen" /\ \A j \in Inst : j # i => lock'[j] = lock[j]
    BY <1>1 DEF IInv, TypeOK
  <2>2. UNCHANGED <<produced, delivered, pel, buf, work>>
    BY DEF Begin, redis
  <2>3. r = N => produced = N
    BY DEF IInv, TerminalProduced
  <2> QED  BY <2>1, <2>2, <2>3 DEF IInv, TerminalProduced
<1>3. GateWrites'
  <2>1. \A j \in Inst : j # i => lock'[j] = lock[j] /\ ctx'[j] = ctx[j]
    BY <1>1 DEF IInv, TypeOK
  <2>2. ctx'[i].gate => ctx[i].gate
    <3>1. [Hydrated EXCEPT !.cur = r].gate = FALSE
      BY DEF Hydrated
    <3>2. CASE ctx' = [ctx EXCEPT ![i].cur = r]
      BY <3>2 DEF IInv, TypeOK, ContextType
    <3>3. CASE ctx' = [ctx EXCEPT ![i] = [Hydrated EXCEPT !.cur = r]]
      BY <3>1, <3>3 DEF IInv, TypeOK
    <3> QED  BY <1>1, <3>2, <3>3
  <2>3. lock[i].pc = "free" /\ answer' = answer
    BY DEF Begin, Free
  <2> QED  BY <2>1, <2>2, <2>3 DEF IInv, GateWrites
<1>4. PastWrite'
  BY <1>1 DEF Begin, IInv, TypeOK, PastWrite, Settled
<1> QED
  BY <1>2, <1>3, <1>4 DEF IInv, AckableSettled, AckedTerminalPersisted, TerminalAcked, Settled,
     Begin, redis

\* What a thread gives back it had taken.
LEMMA GiveUpSafe ==
    ASSUME IInv, NEW i \in Inst, NEW t \in Threads, GiveUp(i, t)
    PROVE  \A j \in Inst : /\ N \in buf'[j] => produced = N
                           /\ \A u \in Threads : N \in work'[j][u] => produced = N
<1>1. \A j \in Inst, u \in Threads : work'[j][u] \subseteq work[j][u]
  BY DEF GiveUp, IInv, TypeOK
<1>2. \A j \in Inst : buf'[j] \subseteq buf[j] \union work[j][t]
  BY DEF GiveUp, IInv, TypeOK
<1> QED  BY <1>1, <1>2 DEF IInv, TerminalProduced

\* A record without a context stays unacknowledged.
LEMMA MissingSafe ==
    ASSUME IInv, TypeOK', NEW i \in Inst, NEW t \in Threads, Missing(i, t)
    PROVE  IInv'
<1>1. GiveUp(i, t) /\ UNCHANGED <<produced, delivered, pel, ctx, lock, answer, marker, toAck,
     ackRetry>>
  BY DEF Missing, redis
<1>2. TerminalProduced'
  BY <1>1, GiveUpSafe DEF IInv, TerminalProduced
<1> QED
  BY <1>1, <1>2 DEF IInv, GateWrites, PastWrite, AckableSettled, AckedTerminalPersisted,
     TerminalAcked, Settled

\* A processed record that is not the terminal one, or is and has been settled, may be
\* acknowledged.
LEMMA HandledSafe ==
    ASSUME IInv, NEW i \in Inst, lock[i].pc # "free", Handled(i), lock[i].rec = N => Settled,
           UNCHANGED <<produced, delivered, pel, buf, answer, ackRetry>>, marker' => Settled,
           \A j \in Inst : ctx'[j].gate => ctx[j].gate, lock[i].pc # "write"
    PROVE  TerminalProduced' /\ GateWrites' /\ PastWrite' /\ AckableSettled'
<1>1. PICK t \in Threads : t = lock[i].by
  BY FieldsTyped DEF IInv
<1>2. lock' = [lock EXCEPT ![i] = Free] /\ work' = [work EXCEPT ![i][t] = @ \ {lock[i].rec}]
  BY <1>1 DEF Handled
<1>3. toAck' = [toAck EXCEPT ![i][t] = @ \union {lock[i].rec}]
  BY <1>1 DEF Handled
<1>4. \A j \in Inst : lock'[j] = lock[j] \/ (lock'[j] = Free /\ lock[j].pc # "write")
  BY <1>2 DEF IInv, TypeOK
<1>5. \A j \in Inst, u \in Threads : work'[j][u] \subseteq work[j][u]
  BY <1>2 DEF IInv, TypeOK
<1>6. \A j \in Inst, u \in Threads : N \in toAck'[j][u] => N \in toAck[j][u] \/ Settled
  BY <1>3 DEF IInv, TypeOK
<1>7. Free.pc = "free" /\ Free.rec # N
  BY NAssumption DEF Free
<1>8. TerminalProduced'
  BY <1>4, <1>5, <1>7 DEF IInv, TerminalProduced
<1>9. GateWrites'
  BY <1>4, <1>7 DEF IInv, GateWrites
<1>10. PastWrite'
  BY <1>4, <1>7 DEF IInv, PastWrite, Settled
<1>11. AckableSettled'
  BY <1>6 DEF IInv, AckableSettled, Settled
<1> QED  BY <1>8, <1>9, <1>10, <1>11

\* A terminal record seen again is skipped for its marker or goes to the gate.
LEMMA ReplaySafe ==
    ASSUME IInv, TypeOK', NEW i \in Inst, Replay(i)
    PROVE  IInv'
<1>1. TerminalProduced' /\ GateWrites' /\ PastWrite' /\ AckableSettled'
  <2>1. CASE (lock[i].rec < N \/ marker) /\ Handled(i)
    <3>1. lock[i].rec = N => Settled
      BY <2>1, NAssumption DEF IInv, AckableSettled
    <3>2. marker' => Settled
      BY DEF Replay, redis, IInv, AckableSettled
    <3>3. lock[i].pc \notin {"free", "write"}
      BY DEF Replay
    <3>4. \A j \in Inst : ctx'[j].gate => ctx[j].gate
      BY DEF Replay
    <3> QED  BY <2>1, <3>1, <3>2, <3>3, <3>4, HandledSafe DEF Replay, redis
  <2>2. CASE lock[i].rec = N /\ lock' = [lock EXCEPT ![i].pc = "persist"] /\ UNCHANGED <<work,
       toAck>>
    <3>1. \A j \in Inst : /\ lock'[j].rec = lock[j].rec
                          /\ \/ lock'[j].pc = lock[j].pc
                             \/ lock'[j].pc = "persist" /\ lock[j].pc = "seen" /\ lock[j].rec = N
      BY <2>2 DEF Replay, IInv, TypeOK, LockType, Free
    <3>2. UNCHANGED <<produced, delivered, pel, buf, work, ctx, answer, marker, toAck, ackRetry>>
      BY <2>2 DEF Replay, redis
    <3>3. TerminalProduced'
      BY <3>1, <3>2 DEF IInv, TerminalProduced
    <3>4. GateWrites' /\ PastWrite'
      BY <3>1, <3>2 DEF IInv, GateWrites, PastWrite, Settled
    <3>5. AckableSettled'
      BY <3>2 DEF IInv, AckableSettled, Settled
    <3> QED  BY <3>3, <3>4, <3>5
  <2> QED  BY <2>1, <2>2 DEF Replay
<1> QED
  BY <1>1 DEF IInv, AckedTerminalPersisted, TerminalAcked, Settled, Replay, redis

\* A delta is no terminal record.
LEMMA AccumulateSafe ==
    ASSUME IInv, TypeOK', NEW i \in Inst, Accumulate(i)
    PROVE  IInv'
<1>1. lock[i].pc \notin {"free", "write"} /\ lock[i].rec # N /\ Handled(i)
  BY FieldsTyped, NAssumption DEF Accumulate, IInv, Records
<1>2. ctx'[i].gate = ctx[i].gate /\ \A j \in Inst : j # i => ctx'[j] = ctx[j]
  BY DEF Accumulate, IInv, TypeOK, ContextType
<1>3. marker' => Settled
  BY DEF Accumulate, redis, IInv, AckableSettled
<1>4. TerminalProduced' /\ GateWrites' /\ PastWrite' /\ AckableSettled'
  BY <1>1, <1>2, <1>3, HandledSafe DEF Accumulate, redis
<1> QED
  BY <1>4 DEF IInv, AckedTerminalPersisted, TerminalAcked, Settled, Accumulate, redis

\* Only the terminal record goes on to the gate.
LEMMA EndOfAnswerSafe ==
    ASSUME IInv, TypeOK', NEW i \in Inst, EndOfAnswer(i)
    PROVE  IInv'
<1>1. \A j \in Inst : /\ lock'[j].rec = lock[j].rec
                      /\ \/ lock'[j].pc = lock[j].pc
                         \/ lock'[j].pc = "persist" /\ lock[j].pc = "seen" /\ lock[j].rec = N
  BY DEF EndOfAnswer, IInv, TypeOK, LockType, Free
<1>2. \A j \in Inst : ctx'[j].gate = ctx[j].gate
  BY DEF EndOfAnswer, IInv, TypeOK, ContextType
<1>3. UNCHANGED <<produced, delivered, pel, buf, work, answer, marker, toAck, ackRetry>>
  BY DEF EndOfAnswer
<1>4. TerminalProduced'
  BY <1>1, <1>3 DEF IInv, TerminalProduced
<1>5. GateWrites' /\ PastWrite'
  BY <1>1, <1>2, <1>3 DEF IInv, GateWrites, PastWrite, Settled
<1> QED
  BY <1>3, <1>4, <1>5 DEF IInv, AckableSettled, AckedTerminalPersisted, TerminalAcked, Settled

\* Who finds the gate taken finds the answer written.
LEMMA PersistGateSafe ==
    ASSUME IInv, TypeOK', NEW i \in Inst, PersistGate(i)
    PROVE  IInv'
<1>1. \A j \in Inst : j # i => lock'[j] = lock[j] /\ ctx'[j] = ctx[j]
  BY DEF PersistGate, IInv, TypeOK
<1>2. lock[i].pc = "persist" /\ lock'[i].rec = lock[i].rec
  BY DEF PersistGate, IInv, TypeOK, LockType, Free
<1>3. lock'[i].pc = IF ctx[i].gate THEN "notify" ELSE "write"
  BY DEF PersistGate, IInv, TypeOK, LockType, Free
<1>4. UNCHANGED <<produced, delivered, pel, buf, work, answer, marker, toAck, ackRetry>>
  BY DEF PersistGate, redis
<1>5. TerminalProduced'
  BY <1>1, <1>2, <1>4 DEF IInv, TerminalProduced
<1>6. GateWrites'
  BY <1>1, <1>2, <1>3, <1>4 DEF IInv, GateWrites
<1>7. PastWrite'
  <2>1. ctx[i].gate => answer.saved
    BY <1>2 DEF IInv, GateWrites
  <2> QED  BY <1>1, <1>3, <1>4, <2>1 DEF IInv, PastWrite, Settled
<1> QED
  BY <1>4, <1>5, <1>6, <1>7 DEF IInv, AckableSettled, AckedTerminalPersisted, TerminalAcked,
     Settled

\* The gate's holder writes the answer.
LEMMA WriteMessageSafe ==
    ASSUME IInv, TypeOK', NEW i \in Inst, WriteMessage(i)
    PROVE  IInv'
<1>1. answer'.saved /\ answer'.notified = answer.notified
  BY DEF WriteMessage, IInv, TypeOK, AnswerType
<1>2. \A j \in Inst : /\ lock'[j].rec = lock[j].rec
                      /\ lock'[j].pc = lock[j].pc \/ (lock'[j].pc = "notify" /\ lock[j].pc = "write")
  BY DEF WriteMessage, IInv, TypeOK, LockType, Free
<1>3. UNCHANGED <<produced, delivered, pel, buf, work, marker, toAck, ackRetry>>
  BY DEF WriteMessage, redis
<1>4. TerminalProduced'
  BY <1>2, <1>3 DEF IInv, TerminalProduced
<1>5. GateWrites' /\ PastWrite'
  BY <1>1, <1>2 DEF IInv, GateWrites, PastWrite, Settled
<1> QED
  BY <1>1, <1>3, <1>4, <1>5 DEF IInv, AckableSettled, AckedTerminalPersisted, TerminalAcked,
     Settled

\* A failed write leaves no taken gate behind.
LEMMA WriteFailsSafe ==
    ASSUME IInv, TypeOK', NEW i \in Inst, WriteFails(i)
    PROVE  IInv'
<1>1. GiveUp(i, lock[i].by) /\ lock[i].by \in Threads
  BY FieldsTyped DEF WriteFails, IInv
<1>2. \A j \in Inst : /\ j # i => lock'[j] = lock[j] /\ ctx'[j] = ctx[j]
  BY DEF WriteFails, IInv, TypeOK
<1>3. lock'[i] = Free /\ ~ctx'[i].gate
  BY DEF WriteFails, IInv, TypeOK, ContextType
<1>4. Free.pc = "free" /\ Free.rec # N
  BY NAssumption DEF Free
<1>5. UNCHANGED <<produced, delivered, pel, answer, marker, toAck, ackRetry>>
  BY DEF WriteFails, redis
<1>6. TerminalProduced'
  BY <1>1, <1>2, <1>3, <1>4, <1>5, GiveUpSafe DEF IInv, TerminalProduced
<1>7. GateWrites' /\ PastWrite'
  BY <1>2, <1>3, <1>4, <1>5 DEF IInv, GateWrites, PastWrite, Settled
<1> QED
  BY <1>5, <1>6, <1>7 DEF IInv, AckableSettled, AckedTerminalPersisted, TerminalAcked, Settled

\* The observers run after the write.
LEMMA NotifyObserversSafe ==
    ASSUME IInv, TypeOK', NEW i \in Inst, NotifyObservers(i)
    PROVE  IInv'
<1>1. answer.saved /\ answer'.saved /\ answer'.notified
  BY DEF NotifyObservers, IInv, TypeOK, AnswerType, PastWrite
<1>2. \A j \in Inst : /\ lock'[j].rec = lock[j].rec
                      /\ lock'[j].pc = lock[j].pc \/ (lock'[j].pc = "mark" /\ lock[j].pc = "notify")
  BY DEF NotifyObservers, IInv, TypeOK, LockType, Free
<1>3. UNCHANGED <<produced, delivered, pel, buf, work, ctx, marker, toAck, ackRetry>>
  BY DEF NotifyObservers, redis
<1>4. TerminalProduced'
  BY <1>2, <1>3 DEF IInv, TerminalProduced
<1>5. GateWrites' /\ PastWrite'
  BY <1>1 DEF GateWrites, PastWrite, Settled
<1> QED
  BY <1>1, <1>3, <1>4, <1>5 DEF IInv, AckableSettled, AckedTerminalPersisted, Settled

\* A failed observer leaves the record unacknowledged.
LEMMA NotifyFailsSafe ==
    ASSUME IInv, TypeOK', NEW i \in Inst, NotifyFails(i)
    PROVE  IInv'
<1>1. GiveUp(i, lock[i].by) /\ lock[i].by \in Threads
  BY FieldsTyped DEF NotifyFails, IInv
<1>2. \A j \in Inst : j # i => lock'[j] = lock[j]
  BY DEF NotifyFails, IInv, TypeOK
<1>3. lock'[i] = Free /\ lock[i].pc = "notify"
  BY DEF NotifyFails, IInv, TypeOK
<1>4. Free.pc = "free" /\ Free.rec # N
  BY NAssumption DEF Free
<1>5. UNCHANGED <<produced, delivered, pel, ctx, answer, marker, toAck, ackRetry>>
  BY DEF NotifyFails, redis
<1>6. TerminalProduced'
  BY <1>1, <1>2, <1>3, <1>4, <1>5, GiveUpSafe DEF IInv, TerminalProduced
<1>7. GateWrites' /\ PastWrite'
  BY <1>2, <1>3, <1>4, <1>5 DEF IInv, GateWrites, PastWrite, Settled
<1> QED
  BY <1>5, <1>6, <1>7 DEF IInv, AckableSettled, AckedTerminalPersisted, TerminalAcked, Settled

\* The thread that marks has settled the turn.
LEMMA MarkPersistedSafe ==
    ASSUME IInv, TypeOK', NEW i \in Inst, MarkPersisted(i)
    PROVE  IInv'
<1>1. lock[i].pc = "mark" /\ Handled(i) /\ Settled
  BY DEF MarkPersisted, IInv, PastWrite
<1>2. TerminalProduced' /\ GateWrites' /\ PastWrite' /\ AckableSettled'
  BY <1>1, HandledSafe DEF MarkPersisted
<1> QED
  BY <1>2 DEF IInv, AckedTerminalPersisted, TerminalAcked, Settled, MarkPersisted

\* Acknowledging the terminal record of a settled turn keeps the promise.
LEMMA AcknowledgedSafe ==
    ASSUME IInv, NEW i \in Inst, NEW r \in Records, Acknowledged(i, r), r = N => Settled,
           UNCHANGED <<produced, delivered, buf, work, lock, answer>>
    PROVE  TerminalProduced' /\ AckedTerminalPersisted'
<1>1. pel' = [pel EXCEPT ![r] = NoOne]
  BY DEF Acknowledged
<1>2. N \in Records
  BY NAssumption DEF Records
<1>3. pel'[N] = pel[N] \/ (r = N /\ pel'[N] = NoOne)
  BY <1>1, <1>2 DEF IInv, TypeOK
<1>4. TerminalProduced'
  BY <1>3 DEF IInv, TerminalProduced
<1>5. AckedTerminalPersisted'
  BY <1>3 DEF IInv, AckedTerminalPersisted, TerminalAcked, Settled
<1> QED  BY <1>4, <1>5

\* A thread acknowledges what it has processed.
LEMMA AckSafe ==
    ASSUME IInv, TypeOK', NEW i \in Inst, NEW t \in Threads, Ack(i, t)
    PROVE  IInv'
<1>1. PICK r \in toAck[i][t] : toAck' = [toAck EXCEPT ![i][t] = @ \ {r}] /\ Acknowledged(i, r)
  BY DEF Ack
<1>2. r \in Records /\ (r = N => Settled)
  BY FieldsTyped DEF IInv, AckableSettled
<1>3. \A j \in Inst, u \in Threads : toAck'[j][u] \subseteq toAck[j][u]
  BY <1>1 DEF IInv, TypeOK
<1>4. UNCHANGED <<produced, delivered, buf, work, lock, answer, ctx, marker, ackRetry>>
  BY DEF Ack
<1>5. TerminalProduced' /\ AckedTerminalPersisted'
  BY <1>1, <1>2, <1>4, AcknowledgedSafe
<1>6. AckableSettled'
  BY <1>3, <1>4 DEF IInv, AckableSettled, Settled
<1> QED
  BY <1>4, <1>5, <1>6 DEF IInv, GateWrites, PastWrite, Settled

\* A failed acknowledgement is still one of a processed record.
LEMMA AckFailsSafe ==
    ASSUME IInv, TypeOK', NEW i \in Inst, NEW t \in Threads, AckFails(i, t)
    PROVE  IInv'
<1>1. PICK r \in toAck[i][t] :
          /\ toAck' = [toAck EXCEPT ![i][t] = @ \ {r}]
          /\ UNCHANGED ackRetry \/ ackRetry' = [ackRetry EXCEPT ![i] = @ \union {r}]
  BY DEF AckFails
<1>2. \A j \in Inst, u \in Threads : toAck'[j][u] \subseteq toAck[j][u]
  BY <1>1 DEF IInv, TypeOK
<1>3. r = N => Settled
  BY DEF IInv, AckableSettled
<1>4. \A j \in Inst : N \in ackRetry'[j] => N \in ackRetry[j] \/ Settled
  <2>1. CASE UNCHANGED ackRetry
    BY <2>1
  <2>2. CASE ackRetry' = [ackRetry EXCEPT ![i] = @ \union {r}]
    BY <1>3, <2>2 DEF IInv, TypeOK
  <2> QED  BY <1>1, <2>1, <2>2
<1>5. UNCHANGED <<produced, delivered, pel, buf, work, lock, ctx, answer, marker>>
  BY DEF AckFails, redis
<1>6. AckableSettled'
  BY <1>2, <1>4, <1>5 DEF IInv, AckableSettled, Settled
<1> QED
  BY <1>5, <1>6 DEF IInv, TerminalProduced, GateWrites, PastWrite, AckedTerminalPersisted,
                    TerminalAcked, Settled

\* The timer acknowledges what a thread has processed.
LEMMA AckAgainSafe ==
    ASSUME IInv, TypeOK', NEW i \in Inst, AckAgain(i)
    PROVE  IInv'
<1>1. PICK r \in ackRetry[i] :
          /\ ackRetry' = [ackRetry EXCEPT ![i] = @ \ {r}]
          /\ Acknowledged(i, r) \/ UNCHANGED pel
  BY DEF AckAgain
<1>2. r \in Records /\ (r = N => Settled)
  BY DEF IInv, TypeOK, AckableSettled
<1>3. \A j \in Inst : ackRetry'[j] \subseteq ackRetry[j]
  BY <1>1 DEF IInv, TypeOK
<1>4. UNCHANGED <<produced, delivered, buf, work, lock, answer, ctx, marker, toAck>>
  BY DEF AckAgain
<1>5. TerminalProduced' /\ AckedTerminalPersisted'
  <2>1. CASE Acknowledged(i, r)
    BY <1>2, <1>4, <2>1, AcknowledgedSafe
  <2>2. CASE UNCHANGED pel
    BY <1>4, <2>2 DEF IInv, TerminalProduced, AckedTerminalPersisted, TerminalAcked, Settled
  <2> QED  BY <1>1, <2>1, <2>2
<1>6. AckableSettled'
  BY <1>3, <1>4 DEF IInv, AckableSettled, Settled
<1> QED
  BY <1>4, <1>5, <1>6 DEF IInv, GateWrites, PastWrite, Settled

\* The cleanup forgets a turn, not its answer.
LEMMA CompleteTurnSafe ==
    ASSUME IInv, TypeOK', NEW i \in Inst, CompleteTurn(i)
    PROVE  IInv'
<1>1. EndTurn(i)
  BY DEF CompleteTurn
<1>2. \A j \in Inst : buf'[j] \subseteq buf[j]
  <2>1. UNCHANGED buf \/ buf' = [buf EXCEPT ![i] = {}]
    BY <1>1 DEF EndTurn, StopListener
  <2> QED  BY <2>1 DEF IInv, TypeOK
<1>3. ctx' = [ctx EXCEPT ![i].held = FALSE]
  BY <1>1 DEF EndTurn, StopListener
<1>4. \A j \in Inst : ctx'[j].gate = ctx[j].gate
  BY <1>3 DEF IInv, TypeOK, ContextType
<1>5. UNCHANGED <<produced, delivered, pel, work, lock, answer, toAck,
     ackRetry>> /\ (marker' => marker)
  BY DEF CompleteTurn, IInv, TypeOK
<1>6. TerminalProduced'
  BY <1>2, <1>5 DEF IInv, TerminalProduced
<1>7. GateWrites'
  BY <1>4, <1>5 DEF IInv, GateWrites
<1> QED
  BY <1>5, <1>6, <1>7 DEF IInv, PastWrite, AckableSettled, AckedTerminalPersisted, TerminalAcked,
     Settled

\* A failed renewal.
LEMMA RenewFailsSafe ==
    ASSUME IInv, TypeOK', NEW i \in Inst, RenewFails(i)
    PROVE  IInv'
<1>1. \A j \in Inst : buf'[j] \subseteq buf[j]
  BY DEF RenewFails, StopListener, IInv, TypeOK
<1>2. \A j \in Inst : ctx'[j].gate => ctx[j].gate
  BY DEF RenewFails, StopListener, IInv, TypeOK, ContextType
<1> QED  BY <1>1, <1>2, ContextSafe DEF RenewFails

\* A rebuilt context has an open gate.
LEMMA TakeRecoveryLockSafe ==
    ASSUME IInv, TypeOK', NEW i \in Inst, TakeRecoveryLock(i)
    PROVE  IInv'
<1>1. UNCHANGED ctx \/ ctx' = [ctx EXCEPT ![i] = Hydrated]
  BY DEF TakeRecoveryLock
<1>2. \A j \in Inst : ctx'[j].gate => ctx[j].gate
  <2>1. CASE ctx' = [ctx EXCEPT ![i] = Hydrated]
    BY <2>1 DEF Hydrated, IInv, TypeOK
  <2> QED  BY <1>1, <2>1
<1> QED  BY <1>2, ContextSafe DEF TakeRecoveryLock

\* A dropped context.
LEMMA StartRefusedSafe ==
    ASSUME IInv, TypeOK', NEW i \in Inst, StartRefused(i)
    PROVE  IInv'
<1>1. UNCHANGED ctx \/ ctx' = [ctx EXCEPT ![i].held = FALSE]
  BY DEF StartRefused
<1>2. \A j \in Inst : ctx'[j].gate => ctx[j].gate
  <2>1. CASE ctx' = [ctx EXCEPT ![i].held = FALSE]
    BY <2>1 DEF IInv, TypeOK, ContextType
  <2> QED  BY <1>1, <2>1
<1> QED  BY <1>2, ContextSafe DEF StartRefused, redis

\* Claiming keeps pending entries pending.
LEMMA ClaimSafe ==
    ASSUME IInv, TypeOK', NEW i \in Inst, ClaimPage(i) \/ ClaimAckFailed(i)
    PROVE  IInv'
<1>1. PICK P \in SUBSET Pending : /\ pel' = [r \in Records |-> IF r \in P THEN i ELSE pel[r]]
                                  /\ work' = [work EXCEPT ![i]["claim"] = P]
  <2>1. CASE ClaimPage(i)
    <3>1. PICK last \in Page(i) :
             LET P == UpTo(Page(i), last) IN
             /\ pel' = [r \in Records |-> IF r \in P THEN i ELSE pel[r]]
             /\ work' = [work EXCEPT ![i]["claim"] = P]
      BY <2>1 DEF ClaimPage
    <3>2. UpTo(Page(i), last) \in SUBSET Pending
      BY DEF UpTo, Page
    <3> QED  BY <3>1, <3>2
  <2>2. CASE ClaimAckFailed(i)
    BY <2>2 DEF ClaimAckFailed
  <2> QED  BY <2>1, <2>2
<1>2. pel'[N] = NoOne <=> pel[N] = NoOne
  BY <1>1, NAssumption, InstAssumption DEF Pending, Records
<1>3. \A j \in Inst, u \in Threads : N \in work'[j][u] => N \in work[j][u] \/ pel[N] # NoOne
  BY <1>1 DEF Pending, IInv, TypeOK
<1>4. UNCHANGED <<produced, delivered, buf, lock, ctx, answer, marker, toAck, ackRetry>>
  BY DEF ClaimPage, ClaimAckFailed
<1>5. TerminalProduced'
  BY <1>2, <1>3, <1>4 DEF IInv, TerminalProduced
<1> QED
  BY <1>2, <1>4, <1>5 DEF IInv, GateWrites, PastWrite, AckableSettled, AckedTerminalPersisted,
                          TerminalAcked, Settled

\* A graceful shutdown drops what it has read and processes no record.
LEMMA HandoffSafe ==
    ASSUME IInv, TypeOK', NEW i \in Inst, Handoff(i)
    PROVE  IInv'
<1>1. \A j \in Inst : buf'[j] \subseteq buf[j]
  <2>1. UNCHANGED buf \/ buf' = [buf EXCEPT ![i] = {}]
    BY DEF Handoff
  <2> QED  BY <2>1 DEF IInv, TypeOK
<1>2. UNCHANGED <<produced, delivered, pel, work, lock, ctx, answer, marker, toAck, ackRetry>>
  BY DEF Handoff
<1>3. TerminalProduced'
  BY <1>1, <1>2 DEF IInv, TerminalProduced
<1> QED
  BY <1>2, <1>3 DEF IInv, GateWrites, PastWrite, AckableSettled, AckedTerminalPersisted,
     TerminalAcked, Settled

\* A process that ends takes only its memory along.
LEMMA DownSafe ==
    ASSUME IInv, TypeOK', NEW i \in Inst, Down(i)
    PROVE  IInv'
<1>1. \A j \in Inst : /\ buf'[j] \subseteq buf[j] /\ ackRetry'[j] \subseteq ackRetry[j]
                      /\ \A u \in Threads : /\ work'[j][u] \subseteq work[j][u]
                                            /\ toAck'[j][u] \subseteq toAck[j][u]
  BY DEF Down, Nothing, IInv, TypeOK
<1>2. \A j \in Inst : j # i => lock'[j] = lock[j] /\ ctx'[j] = ctx[j]
  BY DEF Down, IInv, TypeOK
<1>3. lock'[i].pc = "free" /\ lock'[i].rec # N /\ ~ctx'[i].gate
  BY NAssumption DEF Down, Free, NoCtx, IInv, TypeOK
<1>4. UNCHANGED <<produced, delivered, pel, answer, marker>>
  BY DEF Down, redis
<1>5. TerminalProduced'
  BY <1>1, <1>2, <1>3, <1>4 DEF IInv, TerminalProduced
<1>6. GateWrites' /\ PastWrite'
  BY <1>2, <1>3, <1>4 DEF IInv, GateWrites, PastWrite, Settled
<1>7. AckableSettled'
  BY <1>1, <1>4 DEF IInv, AckableSettled, Settled
<1> QED
  BY <1>4, <1>5, <1>6, <1>7 DEF IInv, AckedTerminalPersisted, TerminalAcked, Settled

\* The invariant holds of a turn that has just been registered.
LEMMA SafeStart == Init => IInv
<1> SUFFICES ASSUME Init PROVE IInv
  OBVIOUS
<1>1. TypeOK
  BY InitTyped
<1>2. \A i \in Inst : lock[i].pc = "free" /\ lock[i].rec # N
  BY NAssumption DEF Init, Free
<1>4. \A b \in BOOLEAN : [NoCtx EXCEPT !.held = b].gate = FALSE
  BY DEF NoCtx
<1>5. \A i \in Inst : ~ctx[i].gate
  BY <1>4 DEF Init
<1>3. TerminalProduced
  BY <1>2, NAssumption DEF Init, TerminalProduced, Nothing, Records
<1> QED
  BY <1>1, <1>2, <1>3, <1>5, NAssumption
     DEF Init, Nothing, IInv, GateWrites, PastWrite, AckableSettled, AckedTerminalPersisted,
         TerminalAcked

\* Every step of every thread keeps it.
LEMMA SafeStep ==
    ASSUME IInv, [Next]_vars
    PROVE  IInv'
<1>0. TypeOK'
  BY TypeStep DEF IInv
<1>1. CASE Produce
  BY <1>0, <1>1, ProduceSafe
<1>2. CASE Keys
  BY <1>0, <1>2, ElsewhereSafe DEF Keys, HeartbeatLapses, LeaseLapses, RecoveryLockLapses, local
<1>3. ASSUME NEW i \in Inst, Reader(i) \/ StartDrain(i)
      PROVE  IInv'
  BY <1>0, <1>3, ReadSafe, StartDrainSafe DEF Reader
<1>4. ASSUME NEW i \in Inst, Processing(i)
      PROVE  IInv'
  BY <1>0, <1>4, ReplaySafe, AccumulateSafe, EndOfAnswerSafe, PersistGateSafe, WriteMessageSafe,
     WriteFailsSafe, NotifyObserversSafe, NotifyFailsSafe, MarkPersistedSafe DEF Processing
<1>5. ASSUME NEW i \in Inst, NEW t \in Threads, Thread(i, t)
      PROVE  IInv'
  BY <1>0, <1>5, BeginSafe, MissingSafe, AckSafe, AckFailsSafe DEF Thread
<1>6. ASSUME NEW i \in Inst,
     SaveSnapshot(i) \/ CleanupSnapshot(i) \/ Heartbeat(i) \/ ReleaseLease(i)
      PROVE  IInv'
  BY <1>0, <1>6, ElsewhereSafe DEF SaveSnapshot, CleanupSnapshot, Heartbeat, ReleaseLease, local
<1>7. ASSUME NEW i \in Inst, AckAgain(i) \/ CompleteTurn(i) \/ RenewFails(i)
      PROVE  IInv'
  BY <1>0, <1>7, AckAgainSafe, CompleteTurnSafe, RenewFailsSafe
<1>8. ASSUME NEW i \in Inst, Recovery(i)
      PROVE  IInv'
  <2>1. CASE Scan(i) \/ StartPaused(i) \/ Resume(i)
    BY <1>0, <2>1, ElsewhereSafe DEF Scan, StartPaused, Resume, redis
  <2> QED
    BY <1>0, <1>8, <2>1, TakeRecoveryLockSafe, StartRefusedSafe, ClaimSafe DEF Recovery
<1>9. ASSUME NEW i \in Inst, Handoff(i) \/ Exit(i) \/ Crash(i)
      PROVE  IInv'
  BY <1>0, <1>9, HandoffSafe, DownSafe DEF Exit, Crash
<1>10. CASE UNCHANGED vars
  BY <1>0, <1>10, ElsewhereSafe DEF vars, redis, local
<1> QED  BY <1>1, <1>2, <1>3, <1>4, <1>5, <1>6, <1>7, <1>8, <1>9, <1>10 DEF Next, Cleaning

\* The invariant holds in every reachable state.
THEOREM Invariance == Spec => []IInv
<1>1. Init => IInv
  BY SafeStart
<1>2. IInv /\ [Next]_vars => IInv'
  BY SafeStep
<1> QED  BY <1>1, <1>2, PTL DEF Spec

\* Whoever processed the terminal record, however often, and whatever crashed,
\* stalled or failed in between, it is acknowledged only when the answer is in
\* the database and every observer has run (StreamRecordProcessor, the marker
\* and the three ways to acknowledge).
THEOREM TerminalSafe == Spec => []AckedTerminalPersisted
<1>1. IInv => AckedTerminalPersisted
  BY DEF IInv
<1> QED  BY <1>1, Invariance, PTL

-----------------------------------------------------------------------------
(* SessionStream implements ChatTurn.                                      *)

\* A registered turn is a turn nothing of which has happened yet.
THEOREM PromiseStart == Init => PromisedTurn!Init
BY NAssumption DEF Init, PromisedTurn!Init, TerminalAcked

\* Actions that touch neither the stream nor the answer.
LEMMA ElsewherePromise ==
    ASSUME UNCHANGED <<produced, delivered, pel, answer>>
    PROVE  UNCHANGED PromisedTurn!tvars
BY DEF PromisedTurn!tvars, TerminalAcked

\* The worker's last record ends the turn.
LEMMA ProducePromise ==
    ASSUME IInv, Produce
    PROVE  PromisedTurn!Next \/ UNCHANGED PromisedTurn!tvars
<1>1. UNCHANGED <<answer.saved, answer.notified, TerminalAcked>> /\ produced # N
  BY DEF Produce, TerminalAcked, IInv, TypeOK
<1>2. CASE produced' = N
  BY <1>1, <1>2 DEF PromisedTurn!Next, PromisedTurn!End
<1>3. CASE produced' # N
  BY <1>1, <1>3 DEF PromisedTurn!tvars
<1> QED  BY <1>2, <1>3

\* Delivering makes no record acknowledged.
LEMMA ReadPromise ==
    ASSUME IInv, NEW i \in Inst, Read(i) \/ ReadLate(i)
    PROVE  UNCHANGED PromisedTurn!tvars
<1>1. /\ delivered < produced /\ delivered' = delivered + 1
      /\ pel' = [pel EXCEPT ![delivered + 1] = i]
  BY DEF Read, ReadLate
<1>2. ~TerminalAcked
  BY <1>1 DEF IInv, TypeOK, TerminalAcked
<1>3. ~TerminalAcked'
  BY <1>1, InstAssumption, NAssumption DEF IInv, TypeOK, TerminalAcked, Records
<1>4. UNCHANGED <<produced, answer>>
  BY DEF Read, ReadLate
<1>5. TerminalAcked' = TerminalAcked
  BY <1>2, <1>3 DEF TerminalAcked
<1> QED  BY <1>4, <1>5 DEF PromisedTurn!tvars

\* The write happens after the worker has ended the turn.
LEMMA WritePromise ==
    ASSUME IInv, NEW i \in Inst, WriteMessage(i)
    PROVE  PromisedTurn!Next \/ UNCHANGED PromisedTurn!tvars
<1>1. produced = N
  BY DEF WriteMessage, IInv, TerminalProduced
<1>2. answer'.saved = TRUE /\ answer'.notified = answer.notified /\ UNCHANGED <<produced,
     delivered, pel>>
  BY DEF WriteMessage, redis, IInv, TypeOK, AnswerType
<1>3. answer.saved \in BOOLEAN
  BY DEF IInv, TypeOK, AnswerType
<1> QED  BY <1>1, <1>2, <1>3 DEF PromisedTurn!Next, PromisedTurn!Save, PromisedTurn!tvars,
     TerminalAcked

\* The observers run after the write.
LEMMA NotifyPromise ==
    ASSUME IInv, NEW i \in Inst, NotifyObservers(i)
    PROVE  PromisedTurn!Next \/ UNCHANGED PromisedTurn!tvars
<1>1. answer.saved
  BY DEF NotifyObservers, IInv, PastWrite
<1>2. answer'.notified = TRUE /\ answer'.saved = answer.saved /\ UNCHANGED <<produced, delivered,
     pel>>
  BY DEF NotifyObservers, redis, IInv, TypeOK, AnswerType
<1>3. answer.notified \in BOOLEAN
  BY DEF IInv, TypeOK, AnswerType
<1> QED  BY <1>1, <1>2, <1>3 DEF PromisedTurn!Next, PromisedTurn!Notify, PromisedTurn!tvars,
     TerminalAcked

\* The terminal acknowledgement comes last.
LEMMA AcknowledgedPromise ==
    ASSUME IInv, NEW i \in Inst, NEW r \in Records, Acknowledged(i, r), r = N => Settled,
           UNCHANGED <<produced, delivered, answer>>
    PROVE  PromisedTurn!Next \/ UNCHANGED PromisedTurn!tvars
<1>1. pel' = [pel EXCEPT ![r] = NoOne] /\ N \in Records
  BY NAssumption DEF Acknowledged, Records
<1>2. pel'[N] = pel[N] \/ (Settled /\ pel'[N] = NoOne)
  BY <1>1 DEF IInv, TypeOK
<1>3. CASE TerminalAcked' = TerminalAcked
  BY <1>3 DEF PromisedTurn!tvars
<1>4. CASE TerminalAcked' # TerminalAcked
  <2>1. ~TerminalAcked /\ TerminalAcked' /\ Settled
    BY <1>2, <1>4 DEF TerminalAcked
  <2> QED  BY <2>1 DEF Settled, PromisedTurn!Next, PromisedTurn!Acknowledge
<1> QED  BY <1>3, <1>4

\* ... from a thread.
LEMMA AckPromise ==
    ASSUME IInv, NEW i \in Inst, NEW t \in Threads, Ack(i, t)
    PROVE  PromisedTurn!Next \/ UNCHANGED PromisedTurn!tvars
<1>1. PICK r \in toAck[i][t] : Acknowledged(i, r)
  BY DEF Ack
<1>2. r \in Records /\ (r = N => Settled)
  BY FieldsTyped DEF IInv, AckableSettled
<1> QED  BY <1>1, <1>2, AcknowledgedPromise DEF Ack

\* ... or from the retry timer.
LEMMA AckAgainPromise ==
    ASSUME IInv, NEW i \in Inst, AckAgain(i)
    PROVE  PromisedTurn!Next \/ UNCHANGED PromisedTurn!tvars
<1>1. PICK r \in ackRetry[i] : Acknowledged(i, r) \/ UNCHANGED pel
  BY DEF AckAgain
<1>2. r \in Records /\ (r = N => Settled)
  BY DEF IInv, TypeOK, AckableSettled
<1>3. CASE Acknowledged(i, r)
  BY <1>2, <1>3, AcknowledgedPromise DEF AckAgain
<1>4. CASE UNCHANGED pel
  BY <1>4, ElsewherePromise DEF AckAgain
<1> QED  BY <1>1, <1>3, <1>4

\* Claiming changes the consumer of pending entries only.
LEMMA ClaimPromise ==
    ASSUME IInv, NEW i \in Inst, ClaimPage(i) \/ ClaimAckFailed(i)
    PROVE  UNCHANGED PromisedTurn!tvars
<1>1. PICK P \in SUBSET Pending : pel' = [r \in Records |-> IF r \in P THEN i ELSE pel[r]]
  <2>1. CASE ClaimPage(i)
    BY <2>1 DEF ClaimPage, UpTo, Page
  <2>2. CASE ClaimAckFailed(i)
    BY <2>2 DEF ClaimAckFailed
  <2> QED  BY <2>1, <2>2
<1>2. pel'[N] = NoOne <=> pel[N] = NoOne
  BY <1>1, NAssumption, InstAssumption DEF Pending, Records
<1>3. UNCHANGED <<produced, delivered, answer>>
  BY DEF ClaimPage, ClaimAckFailed
<1> QED  BY <1>2, <1>3 DEF PromisedTurn!tvars, TerminalAcked

\* Every step of the subsystem is a step of ChatTurn, or none.
LEMMA PromiseStep ==
    ASSUME IInv, [Next]_vars
    PROVE  PromisedTurn!Next \/ UNCHANGED PromisedTurn!tvars
<1>1. CASE Produce
  BY <1>1, ProducePromise
<1>2. CASE Keys
  BY <1>2, ElsewherePromise DEF Keys, HeartbeatLapses, LeaseLapses, RecoveryLockLapses
<1>3. ASSUME NEW i \in Inst, Reader(i)
      PROVE  UNCHANGED PromisedTurn!tvars
  BY <1>3, ReadPromise DEF Reader
<1>4. ASSUME NEW i \in Inst, Processing(i)
      PROVE  PromisedTurn!Next \/ UNCHANGED PromisedTurn!tvars
  <2>1. CASE WriteMessage(i)
    BY <2>1, WritePromise
  <2>2. CASE NotifyObservers(i)
    BY <2>2, NotifyPromise
  <2>3. CASE UNCHANGED <<produced, delivered, pel, answer>>
    BY <2>3, ElsewherePromise
  <2> QED
    BY <1>4, <2>1, <2>2, <2>3 DEF Processing, Replay, Accumulate, EndOfAnswer, PersistGate,
       WriteFails, NotifyFails, MarkPersisted, redis
<1>5. ASSUME NEW i \in Inst, NEW t \in Threads, Thread(i, t)
      PROVE  PromisedTurn!Next \/ UNCHANGED PromisedTurn!tvars
  <2>1. CASE Ack(i, t)
    BY <2>1, AckPromise
  <2>2. CASE UNCHANGED <<produced, delivered, pel, answer>>
    BY <2>2, ElsewherePromise
  <2> QED
    BY <1>5, <2>1, <2>2 DEF Thread, Begin, Missing, AckFails, redis
<1>6. ASSUME NEW i \in Inst, Recovery(i)
      PROVE  UNCHANGED PromisedTurn!tvars
  <2>1. CASE ClaimPage(i) \/ ClaimAckFailed(i)
    BY <2>1, ClaimPromise
  <2>2. CASE UNCHANGED <<produced, delivered, pel, answer>>
    BY <2>2, ElsewherePromise
  <2> QED
    BY <1>6, <2>1, <2>2 DEF Recovery, Scan, TakeRecoveryLock, StartPaused, StartRefused, Resume,
       redis
<1>7. ASSUME NEW i \in Inst,
     StartDrain(i) \/ SaveSnapshot(i) \/ Cleaning(i) \/ Heartbeat(i) \/ RenewFails(i)
      PROVE  UNCHANGED PromisedTurn!tvars
  BY <1>7, ElsewherePromise DEF StartDrain, SaveSnapshot, Cleaning, CleanupSnapshot, CompleteTurn,
     Heartbeat, RenewFails, redis
<1>8. ASSUME NEW i \in Inst, Handoff(i) \/ ReleaseLease(i) \/ Exit(i) \/ Crash(i)
      PROVE  UNCHANGED PromisedTurn!tvars
  BY <1>8, ElsewherePromise DEF Handoff, ReleaseLease, Exit, Crash, Down, redis
<1>9. ASSUME NEW i \in Inst, AckAgain(i)
      PROVE  PromisedTurn!Next \/ UNCHANGED PromisedTurn!tvars
  BY <1>9, AckAgainPromise
<1>10. CASE UNCHANGED vars
  BY <1>10, ElsewherePromise DEF vars, redis
<1> QED
  BY <1>1, <1>2, <1>3, <1>4, <1>5, <1>6, <1>7, <1>8, <1>9, <1>10 DEF Next

\* The answer is saved, observed and acknowledged in that order, none of it
\* twice and none of it undone, in every behaviour of the subsystem.
THEOREM PromiseKept == Spec => KeepsPromise
<1>1. Init => PromisedTurn!Init
  BY PromiseStart
<1>2. IInv /\ [Next]_vars => [PromisedTurn!Next]_(PromisedTurn!tvars)
  BY PromiseStep
<1> QED  BY <1>1, <1>2, Invariance, PTL DEF Spec, KeepsPromise, PromisedTurn!TurnSafe
=============================================================================

------------------------- MODULE SessionStop_proofs -------------------------
(***************************************************************************)
(* STOP_CHAT beside the stream, for every number of instances, records,    *)
(* requests and faults: the types, and that between the stop request and   *)
(* the terminal record, who finds the gate taken can rely on the other one *)
(* to write the answer.                                                    *)
(***************************************************************************)
EXTENDS SessionStop, SessionStreamLease_proofs

(***************************************************************************)
(* Types.                                                                  *)
(***************************************************************************)
Places == {"idle", "gate", "write", "notify", "complete", "upsert", "observe", "release", "clean"}
RequestType == [pc : Places, body : SUBSET Records]

\* A request moves between the places of flushAccumulatedMessage.
LEMMA RequestUpdates ==
    ASSUME stop \in [Inst -> RequestType], NEW i \in Inst
    PROVE  /\ \A p \in Places : [stop EXCEPT ![i].pc = p] \in [Inst -> RequestType]
           /\ NoStop \in RequestType
           /\ [stop EXCEPT ![i] = NoStop] \in [Inst -> RequestType]
           /\ \A p \in Places, S \in SUBSET Records :
                 [stop EXCEPT ![i] = [pc |-> p, body |-> S]] \in [Inst -> RequestType]
BY DEF RequestType, NoStop, Places

\* STOP_CHAT arrives.
LEMMA StopChatTyped ==
    ASSUME StopTypeOK, NEW i \in Inst, StopChat(i)
    PROVE  StopTypeOK'
<1>1. stop \in [Inst -> RequestType] /\ snapshot.body \in SUBSET Records
  BY DEF StopTypeOK, TypeOK, SnapshotType, RequestType, Places
<1>2. \/ UNCHANGED stop
      \/ stop' = [stop EXCEPT ![i].pc = "gate"]
      \/ stop' = [stop EXCEPT ![i] = [pc |-> "upsert", body |-> snapshot.body]]
  BY DEF StopChat, Goto
<1>6. "gate" \in Places /\ "upsert" \in Places
  BY DEF Places
<1>3. stop' \in [Inst -> RequestType]
  BY <1>1, <1>2, <1>6, RequestUpdates
<1>4. requests' \in 0..MaxStops
  BY StopsAssumption DEF StopTypeOK, StopChat
<1>5. TypeOK'
  BY DEF StopTypeOK, StopChat, vars, redis, local, TypeOK
<1> QED  BY <1>3, <1>4, <1>5 DEF StopTypeOK, RequestType, Places

\* Every place a request can go on to is one of Places.
LEMMA StopStepRequest ==
    ASSUME StopTypeOK, NEW i \in Inst, StopStep(i)
    PROVE  stop' \in [Inst -> RequestType] /\ UNCHANGED requests
<1>1. stop \in [Inst -> RequestType]
  BY DEF StopTypeOK, RequestType, Places
<1>2. \/ \E p \in Places : stop' = [stop EXCEPT ![i].pc = p]
      \/ stop' = [stop EXCEPT ![i] = NoStop]
      \/ stop' = [stop EXCEPT ![i] = [pc |-> "observe", body |-> {}]]
  BY DEF StopStep, StopGate, StopWrite, StopWriteFails, StopUpsert, StopNotify, StopThrows,
         StopComplete, StopRelease, StopClean, Goto, Places
<1>5. "observe" \in Places
  BY DEF Places
<1>3. stop' \in [Inst -> RequestType]
  BY <1>1, <1>2, <1>5, RequestUpdates
<1>4. UNCHANGED requests
  BY DEF StopStep, StopGate, StopWrite, StopWriteFails, StopUpsert, StopNotify, StopThrows,
         StopComplete, StopRelease, StopClean
<1> QED  BY <1>3, <1>4

\* The gate, taken or reopened.
LEMMA StopGateTyped ==
    ASSUME TypeOK, NEW i \in Inst, StopGate(i) \/ StopWriteFails(i)
    PROVE  TypeOK'
<1>3. \A b \in BOOLEAN : [ctx EXCEPT ![i].gate = b] \in [Inst -> ContextType]
  BY ContextUpdates DEF TypeOK
<1>1. ctx' \in [Inst -> ContextType]
  BY <1>3 DEF StopGate, StopWriteFails
<1>2. faults' \in [FaultKinds -> Nat]
  BY SpentTyped, KnownFaults DEF StopGate, StopWriteFails, TypeOK
<1> QED  BY <1>1, <1>2 DEF StopGate, StopWriteFails, TypeOK, redis

\* The upserts and the observers.
LEMMA StopAnswerTyped ==
    ASSUME StopTypeOK, NEW i \in Inst, StopWrite(i) \/ StopUpsert(i) \/ StopNotify(i)
    PROVE  TypeOK'
<1>1. /\ answer \in AnswerType /\ ctx[i].body \in SUBSET Records /\ ctx[i].recovered \in BOOLEAN
      /\ stop[i].body \in SUBSET Records
  BY FieldsTyped DEF StopTypeOK, TypeOK
<1>3. \/ answer' = [answer EXCEPT !.saved = TRUE, !.body = ctx[i].body,
                                  !.recovered = ctx[i].recovered]
      \/ answer' = [answer EXCEPT !.saved = TRUE, !.body = stop[i].body, !.recovered = TRUE]
      \/ answer' = [answer EXCEPT !.notified = TRUE]
  BY DEF StopWrite, StopUpsert, StopNotify, Answer
<1>4. [answer EXCEPT !.notified = TRUE] \in AnswerType
  BY <1>1, RecordUpdates
<1>5. \A S \in SUBSET Records, b \in BOOLEAN :
         [answer EXCEPT !.saved = TRUE, !.body = S, !.recovered = b] \in AnswerType
  BY <1>1, RecordUpdates
<1>2. answer' \in AnswerType
  BY <1>1, <1>3, <1>4, <1>5
<1> QED  BY <1>2 DEF StopWrite, StopUpsert, StopNotify, StopTypeOK, TypeOK, redis, local

\* The turn's end, by a stopped listener or by the runtime state alone.
LEMMA StopEndTyped ==
    ASSUME TypeOK, NEW i \in Inst, StopThrows(i) \/ StopComplete(i)
    PROVE  TypeOK'
<1>1. UNCHANGED ctx \/ ctx' = [ctx EXCEPT ![i].held = FALSE]
  <2>1. CASE StopThrows(i)
    BY <2>1 DEF StopThrows, StopListener
  <2>2. CASE StopComplete(i)
    BY <2>2 DEF StopComplete, EndTurn, StopListener
  <2> QED  BY <2>1, <2>2
<1>10. [ctx EXCEPT ![i].held = FALSE] \in [Inst -> ContextType]
  BY ContextUpdates DEF TypeOK
<1>2. ctx' \in [Inst -> ContextType]
  BY <1>1, <1>10 DEF TypeOK
<1>3. UNCHANGED listener \/ listener' = [listener EXCEPT ![i] = "closed"]
  BY DEF StopThrows, StopComplete, EndTurn, StopListener
<1>4. listener' \in [Inst -> {"none", "paused", "pausedNow", "live", "closed"}]
  BY <1>3 DEF TypeOK
<1>5. /\ UNCHANGED buf \/ buf' = [buf EXCEPT ![i] = {}]
      /\ UNCHANGED ackRegistry \/ ackRegistry' = [ackRegistry EXCEPT ![i] = {}]
  BY DEF StopThrows, StopComplete, EndTurn, StopListener
<1>6. buf' \in [Inst -> SUBSET Records] /\ ackRegistry' \in [Inst -> SUBSET Records]
  BY <1>5 DEF TypeOK
<1>7. runtime' \in {runtime, NoTurn} /\ lease' \in {lease, NoOne}
  BY DEF StopThrows, StopComplete, EndTurn
<1>8. runtime' \in TurnType /\ lease' \in Inst \union {NoOne}
  BY <1>7, ValuesTyped DEF TypeOK
<1>9. faults' \in [FaultKinds -> Nat]
  BY SpentTyped, KnownFaults DEF StopThrows, StopComplete, threads, TypeOK
<1> QED
  BY <1>2, <1>4, <1>6, <1>8, <1>9 DEF StopThrows, StopComplete, stream, threads, TypeOK

\* The runtime state and the snapshot are deleted.
LEMMA StopCleanTyped ==
    ASSUME TypeOK, NEW i \in Inst, StopRelease(i) \/ StopClean(i)
    PROVE  TypeOK'
BY ValuesTyped DEF StopRelease, StopClean, stream, local, TypeOK

\* Every step keeps the types.
LEMMA StopTypeStep ==
    ASSUME StopTypeOK, [NextStop]_svars
    PROVE  StopTypeOK'
<1>1. stop \in [Inst -> RequestType] /\ TypeOK /\ requests \in 0..MaxStops
  BY DEF StopTypeOK, RequestType, Places
<1>2. CASE StreamStep
  <2>1. TypeOK'
    BY <1>1, <1>2, TypeStep DEF StreamStep
  <2>2. NoStop \in RequestType
    BY DEF NoStop, RequestType, Places
  <2>3. stop' = [i \in Inst |-> IF mode'[i] = "down" THEN NoStop ELSE stop[i]]
    BY <1>2 DEF StreamStep
  <2>4. stop' \in [Inst -> RequestType]
    BY <1>1, <2>2, <2>3
  <2> QED  BY <1>1, <1>2, <2>1, <2>4 DEF StreamStep, StopTypeOK, RequestType, Places
<1>3. ASSUME NEW i \in Inst, StopChat(i) PROVE StopTypeOK'
  BY <1>3, StopChatTyped
<1>4. ASSUME NEW i \in Inst, StopStep(i) PROVE StopTypeOK'
  <2>1. TypeOK'
    BY <1>1, <1>4, StopGateTyped, StopAnswerTyped, StopEndTyped, StopCleanTyped DEF StopStep
  <2>2. stop' \in [Inst -> RequestType] /\ UNCHANGED requests
    BY <1>4, StopStepRequest
  <2> QED  BY <1>1, <2>1, <2>2 DEF StopTypeOK, RequestType, Places
<1>5. CASE UNCHANGED svars
  <2>1. TypeOK'
    BY <1>1, <1>5 DEF svars, vars, redis, local, TypeOK
  <2> QED  BY <1>1, <1>5, <2>1 DEF svars, StopTypeOK, RequestType, Places
<1> QED  BY <1>2, <1>3, <1>4, <1>5 DEF NextStop

LEMMA StopStarts == InitStop => StopTypeOK
<1> SUFFICES ASSUME InitStop PROVE StopTypeOK
  OBVIOUS
<1>1. TypeOK
  BY InitTyped DEF InitStop
<1>2. NoStop \in RequestType
  BY DEF NoStop, RequestType, Places
<1>3. stop \in [Inst -> RequestType]
  BY <1>2 DEF InitStop
<1> QED  BY <1>1, <1>3, StopsAssumption DEF InitStop, StopTypeOK, RequestType, Places

\* Every variable of the turn and of the requests keeps its type.
THEOREM StopTypes == SpecStop => []StopTypeOK
<1>1. InitStop => StopTypeOK
  BY StopStarts
<1>2. StopTypeOK /\ [NextStop]_svars => StopTypeOK'
  BY StopTypeStep
<1> QED  BY <1>1, <1>2, PTL DEF SpecStop

-----------------------------------------------------------------------------
(***************************************************************************)
(* The shared gate. As long as nothing has failed, the answer is in the    *)
(* hands of a writer or in the database, or else nobody has passed the     *)
(* gate, the terminal record is where it was, and the turn is running.     *)
(***************************************************************************)
InHands == answer.saved \/ \E i \in Inst : stop[i].pc = "write" \/ lock[i].pc = "write"

\* The terminal record has neither been handled nor registered for a repair.
TerminalOpen(i) ==
    /\ N \notin ackRetry[i] /\ N \notin ackRegistry[i]
    /\ \A t \in Threads : N \notin toAck[i][t]
    /\ ~claim[i].paged => N \notin claim[i].ids

UntouchedStream ==
    /\ ~marker /\ runtime.status # "none" /\ (delivered = N => pel[N] # NoOne)
    /\ \A i \in Inst : /\ ~ctx[i].gate /\ cleanup[i] = "none"
                       /\ lock[i].pc \in {"free", "seen", "persist"}
                       /\ TerminalOpen(i)

Untouched ==
    /\ UntouchedStream /\ LeaseOfActive
    /\ \A i \in Inst : stop[i].pc \in {"idle", "gate", "upsert"}

WithinBudget == \A k \in FaultKinds : faults[k] <= Budget[k]

StopInv == StopTypeOK /\ WithinBudget /\ (FaultFree => InHands \/ Untouched)

\* What a step spends that leaves the run free of faults: nothing that counts.
NothingLost ==
    /\ faults["persist"] = MaxPersistFaults /\ faults'["persist"] = MaxPersistFaults
    /\ faults["stall"] = MaxStalls /\ faults'["stall"] = MaxStalls
    /\ faults["renew"] = MaxRenewFaults /\ faults'["renew"] = MaxRenewFaults
    /\ \A i \in Inst : mode'[i] # "down"

LEMMA NothingSpent ==
    ASSUME TypeOK, NothingLost
    PROVE  ~Spend("persist") /\ ~Spend("stall") /\ ~Spend("renew")
BY KnownFaults, BoundsAssumption DEF NothingLost, Spend, TypeOK

\* A request's steps give no fault back and bring no process up or down.
LEMMA StopSpends ==
    ASSUME TypeOK, NEW i \in Inst, StopChat(i) \/ StopStep(i)
    PROVE  NeverGained /\ UNCHANGED mode
<1>1. UNCHANGED faults \/ Spend("persist")
  BY DEF StopChat, StopStep, StopGate, StopWrite, StopWriteFails, StopUpsert, StopNotify,
         StopThrows, StopComplete, StopRelease, StopClean, vars, threads
<1>2. UNCHANGED mode
  BY DEF StopChat, StopStep, StopGate, StopWrite, StopWriteFails, StopUpsert, StopNotify,
         StopThrows, StopComplete, StopRelease, StopClean, vars, local, threads
<1> QED  BY <1>1, <1>2, SpentOnly, KnownFaults

\* A process that is down stays down.
LEMMA DownForGood ==
    ASSUME TypeOK, [Next]_vars
    PROVE  \A i \in Inst : mode[i] = "down" => mode'[i] = "down"
<1>1. CASE UNCHANGED vars \/ Produce \/ Keys
  BY <1>1 DEF vars, local, Produce, Keys, HeartbeatLapses, LeaseLapses, RecoveryLockLapses
<1>2. ASSUME NEW i \in Inst, Handoff(i) \/ Exit(i) \/ Crash(i)
      PROVE  \A j \in Inst : mode[j] = "down" => mode'[j] = "down"
  BY <1>2 DEF Handoff, Exit, Crash, Down, TypeOK
<1>3. ASSUME NEW i \in Inst, Processing(i) PROVE UNCHANGED mode
  BY <1>3 DEF Processing, Replay, Accumulate, EndOfAnswer, PersistGate, WriteMessage, WriteFails,
              NotifyObservers, NotifyFails, MarkPersisted
<1>4. ASSUME NEW i \in Inst, NEW t \in Threads, Thread(i, t) PROVE UNCHANGED mode
  BY <1>4 DEF Thread, Begin, Missing, Ack, AckFails
<1>5. ASSUME NEW i \in Inst,
             \/ Reader(i) \/ StartDrain(i) \/ SaveSnapshot(i) \/ AckAgain(i) \/ Cleaning(i)
             \/ Heartbeat(i) \/ RenewFails(i) \/ ReleaseLease(i)
      PROVE  UNCHANGED mode
  BY <1>5 DEF Reader, Read, ReadLate, StartDrain, SaveSnapshot, AckAgain, Cleaning,
              CleanupSnapshot, CompleteTurn, Heartbeat, RenewFails, ReleaseLease, local
<1>6. ASSUME NEW i \in Inst, Recovery(i) PROVE UNCHANGED mode
  BY <1>6 DEF Recovery, Scan, TakeRecoveryLock, StartPaused, StartRefused, ClaimPage, Resume,
              ClaimAckFailed
<1> QED  BY <1>1, <1>2, <1>3, <1>4, <1>5, <1>6 DEF Next

\* A run that is free of faults after a step was so before it.
LEMMA FaultFreeBefore ==
    ASSUME StopTypeOK, WithinBudget, [NextStop]_svars
    PROVE  WithinBudget' /\ (FaultFree' => FaultFree /\ NothingLost)
<1>1. NeverGained /\ \A i \in Inst : mode[i] = "down" => mode'[i] = "down"
  <2>1. CASE StreamStep \/ UNCHANGED svars
    <3>1. [Next]_vars
      BY <2>1 DEF StreamStep, svars
    <3> QED  BY <3>1, FaultsStep, DownForGood DEF StopTypeOK
  <2>2. ASSUME NEW i \in Inst, StopChat(i) \/ StopStep(i)
        PROVE  NeverGained /\ UNCHANGED mode
    BY <2>2, StopSpends DEF StopTypeOK
  <2> QED  BY <2>1, <2>2 DEF NextStop
<1>2. \A k \in FaultKinds : /\ faults[k] \in Nat /\ faults'[k] \in Nat
                            /\ faults'[k] <= faults[k] /\ faults[k] <= Budget[k]
  BY <1>1, StopTypeStep DEF StopTypeOK, TypeOK, WithinBudget, NeverGained
<1>3. \A k \in FaultKinds : Budget[k] \in Nat
  BY BoundsAssumption DEF FaultKinds, Budget
<1>4. WithinBudget'
  BY <1>2, <1>3 DEF WithinBudget, Budget
<1>5. /\ Budget["persist"] = MaxPersistFaults /\ Budget["stall"] = MaxStalls
      /\ Budget["renew"] = MaxRenewFaults
  BY DEF Budget
<1>6. FaultFree' => NothingLost
  BY <1>2, <1>5, KnownFaults, BoundsAssumption DEF FaultFree, NoListenerLost, NothingLost
<1>7. FaultFree' => FaultFree
  BY <1>1, <1>6 DEF FaultFree, NoListenerLost, NothingLost
<1> QED  BY <1>4, <1>6, <1>7

\* The stream's steps leave a writer what it has to write.
LEMMA StreamKeepsHands ==
    ASSUME TypeOK, NothingLost, [Next]_vars
    PROVE  /\ answer.saved => answer'.saved
           /\ \A i \in Inst : lock[i].pc = "write" => lock'[i].pc = "write" \/ answer'.saved
<1> DEFINE Kept == /\ answer.saved => answer'.saved
                   /\ \A i \in Inst : lock[i].pc = "write" => lock'[i].pc = "write" \/ answer'.saved
<1>1. CASE UNCHANGED vars \/ Produce \/ Keys
  BY <1>1 DEF vars, local, Produce, Keys, HeartbeatLapses, LeaseLapses, RecoveryLockLapses
<1>2. ASSUME NEW i \in Inst, Processing(i) PROVE Kept
  <2>1. CASE WriteMessage(i)
    BY <2>1 DEF WriteMessage, TypeOK, AnswerType
  <2>2. CASE NotifyObservers(i)
    BY <2>2 DEF NotifyObservers, TypeOK, AnswerType
  <2>3. CASE Replay(i) \/ Accumulate(i) \/ EndOfAnswer(i) \/ PersistGate(i) \/ MarkPersisted(i)
    <3>1. UNCHANGED answer /\ lock[i].pc # "write"
      BY <2>3 DEF Replay, Accumulate, EndOfAnswer, PersistGate, MarkPersisted
    <3>2. \A j \in Inst \ {i} : lock'[j] = lock[j]
      BY <2>3 DEF Replay, Accumulate, EndOfAnswer, PersistGate, MarkPersisted, Handled, TypeOK
    <3> QED  BY <3>1, <3>2
  <2> QED  BY <1>2, <2>1, <2>2, <2>3, NothingSpent DEF Processing, WriteFails, NotifyFails
<1>3. ASSUME NEW i \in Inst, NEW t \in Threads, Thread(i, t) PROVE Kept
  <2>1. CASE Begin(i, t)
    BY <2>1 DEF Begin, Free, TypeOK
  <2> QED  BY <1>3, <2>1 DEF Thread, Missing, Ack, AckFails
<1>4. ASSUME NEW i \in Inst,
             \/ Reader(i) \/ StartDrain(i) \/ SaveSnapshot(i) \/ AckAgain(i) \/ Cleaning(i)
             \/ Heartbeat(i) \/ RenewFails(i) \/ Handoff(i) \/ ReleaseLease(i)
      PROVE  Kept
  BY <1>4 DEF Reader, Read, ReadLate, StartDrain, SaveSnapshot, AckAgain, Cleaning,
              CleanupSnapshot, CompleteTurn, Heartbeat, RenewFails, Handoff, ReleaseLease, local
<1>5. ASSUME NEW i \in Inst, Exit(i) \/ Crash(i) PROVE FALSE
  BY <1>5 DEF Exit, Crash, Down, TypeOK, NothingLost
<1>6. ASSUME NEW i \in Inst, Recovery(i) PROVE Kept
  BY <1>6 DEF Recovery, Scan, TakeRecoveryLock, StartPaused, StartRefused, ClaimPage, Resume,
              ClaimAckFailed
<1> QED  BY <1>1, <1>2, <1>3, <1>4, <1>5, <1>6 DEF Next

\* Who is to write the answer, writes it.
LEMMA HandsKept ==
    ASSUME StopTypeOK, NothingLost, InHands, [NextStop]_svars
    PROVE  InHands'
<1>1. CASE StreamStep \/ UNCHANGED svars
  <2>1. [Next]_vars /\ TypeOK
    BY <1>1 DEF StreamStep, svars, StopTypeOK
  <2>2. \A i \in Inst : stop'[i] = stop[i]
    BY <1>1 DEF StreamStep, svars, StopTypeOK, NothingLost
  <2> QED  BY <2>1, <2>2, StreamKeepsHands DEF InHands
<1>2. ASSUME NEW i \in Inst, StopChat(i) \/ StopStep(i) PROVE InHands'
  <2>1. UNCHANGED lock /\ \A j \in Inst \ {i} : stop'[j] = stop[j]
    BY <1>2 DEF StopChat, StopStep, StopGate, StopWrite, StopWriteFails, StopUpsert, StopNotify,
                StopThrows, StopComplete, StopRelease, StopClean, Goto, vars, local, threads,
                StopTypeOK
  <2>2. CASE StopWrite(i) \/ StopUpsert(i)
    BY <2>2 DEF StopWrite, StopUpsert, Answer, InHands, StopTypeOK, TypeOK, AnswerType
  <2>3. CASE ~StopWrite(i) /\ ~StopUpsert(i)
    <3>1. stop[i].pc # "write"
      BY <1>2, <2>3, NothingSpent
         DEF StopChat, StopStep, StopGate, StopWriteFails, StopNotify, StopThrows, StopComplete,
             StopRelease, StopClean, StopTypeOK
    <3>2. answer.saved => answer'.saved
      BY <1>2, <2>3
         DEF StopChat, StopStep, StopGate, StopWriteFails, StopNotify, StopThrows, StopComplete,
             StopRelease, StopClean, vars, StopTypeOK, TypeOK, AnswerType
    <3> QED  BY <2>1, <3>1, <3>2 DEF InHands
  <2> QED  BY <2>2, <2>3
<1> QED  BY <1>1, <1>2 DEF NextStop

\* Actions on nothing that tells an untouched turn.
LEMMA ElsewhereUntouched ==
    ASSUME UntouchedStream,
           UNCHANGED <<marker, delivered, pel, ctx, cleanup, lock, ackRetry, ackRegistry, toAck,
                       claim>>,
           runtime'.status # "none"
    PROVE  UntouchedStream'
BY DEF UntouchedStream, TerminalOpen

\* Keys that lapse, and a worker that appends.
LEMMA KeysUntouched ==
    ASSUME TypeOK, UntouchedStream, UNCHANGED vars \/ Produce \/ Keys
    PROVE  UntouchedStream'
<1>1. UNCHANGED runtime \/ runtime' = [runtime EXCEPT !.fresh = FALSE]
  BY DEF vars, redis, Produce, Keys, HeartbeatLapses, LeaseLapses, RecoveryLockLapses
<1>2. runtime'.status # "none"
  BY <1>1 DEF UntouchedStream, TypeOK, TurnType
<1> QED
  BY <1>2, ElsewhereUntouched DEF vars, redis, local, Produce, Keys, HeartbeatLapses,
                                  LeaseLapses, RecoveryLockLapses

\* A delivery makes the terminal record pending.
LEMMA ReadUntouched ==
    ASSUME TypeOK, UntouchedStream, NothingLost, NEW i \in Inst, Reader(i)
    PROVE  UntouchedStream'
<1>1. Read(i)
  BY NothingSpent DEF Reader, ReadLate
<1>2. delivered' = N => pel'[N] # NoOne
  BY <1>1, NAssumption, InstAssumption DEF Read, TypeOK, Records
<1> QED  BY <1>1, <1>2 DEF Read, UntouchedStream, TerminalOpen

\* A record below the terminal one is handled.
LEMMA HandledUntouched ==
    ASSUME TypeOK, UntouchedStream, NEW i \in Inst, lock[i].pc # "free", lock[i].rec # N,
           Handled(i)
    PROVE  /\ \A j \in Inst, t \in Threads : N \notin toAck'[j][t]
           /\ \A j \in Inst : lock'[j].pc \in {"free", "seen", "persist"}
<1>1. PICK u \in Threads, r \in Records : u = lock[i].by /\ r = lock[i].rec
  BY FieldsTyped
<1>2. toAck' = [toAck EXCEPT ![i][u] = @ \union {r}] /\ r # N
  BY <1>1 DEF Handled
<1>3. \A j \in Inst, t \in Threads : N \notin toAck'[j][t]
  BY <1>2 DEF TypeOK, UntouchedStream, TerminalOpen
<1>4. lock' = [lock EXCEPT ![i] = Free]
  BY DEF Handled
<1>5. \A j \in Inst : lock'[j].pc \in {"free", "seen", "persist"}
  BY <1>4 DEF Free, TypeOK, UntouchedStream
<1> QED  BY <1>3, <1>5

\* Processing reaches the gate at most; who passes it is the writer.
LEMMA ProcessingUntouched ==
    ASSUME TypeOK, UntouchedStream, NEW i \in Inst, Processing(i)
    PROVE  UntouchedStream' \/ \E j \in Inst : lock'[j].pc = "write"
<1>1. CASE PersistGate(i)
  <2>1. lock' = [lock EXCEPT ![i].pc = "write"]
    BY <1>1 DEF PersistGate, UntouchedStream
  <2> QED  BY <2>1 DEF TypeOK
<1>2. CASE EndOfAnswer(i) \/ (Replay(i) /\ ~Handled(i))
  <2>1. lock' = [lock EXCEPT ![i].pc = "persist"]
    BY <1>2 DEF EndOfAnswer, Replay
  <2>2. \A j \in Inst : lock'[j].pc \in {"free", "seen", "persist"}
    BY <2>1 DEF TypeOK, UntouchedStream
  <2>3. UNCHANGED ctx \/ ctx' = [ctx EXCEPT ![i].wm = N]
    BY <1>2 DEF EndOfAnswer, Replay
  <2>4. \A j \in Inst : ~ctx'[j].gate
    <3>1. CASE ctx' = [ctx EXCEPT ![i].wm = N]
      BY <3>1 DEF TypeOK, ContextType, UntouchedStream
    <3> QED  BY <2>3, <3>1 DEF UntouchedStream
  <2> QED  BY <1>2, <2>2, <2>4 DEF EndOfAnswer, Replay, redis, UntouchedStream, TerminalOpen
<1>3. CASE Accumulate(i) \/ (Replay(i) /\ Handled(i))
  <2>1. lock[i].pc = "seen" /\ Handled(i)
    BY <1>3 DEF Accumulate, Replay
  <2>2. lock[i].rec # N
    <3>1. Handled(i) /\ lock'[i] = Free
      BY <2>1 DEF Handled, TypeOK
    <3>2. lock' # [lock EXCEPT ![i].pc = "persist"]
      BY <3>1 DEF Free, TypeOK
    <3>3. N \in Nat
      BY NAssumption
    <3> QED  BY <1>3, <3>2, <3>3 DEF Accumulate, Replay, UntouchedStream
  <2>3. /\ \A j \in Inst, t \in Threads : N \notin toAck'[j][t]
        /\ \A j \in Inst : lock'[j].pc \in {"free", "seen", "persist"}
    BY <2>1, <2>2, HandledUntouched
  <2>4. \A j \in Inst : ~ctx'[j].gate
    <3>1. CASE Accumulate(i)
      BY <3>1 DEF Accumulate, TypeOK, ContextType, UntouchedStream
    <3>2. CASE Replay(i)
      BY <3>2 DEF Replay, UntouchedStream
    <3> QED  BY <1>3, <3>1, <3>2
  <2> QED  BY <1>3, <2>3, <2>4 DEF Accumulate, Replay, redis, UntouchedStream, TerminalOpen
<1>4. lock[i].pc \in {"free", "seen", "persist"}
  BY DEF UntouchedStream
<1> QED
  BY <1>1, <1>2, <1>3, <1>4
  DEF Processing, WriteMessage, WriteFails, NotifyObservers, NotifyFails, MarkPersisted

\* A batch without the terminal record is begun, given up or acknowledged.
LEMMA ThreadUntouched ==
    ASSUME TypeOK, UntouchedStream, NEW i \in Inst, NEW t \in Threads, Thread(i, t)
    PROVE  UntouchedStream'
<1>1. CASE Begin(i, t)
  <2>1. PICK r \in Records :
           /\ lock' = [lock EXCEPT ![i] = [pc |-> "seen", by |-> t, rec |-> r]]
           /\ \/ ctx' = [ctx EXCEPT ![i].cur = r]
              \/ ctx' = [ctx EXCEPT ![i] = [Hydrated EXCEPT !.cur = r]]
    BY <1>1, FieldsTyped DEF Begin
  <2>2. ~[Hydrated EXCEPT !.cur = r].gate
    BY DEF Hydrated
  <2>3. \A j \in Inst : ~ctx'[j].gate
    <3>1. CASE ctx' = [ctx EXCEPT ![i].cur = r]
      BY <3>1 DEF TypeOK, ContextType, UntouchedStream
    <3>2. CASE ctx' = [ctx EXCEPT ![i] = [Hydrated EXCEPT !.cur = r]]
      BY <2>2, <3>2 DEF TypeOK, UntouchedStream
    <3> QED  BY <2>1, <3>1, <3>2
  <2>4. \A j \in Inst : lock'[j].pc \in {"free", "seen", "persist"}
    BY <2>1 DEF TypeOK, UntouchedStream
  <2> QED  BY <1>1, <2>3, <2>4 DEF Begin, redis, UntouchedStream, TerminalOpen
<1>2. CASE Missing(i, t)
  <2>1. GiveUp(i, t)
    BY <1>2 DEF Missing
  <2>2. \A j \in Inst : N \notin ackRegistry'[j] /\ (~claim'[j].paged => N \notin claim'[j].ids)
    <3>1. /\ UNCHANGED claim \/ claim' = [claim EXCEPT ![i] = NoClaim]
          /\ \/ UNCHANGED ackRegistry
             \/ /\ ~claim[i].paged
                /\ ackRegistry' = [ackRegistry EXCEPT ![i] = @ \union claim[i].ids]
      BY <2>1 DEF GiveUp
    <3>2. \A j \in Inst : N \notin ackRegistry'[j]
      <4>1. \A j \in Inst : \/ ackRegistry'[j] = ackRegistry[j]
                            \/ ackRegistry'[j] = ackRegistry[j] \union claim[j].ids /\ ~claim[j].paged
        BY <3>1 DEF TypeOK
      <4> QED  BY <4>1 DEF UntouchedStream, TerminalOpen
    <3>3. \A j \in Inst : ~claim'[j].paged => N \notin claim'[j].ids
      <4>1. \A j \in Inst : claim'[j] = claim[j] \/ claim'[j].ids = {}
        <5>1. NoClaim.ids = {}
          BY DEF NoClaim
        <5> QED  BY <3>1, <5>1 DEF TypeOK
      <4> QED  BY <4>1 DEF UntouchedStream, TerminalOpen
    <3> QED  BY <3>2, <3>3
  <2> QED  BY <1>2, <2>2 DEF Missing, redis, UntouchedStream, TerminalOpen
<1>3. CASE Ack(i, t) \/ AckFails(i, t)
  <2>1. PICK r \in toAck[i][t] : /\ toAck' = [toAck EXCEPT ![i][t] = @ \ {r}]
                                 /\ \/ Acknowledged(i, r) /\ UNCHANGED ackRetry
                                    \/ /\ ackRetry' = [ackRetry EXCEPT ![i] = @ \union {r}]
                                       /\ UNCHANGED <<ackRegistry, pel, cleanup>>
                                    \/ /\ ackRegistry' = [ackRegistry EXCEPT ![i] = @ \union {r}]
                                       /\ UNCHANGED <<ackRetry, pel, cleanup>>
    BY <1>3 DEF Ack, AckFails, redis
  <2>2. r \in Records /\ r # N /\ N \in Records
    BY FieldsTyped, NAssumption DEF UntouchedStream, TerminalOpen, Records
  <2>3. \A j \in Inst, u \in Threads : N \notin toAck'[j][u]
    BY <2>1 DEF TypeOK, UntouchedStream, TerminalOpen
  <2>4. \A j \in Inst : N \notin ackRetry'[j]
    <3>1. \A j \in Inst : ackRetry'[j] \subseteq ackRetry[j] \union {r}
      BY <2>1 DEF TypeOK
    <3> QED  BY <2>2, <3>1 DEF UntouchedStream, TerminalOpen
  <2>5. \A j \in Inst : N \notin ackRegistry'[j]
    <3>1. \A j \in Inst : ackRegistry'[j] \subseteq ackRegistry[j] \union {r}
      BY <2>1 DEF Acknowledged, TypeOK
    <3> QED  BY <2>2, <3>1 DEF UntouchedStream, TerminalOpen
  <2>6. UNCHANGED cleanup /\ pel'[N] = pel[N]
    BY <2>1, <2>2 DEF Acknowledged, TypeOK
  <2> QED
    BY <1>3, <2>3, <2>4, <2>5, <2>6 DEF Ack, AckFails, redis, UntouchedStream, TerminalOpen
<1> QED  BY <1>1, <1>2, <1>3 DEF Thread

\* The retry timer repairs the acknowledgements of other records.
LEMMA AckAgainUntouched ==
    ASSUME TypeOK, UntouchedStream, NEW i \in Inst, AckAgain(i)
    PROVE  UntouchedStream'
<1>1. PICK r \in ackRetry[i] : /\ ackRetry' = [ackRetry EXCEPT ![i] = @ \ {r}]
                               /\ \/ Acknowledged(i, r)
                                  \/ /\ ackRegistry' = [ackRegistry EXCEPT ![i] = @ \union {r}]
                                     /\ UNCHANGED <<pel, cleanup>>
  BY DEF AckAgain
<1>2. r \in Records /\ r # N /\ N \in Records
  BY NAssumption DEF TypeOK, UntouchedStream, TerminalOpen, Records
<1>3. \A j \in Inst : N \notin ackRetry'[j]
  BY <1>1 DEF TypeOK, UntouchedStream, TerminalOpen
<1>4. \A j \in Inst : N \notin ackRegistry'[j]
  <2>1. \A j \in Inst : ackRegistry'[j] \subseteq ackRegistry[j] \union {r}
    <3>1. CASE ackRegistry' = [ackRegistry EXCEPT ![i] = @ \union {r}]
      BY <3>1 DEF TypeOK
    <3>2. CASE Acknowledged(i, r)
      BY <3>2 DEF Acknowledged, TypeOK
    <3> QED  BY <1>1, <3>1, <3>2
  <2> QED  BY <1>2, <2>1 DEF UntouchedStream, TerminalOpen
<1>5. UNCHANGED cleanup /\ pel'[N] = pel[N]
  BY <1>1, <1>2 DEF Acknowledged, TypeOK
<1> QED  BY <1>3, <1>4, <1>5 DEF AckAgain, UntouchedStream, TerminalOpen

\* Recovery rebuilds contexts with an open gate and claims what is pending.
LEMMA RecoveryUntouched ==
    ASSUME TypeOK, UntouchedStream, NEW i \in Inst, Recovery(i)
    PROVE  UntouchedStream'
<1>1. CASE Scan(i)
  BY <1>1, ElsewhereUntouched DEF Scan, redis, UntouchedStream
<1>2. CASE TakeRecoveryLock(i) \/ StartRefused(i)
  <2>1. \/ UNCHANGED ctx \/ ctx' = [ctx EXCEPT ![i] = Hydrated]
        \/ ctx' = [ctx EXCEPT ![i].held = FALSE]
    BY <1>2 DEF TakeRecoveryLock, StartRefused
  <2>2. \A j \in Inst : ~ctx'[j].gate
    <3>1. CASE ctx' = [ctx EXCEPT ![i] = Hydrated]
      BY <3>1 DEF Hydrated, TypeOK, UntouchedStream
    <3>2. CASE ctx' = [ctx EXCEPT ![i].held = FALSE]
      BY <3>2 DEF TypeOK, ContextType, UntouchedStream
    <3> QED  BY <2>1, <3>1, <3>2 DEF UntouchedStream
  <2> QED  BY <1>2, <2>2 DEF TakeRecoveryLock, StartRefused, redis, UntouchedStream, TerminalOpen
<1>3. CASE StartPaused(i) \/ Resume(i)
  <2>1. claim' = [claim EXCEPT ![i] = NoClaim] /\ runtime' \in {runtime, Running(i)}
    BY <1>3 DEF StartPaused, Resume, redis
  <2>2. \A j \in Inst : ~claim'[j].paged => N \notin claim'[j].ids
    BY <2>1 DEF NoClaim, TypeOK, UntouchedStream, TerminalOpen
  <2>3. runtime'.status # "none"
    BY <2>1 DEF Running, UntouchedStream
  <2> QED  BY <1>3, <2>2, <2>3 DEF StartPaused, Resume, redis, UntouchedStream, TerminalOpen
<1>4. CASE ClaimPage(i) \/ ClaimAckFailed(i)
  <2>1. PICK P \in SUBSET Pending : pel' = [r \in Records |-> IF r \in P THEN i ELSE pel[r]]
    <3>1. CASE ClaimPage(i)
      BY <3>1 DEF ClaimPage, UpTo, Page
    <3>2. CASE ClaimAckFailed(i)
      BY <3>2 DEF ClaimAckFailed
    <3> QED  BY <1>4, <3>1, <3>2
  <2>2. pel'[N] = NoOne => pel[N] = NoOne
    BY <2>1, NAssumption, InstAssumption DEF Records
  <2>3. \A j \in Inst : ~claim'[j].paged => N \notin claim'[j].ids
    <3>1. \/ claim'[i].paged
          \/ claim'[i].ids = ackRegistry[i]
      BY <1>4 DEF ClaimPage, ClaimAckFailed, TypeOK
    <3>2. \A j \in Inst \ {i} : claim'[j] = claim[j]
      BY <1>4 DEF ClaimPage, ClaimAckFailed, TypeOK
    <3> QED  BY <3>1, <3>2 DEF UntouchedStream, TerminalOpen
  <2>4. \A j \in Inst : N \notin ackRegistry'[j]
    BY <1>4 DEF ClaimPage, ClaimAckFailed, TypeOK, UntouchedStream, TerminalOpen
  <2> QED  BY <1>4, <2>2, <2>3, <2>4 DEF ClaimPage, ClaimAckFailed, UntouchedStream, TerminalOpen
<1> QED  BY <1>1, <1>2, <1>3, <1>4 DEF Recovery

\* The stream leaves the turn untouched, or to a writer.
LEMMA StreamUntouched ==
    ASSUME TypeOK, UntouchedStream, LeaseOfActive, NothingLost, [Next]_vars
    PROVE  UntouchedStream' \/ \E j \in Inst : lock'[j].pc = "write"
<1>1. CASE UNCHANGED vars \/ Produce \/ Keys
  BY <1>1, KeysUntouched
<1>2. ASSUME NEW i \in Inst, Reader(i) PROVE UntouchedStream'
  BY <1>2, ReadUntouched
<1>3. ASSUME NEW i \in Inst,
             StartDrain(i) \/ SaveSnapshot(i) \/ Heartbeat(i) \/ Handoff(i) \/ ReleaseLease(i)
      PROVE  UntouchedStream'
  <2>1. \/ runtime' \in {runtime, Running(i)}
        \/ runtime' = [runtime EXCEPT !.status = "handoff"]
    BY <1>3 DEF StartDrain, SaveSnapshot, Heartbeat, Handoff, ReleaseLease, redis
  <2>2. runtime'.status # "none"
    BY <2>1 DEF Running, UntouchedStream, TypeOK, TurnType
  <2> QED
    BY <1>3, <2>2, ElsewhereUntouched
    DEF StartDrain, SaveSnapshot, Heartbeat, Handoff, ReleaseLease, redis, local
<1>4. ASSUME NEW i \in Inst, Cleaning(i) PROVE FALSE
  BY <1>4 DEF Cleaning, CleanupSnapshot, CompleteTurn, UntouchedStream
<1>5. ASSUME NEW i \in Inst, RenewFails(i) PROVE FALSE
  BY <1>5, NothingSpent DEF RenewFails, LeaseOfActive, NothingLost
<1>6. ASSUME NEW i \in Inst, Exit(i) \/ Crash(i) PROVE FALSE
  BY <1>6 DEF Exit, Crash, Down, TypeOK, NothingLost
<1> QED
  BY <1>1, <1>2, <1>3, <1>4, <1>5, <1>6, ProcessingUntouched, ThreadUntouched,
     AckAgainUntouched, RecoveryUntouched DEF Next

\* So does a request.
LEMMA UntouchedKept ==
    ASSUME StopTypeOK, Untouched, NothingLost, [NextStop]_svars
    PROVE  InHands' \/ Untouched'
<1>1. CASE StreamStep \/ UNCHANGED svars
  <2>1. [Next]_vars /\ TypeOK
    BY <1>1 DEF StreamStep, svars, StopTypeOK
  <2>2. \A i \in Inst : stop'[i] = stop[i]
    BY <1>1 DEF StreamStep, svars, StopTypeOK, NothingLost
  <2> QED  BY <2>1, <2>2, StreamUntouched, LeaseStep DEF InHands, Untouched
<1>2. ASSUME NEW i \in Inst, StopChat(i) PROVE Untouched'
  <2>1. UNCHANGED vars
    BY <1>2 DEF StopChat
  <2>2. UntouchedStream' /\ LeaseOfActive'
    <3>1. TypeOK /\ UntouchedStream /\ LeaseOfActive
      BY DEF StopTypeOK, Untouched
    <3> QED  BY <2>1, <3>1, KeysUntouched, LeaseStep
  <2>3. \A j \in Inst : stop'[j].pc \in {"idle", "gate", "upsert"}
    BY <1>2 DEF StopChat, Goto, StopTypeOK, Untouched
  <2> QED  BY <2>2, <2>3 DEF Untouched
<1>3. ASSUME NEW i \in Inst, StopGate(i) PROVE InHands'
  <2>1. stop'[i].pc = "write"
    BY <1>3 DEF StopGate, Goto, StopTypeOK, Untouched, UntouchedStream
  <2> QED  BY <2>1 DEF InHands
<1>4. ASSUME NEW i \in Inst, StopUpsert(i) PROVE InHands'
  BY <1>4 DEF StopUpsert, Answer, InHands, StopTypeOK, TypeOK, AnswerType
<1>5. ASSUME NEW i \in Inst, StopStep(i) PROVE StopGate(i) \/ StopUpsert(i)
  <2>1. stop[i].pc \in {"idle", "gate", "upsert"}
    BY DEF Untouched
  <2> QED
    BY <1>5, <2>1, NothingSpent DEF StopStep, StopWrite, StopWriteFails, StopNotify, StopThrows,
       StopComplete, StopRelease, StopClean, StopTypeOK
<1> QED  BY <1>1, <1>2, <1>3, <1>4, <1>5 DEF NextStop

LEMMA UntouchedStart == InitStop => Untouched
<1> SUFFICES ASSUME InitStop PROVE Untouched
  OBVIOUS
<1>1. \A b \in BOOLEAN : ~[NoCtx EXCEPT !.held = b].gate
  BY DEF NoCtx
<1>2. \A i \in Inst : ~ctx[i].gate /\ lock[i].pc = "free"
  BY <1>1 DEF InitStop, Init, Free
<1>3. \A i \in Inst : TerminalOpen(i)
  BY DEF InitStop, Init, Nothing, NoClaim, TerminalOpen
<1>4. runtime.status # "none"
  BY DEF InitStop, Init, Running
<1>5. UntouchedStream
  BY <1>2, <1>3, <1>4, NAssumption DEF InitStop, Init, UntouchedStream
<1> QED  BY <1>5, LeaseStart DEF InitStop, NoStop, Untouched

\* A stop request and the terminal record pass one gate, and the one that finds
\* it taken acknowledges or releases on the other's word: as long as no write
\* has failed, no listener was lost and no process went down, the answer is in
\* the database by then or the other is about to write it
\* (persistTurnMessage, ScriptService.flushAccumulatedMessage).
THEOREM UnwrittenHeld == SpecStop => []UnwrittenAnswerHeldByOther
<1>1. InitStop => StopInv
  <2>1. InitStop => WithinBudget
    BY BoundsAssumption DEF InitStop, Init, WithinBudget, Budget, FaultKinds
  <2> QED  BY <2>1, StopStarts, UntouchedStart DEF StopInv
<1>2. StopInv /\ [NextStop]_svars => StopInv'
  <2> SUFFICES ASSUME StopInv, [NextStop]_svars PROVE StopInv'
    OBVIOUS
  <2>1. StopTypeOK' /\ WithinBudget' /\ (FaultFree' => FaultFree /\ NothingLost)
    BY StopTypeStep, FaultFreeBefore DEF StopInv
  <2>2. ASSUME FaultFree' PROVE InHands' \/ Untouched'
    BY <2>1, <2>2, HandsKept, UntouchedKept DEF StopInv
  <2> QED  BY <2>1, <2>2 DEF StopInv
<1>3. StopInv => UnwrittenAnswerHeldByOther
  BY DEF StopInv, InHands, Untouched, UntouchedStream, UnwrittenAnswerHeldByOther, TerminalAcked
<1> QED  BY <1>1, <1>2, <1>3, PTL DEF SpecStop
=============================================================================

---------------------------- MODULE SessionStop ----------------------------
(***************************************************************************)
(* The user's STOP_CHAT beside a turn's stream: any instance may receive   *)
(* the request. One that has the turn's context persists what it has       *)
(* accumulated through the same one-shot gate as the terminal record, but  *)
(* not under the processing lock; one that has not persists the running    *)
(* snapshot from Redis without any gate.                                   *)
(***************************************************************************)
EXTENDS SessionStream

CONSTANT MaxStops       \* bound on STOP_CHAT requests
ASSUME StopsAssumption == MaxStops \in Nat

VARIABLES
    stop,       \* each instance's request: how far it is, and the snapshot it read
    requests    \* requests that may still arrive

svars == <<vars, stop, requests>>
stream == <<produced, delivered, pel, recoverer, marker>>
threads == <<mode, work, toAck, lock, behind, ackRetry, claim, cleanup, rec, faults>>

NoStop == [pc |-> "idle", body |-> {}]
InitStop == Init /\ stop = [i \in Inst |-> NoStop] /\ requests = MaxStops

Goto(i, pc) == stop' = [stop EXCEPT ![i].pc = pc]
Answer(b, rebuilt) == answer' = [answer EXCEPT !.saved = TRUE, !.body = b, !.recovered = rebuilt]

\* flushAccumulatedMessage: this instance's context, or the snapshot, or nothing.
StopChat(i) ==
    /\ mode[i] = "up" /\ stop[i].pc = "idle" /\ requests > 0
    /\ requests' = requests - 1
    /\ \/ ctx[i].held /\ Goto(i, "gate")
       \/ /\ ~ctx[i].held /\ snapshot # NoSnapshot
          /\ stop' = [stop EXCEPT ![i] = [pc |-> "upsert", body |-> snapshot.body]]
       \/ ~ctx[i].held /\ snapshot = NoSnapshot /\ UNCHANGED stop
    /\ UNCHANGED vars

\* Mutant: a context that has accumulated nothing counts as persisted.
StopGateUnlessEmpty(i) ==
    /\ stop[i].pc = "gate"
    /\ Goto(i, IF ctx[i].gate \/ ctx[i].body = {} THEN "notify" ELSE "write")
    /\ ctx' = [ctx EXCEPT ![i].gate = TRUE]
    /\ UNCHANGED <<redis, answer, mode, listener, buf, work, toAck, lock, behind, ackRetry,
                   ackRegistry, claim, cleanup, rec, faults, requests>>

\* persistTurnMessage of the context.
StopGate(i) ==
    /\ stop[i].pc = "gate"
    /\ Goto(i, IF ctx[i].gate THEN "notify" ELSE "write")
    /\ ctx' = [ctx EXCEPT ![i].gate = TRUE]
    /\ UNCHANGED <<redis, answer, mode, listener, buf, work, toAck, lock, behind, ackRetry,
                   ackRegistry, claim, cleanup, rec, faults, requests>>

StopWrite(i) ==
    /\ stop[i].pc = "write"
    /\ Answer(ctx[i].body, ctx[i].recovered)
    /\ Goto(i, "notify")
    /\ UNCHANGED <<redis, local, faults, requests>>

\* The gate is reopened and the request leaves everything to recovery.
StopWriteFails(i) ==
    /\ stop[i].pc = "write" /\ Spend("persist")
    /\ ctx' = [ctx EXCEPT ![i].gate = FALSE]
    /\ stop' = [stop EXCEPT ![i] = NoStop]
    /\ UNCHANGED <<redis, answer, mode, listener, buf, work, toAck, lock, behind, ackRetry,
                   ackRegistry, claim, cleanup, rec, requests>>

\* flushFromSnapshot, after its read: the upsert carries no version.
StopUpsert(i) ==
    /\ stop[i].pc = "upsert"
    /\ Answer(stop[i].body, TRUE)
    /\ stop' = [stop EXCEPT ![i] = [pc |-> "observe", body |-> {}]]
    /\ UNCHANGED <<redis, local, faults, requests>>

\* Mutant: the turn is left to its terminal record to complete and release.
StopNotifyOnly(i) ==
    /\ stop[i].pc \in {"notify", "observe"}
    /\ answer' = [answer EXCEPT !.notified = TRUE]
    /\ Goto(i, "clean")
    /\ UNCHANGED <<redis, local, faults, requests>>

StopNotify(i) ==
    /\ stop[i].pc \in {"notify", "observe"}
    /\ answer' = [answer EXCEPT !.notified = TRUE]
    /\ Goto(i, IF stop[i].pc = "notify" THEN "complete" ELSE "release")
    /\ UNCHANGED <<redis, local, faults, requests>>

\* With a context the failure is only reported; without one it is thrown, and
\* a listener this instance has is stopped.
StopThrows(i) ==
    /\ stop[i].pc \in {"notify", "upsert", "observe"} /\ Spend("persist")
    /\ stop' = [stop EXCEPT ![i] = NoStop]
    /\ IF stop[i].pc # "notify" /\ Active(i)
       THEN /\ StopListener(i)
            /\ lease' = IF lease = i THEN NoOne ELSE lease
            /\ runtime' = IF ctx[i].held THEN NoTurn ELSE runtime
       ELSE UNCHANGED <<listener, buf, ackRegistry, ctx, lease, runtime>>
    /\ UNCHANGED <<stream, snapshot, answer, mode, work, toAck, lock, behind, ackRetry, claim,
                   cleanup, rec, requests>>

StopComplete(i) ==
    /\ stop[i].pc = "complete"
    /\ EndTurn(i)
    /\ Goto(i, "release")
    /\ UNCHANGED <<stream, snapshot, answer, threads, requests>>

\* RunningOutputStreamRegistry.release of the same answer.
StopRelease(i) ==
    /\ stop[i].pc = "release"
    /\ runtime' = NoTurn
    /\ Goto(i, "clean")
    /\ UNCHANGED <<stream, lease, snapshot, answer, local, faults, requests>>

StopClean(i) ==
    /\ stop[i].pc = "clean"
    /\ snapshot' = NoSnapshot
    /\ stop' = [stop EXCEPT ![i] = NoStop]
    /\ UNCHANGED <<stream, lease, runtime, answer, local, faults, requests>>

StopStep(i) ==
    \/ StopGate(i) \/ StopWrite(i) \/ StopWriteFails(i) \/ StopUpsert(i) \/ StopNotify(i)
    \/ StopThrows(i) \/ StopComplete(i) \/ StopRelease(i) \/ StopClean(i)

UsesContext(i) == stop[i].pc \in {"gate", "write", "notify", "complete"}

\* A step of the stream. A request ends with its process, and an instance
\* rebuilds no context while a request uses the one it had.
StreamStep ==
    /\ Next
    /\ \A i \in Inst : UsesContext(i) /\ ctx'[i].held => ctx[i].held
    /\ stop' = [i \in Inst |-> IF mode'[i] = "down" THEN NoStop ELSE stop[i]]
    /\ UNCHANGED requests

NextStop == StreamStep \/ \E i \in Inst : StopChat(i) \/ StopStep(i)

SpecStop == InitStop /\ [][NextStop]_svars

\* A request that was accepted is carried on with.
FairStop == SpecStop /\ Fairness /\ \A i \in Inst : WF_svars(StopStep(i))

-----------------------------------------------------------------------------
(* Properties.                                                             *)

\* Type invariant of the requests.
StopTypeOK ==
    /\ TypeOK
    /\ stop \in [Inst -> [pc : {"idle", "gate", "write", "notify", "complete", "upsert",
                               "observe", "release", "clean"}, body : SUBSET Records]]
    /\ requests \in 0..MaxStops

\* No write has failed, no owner has lost its listener, and no process has gone
\* down with what it was about to write.
FaultFree ==
    faults["persist"] = MaxPersistFaults /\ NoListenerLost /\ \A i \in Inst : mode[i] # "down"

\* A stop request and the terminal record pass the same gate, and the one that
\* finds it taken goes on as if the answer were written: it may acknowledge the
\* terminal record, and it may release the turn. As long as nothing has failed
\* that would take the write away, the other one is then still to write.
UnwrittenAnswerHeldByOther ==
    FaultFree /\ (TerminalAcked \/ runtime.status = "none") /\ ~answer.saved =>
        \E i \in Inst : stop[i].pc = "write" \/ lock[i].pc = "write"

\* A request that found the turn's context ends with the answer in the database
\* and the turn released, unless one of these failures comes, whatever the
\* stream's own threads do meanwhile.
StopSettles ==
    \A i \in Inst :
        (stop[i].pc = "gate") ~> ((Settled /\ runtime.status = "none") \/ ~FaultFree)

\* ChatTurnPersistenceObserver: observers run only after the message is persisted.
ObserversSeeAnswer == answer.notified => answer.saved
=============================================================================

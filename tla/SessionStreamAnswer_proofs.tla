-------------------- MODULE SessionStreamAnswer_proofs --------------------
(***************************************************************************)
(* The body of the answer: whole when it is persisted from a context that  *)
(* was never rebuilt, and never less than the one it replaces.             *)
(***************************************************************************)
EXTENDS SessionStreamLease_proofs

-----------------------------------------------------------------------------
(***************************************************************************)
(* The undisturbed answer. As long as at most one key has lapsed under its *)
(* holder, the listener whose context was never rebuilt is the only one.   *)
(***************************************************************************)
Pauses == MaxStalls - faults["stall"]

\* No heartbeat is stale, and nobody is recovering the turn.
Calm == (runtime.status = "running" => runtime.fresh) /\ \A j \in Inst : rec[j].pc = "idle"

Alone(i) ==
    /\ mode[i] = "up" /\ listener[i] = "live" /\ ctx[i].held /\ rec[i].pc = "idle"
    /\ \A j \in Inst \ {i} : listener[j] = "none"
    /\ runtime.status = "none" \/ (runtime.status = "running" /\ runtime.owner = i)
    /\ lease = i \/ Calm
    /\ Pauses = 0 => lease = i /\ Calm

\* An instance whose context was never rebuilt: its listener is alone, and the
\* context outlasts the listener only in a shutdown.
Original(i) ==
    /\ Active(i) => Alone(i)
    /\ ctx[i].held => Active(i) \/ mode[i] = "closing"
    /\ rec[i].pc = "hydrated" => mode[i] = "closing"

OriginalAlone == Pauses <= 1 => \A i \in Inst : ~ctx[i].recovered => Original(i)

LEMMA PausesGrow ==
    ASSUME TypeOK, LeaseOfActive, [Next]_vars
    PROVE  Pauses \in Nat /\ Pauses' \in Nat /\ Pauses <= Pauses'
<1>1. faults'["stall"] <= faults["stall"] /\ faults["stall"] \in Nat /\ faults'["stall"] \in Nat
  BY FaultsStep, TypeStep DEF NeverGained, FaultKinds, TypeOK
<1> QED  BY <1>1, BoundsAssumption DEF Pauses, LeaseOfActive

\* An assignment to fields of one context leaves its other fields and the other contexts.
OthersKept(i) == \A j \in Inst \ {i} : ctx'[j] = ctx[j]
Accumulated(i) == ctx'[i].body = ctx[i].body /\ ctx'[i].wm = ctx[i].wm

LEMMA ContextAssigned ==
    ASSUME TypeOK, NEW i \in Inst
    PROVE  /\ ctx' = [ctx EXCEPT ![i].held = FALSE] =>
                 /\ OthersKept(i) /\ Accumulated(i)
                 /\ ctx'[i].recovered = ctx[i].recovered /\ ~ctx'[i].held
           /\ \A r : ctx' = [ctx EXCEPT ![i].cur = r] =>
                 /\ OthersKept(i) /\ Accumulated(i)
                 /\ ctx'[i].recovered = ctx[i].recovered /\ ctx'[i].held = ctx[i].held
           /\ \A b : ctx' = [ctx EXCEPT ![i].gate = b] =>
                 /\ OthersKept(i) /\ Accumulated(i)
                 /\ ctx'[i].recovered = ctx[i].recovered /\ ctx'[i].held = ctx[i].held
           /\ \A r : ctx' = [ctx EXCEPT ![i].wm = r] =>
                 /\ OthersKept(i) /\ ctx'[i].body = ctx[i].body /\ ctx'[i].wm = r
                 /\ ctx'[i].recovered = ctx[i].recovered /\ ctx'[i].held = ctx[i].held
           /\ \A r : ctx' = [ctx EXCEPT ![i].body = @ \union {r}, ![i].wm = r] =>
                 /\ OthersKept(i) /\ ctx'[i].body = ctx[i].body \union {r} /\ ctx'[i].wm = r
                 /\ ctx'[i].recovered = ctx[i].recovered /\ ctx'[i].held = ctx[i].held
<1> DEFINE c == ctx[i]
<1>1. c \in ContextType
  BY DEF TypeOK
<1>2. \A d : ctx' = [ctx EXCEPT ![i] = d] => OthersKept(i) /\ ctx'[i] = d
  BY DEF TypeOK, OthersKept
<1>3. ASSUME ctx' = [ctx EXCEPT ![i].held = FALSE]
      PROVE  /\ OthersKept(i) /\ Accumulated(i)
             /\ ctx'[i].recovered = ctx[i].recovered /\ ~ctx'[i].held
  <2>1. OthersKept(i) /\ ctx'[i] = [c EXCEPT !.held = FALSE]
    BY <1>2, <1>3
  <2> QED  BY <1>1, <2>1 DEF ContextType, Accumulated
<1>4. ASSUME NEW r, ctx' = [ctx EXCEPT ![i].cur = r]
      PROVE  /\ OthersKept(i) /\ Accumulated(i)
             /\ ctx'[i].recovered = ctx[i].recovered /\ ctx'[i].held = ctx[i].held
  <2>1. OthersKept(i) /\ ctx'[i] = [c EXCEPT !.cur = r]
    BY <1>2, <1>4
  <2> QED  BY <1>1, <2>1 DEF ContextType, Accumulated
<1>5. ASSUME NEW b, ctx' = [ctx EXCEPT ![i].gate = b]
      PROVE  /\ OthersKept(i) /\ Accumulated(i)
             /\ ctx'[i].recovered = ctx[i].recovered /\ ctx'[i].held = ctx[i].held
  <2>1. OthersKept(i) /\ ctx'[i] = [c EXCEPT !.gate = b]
    BY <1>2, <1>5
  <2> QED  BY <1>1, <2>1 DEF ContextType, Accumulated
<1>6. ASSUME NEW r, ctx' = [ctx EXCEPT ![i].wm = r]
      PROVE  /\ OthersKept(i) /\ ctx'[i].body = ctx[i].body /\ ctx'[i].wm = r
             /\ ctx'[i].recovered = ctx[i].recovered /\ ctx'[i].held = ctx[i].held
  <2>1. OthersKept(i) /\ ctx'[i] = [c EXCEPT !.wm = r]
    BY <1>2, <1>6
  <2> QED  BY <1>1, <2>1 DEF ContextType
<1>7. ASSUME NEW r, ctx' = [ctx EXCEPT ![i].body = @ \union {r}, ![i].wm = r]
      PROVE  /\ OthersKept(i) /\ ctx'[i].body = ctx[i].body \union {r} /\ ctx'[i].wm = r
             /\ ctx'[i].recovered = ctx[i].recovered /\ ctx'[i].held = ctx[i].held
  <2>1. OthersKept(i) /\ ctx'[i] = [c EXCEPT !.body = c.body \union {r}, !.wm = r]
    BY <1>2, <1>7
  <2> QED  BY <1>1, <2>1 DEF ContextType
<1> QED  BY <1>3, <1>4, <1>5, <1>6, <1>7

LEMMA PausesTyped == ASSUME TypeOK, LeaseOfActive PROVE Pauses \in Nat
BY BoundsAssumption DEF TypeOK, LeaseOfActive, FaultKinds, Pauses

\* Actions on neither listener, process, lease, runtime state nor recovery.
LEMMA ElsewhereOriginal ==
    ASSUME OriginalAlone, Pauses \in Nat, Pauses' \in Nat, Pauses <= Pauses',
           UNCHANGED <<mode, listener, lease, runtime, rec>>,
           \A i \in Inst : ~ctx'[i].recovered => ~ctx[i].recovered /\ ctx'[i].held = ctx[i].held
    PROVE  OriginalAlone'
<1> SUFFICES ASSUME Pauses' <= 1, NEW i \in Inst, ~ctx'[i].recovered PROVE Original(i)'
  BY DEF OriginalAlone
<1>1. Original(i) /\ ctx'[i].held = ctx[i].held
  BY DEF OriginalAlone
<1>2. Active(i)' = Active(i) /\ Calm' = Calm
  BY DEF Active, Paused, Calm
<1>3. Alone(i) => Alone(i)'
  BY <1>1, <1>2 DEF Alone
<1> QED  BY <1>1, <1>2, <1>3 DEF Original

\* A listener that is alone stays so.
LEMMA StaysAlone ==
    ASSUME NEW i \in Inst, Alone(i), ctx'[i].held,
           Pauses \in Nat, Pauses' \in Nat, Pauses <= Pauses',
           UNCHANGED <<mode, listener, lease>>, rec'[i] = rec[i], Calm => Calm',
           runtime'.status = "none" \/ (runtime'.status = "running" /\ runtime'.owner = i)
    PROVE  Alone(i)'
BY DEF Alone

LEMMA Others ==
    ASSUME NEW i \in Inst, NEW j \in Inst, Alone(i), Active(j)
    PROVE  i = j /\ ~Paused(j)
BY DEF Alone, Active, Paused

\* The heartbeat of a lone listener is its own.
LEMMA HeartbeatOriginal ==
    ASSUME TypeOK, OriginalAlone, NEW j \in Inst, Heartbeat(j),
           Pauses \in Nat, Pauses' \in Nat, Pauses <= Pauses'
    PROVE  OriginalAlone'
<1> SUFFICES ASSUME Pauses' <= 1, NEW i \in Inst, ~ctx'[i].recovered PROVE Original(i)'
  BY DEF OriginalAlone
<1>1. UNCHANGED <<mode, listener, lease, rec, ctx>> /\ runtime' = Running(j) /\ Active(j)
  BY DEF Heartbeat, local
<1>2. Original(i) /\ Active(i)' = Active(i)
  BY <1>1 DEF OriginalAlone, Active, Paused
<1>3. ASSUME Alone(i) PROVE Alone(i)'
  <2>1. i = j
    BY <1>1, <1>3, Others
  <2>2. runtime'.status = "running" /\ runtime'.owner = i /\ runtime'.fresh
    BY <1>1, <2>1 DEF Running
  <2>3. Calm => Calm'
    BY <1>1, <2>2 DEF Calm
  <2> QED  BY <1>1, <1>3, <2>2, <2>3, StaysAlone DEF Alone
<1> QED  BY <1>1, <1>2, <1>3 DEF Original

\* Of the keys of a lone listener one lapses by a pause; two need two.
LEMMA KeysOriginal ==
    ASSUME TypeOK, LeaseOfActive, OriginalAlone, Keys,
           Pauses \in Nat, Pauses' \in Nat, Pauses <= Pauses'
    PROVE  OriginalAlone'
<1> SUFFICES ASSUME Pauses' <= 1, NEW i \in Inst, ~ctx'[i].recovered PROVE Original(i)'
  BY DEF OriginalAlone
<1>1. UNCHANGED <<mode, listener, rec, ctx>>
  BY DEF Keys, HeartbeatLapses, LeaseLapses, RecoveryLockLapses, local
<1>2. Original(i) /\ Active(i)' = Active(i)
  BY <1>1 DEF OriginalAlone, Active, Paused
<1>3. Spend("stall") => Pauses' = Pauses + 1
  BY BoundsAssumption DEF Spend, Pauses, TypeOK, FaultKinds
<1>4. ASSUME Alone(i) PROVE Alone(i)'
  <2>1. CASE HeartbeatLapses
    <3>1. /\ runtime' = [runtime EXCEPT !.fresh = FALSE] /\ UNCHANGED lease
          /\ runtime.status = "running"
      BY <2>1 DEF HeartbeatLapses
    <3>2. runtime.owner = i
      BY <1>4, <3>1 DEF Alone
    <3>3. Refreshes(i) /\ ctx[i].held
      BY <1>4 DEF Alone, Refreshes, Active
    <3>4. Spend("stall")
      BY <2>1, <3>2, <3>3 DEF HeartbeatLapses
    <3>5. Pauses = 0 /\ Pauses' = 1
      BY <1>3, <3>4
    <3>6. runtime'.status = "running" /\ runtime'.owner = i
      BY <3>1, <3>2 DEF TypeOK, TurnType
    <3> QED  BY <1>1, <1>4, <3>1, <3>5, <3>6 DEF Alone
  <2>2. CASE LeaseLapses
    <3>1. lease' = NoOne /\ UNCHANGED runtime
      BY <2>2 DEF LeaseLapses
    <3>2. Calm' = Calm
      BY <1>1, <3>1 DEF Calm
    <3>3. CASE lease = i
      <4>1. Refreshes(i)
        BY <1>4 DEF Alone, Refreshes, Active
      <4>2. Pauses = 0 /\ Pauses' = 1
        BY <1>3, <2>2, <3>3, <4>1 DEF LeaseLapses
      <4> QED  BY <1>1, <1>4, <3>1, <3>2, <4>2 DEF Alone
    <3>4. CASE lease # i
      BY <1>1, <1>4, <3>1, <3>2, <3>4 DEF Alone
    <3> QED  BY <3>3, <3>4
  <2>3. CASE RecoveryLockLapses
    <3>1. UNCHANGED <<lease, runtime>>
      BY <2>3 DEF RecoveryLockLapses
    <3>2. Calm' = Calm
      BY <1>1, <3>1 DEF Calm
    <3> QED  BY <1>1, <1>4, <3>1, <3>2, StaysAlone DEF Alone
  <2> QED  BY <2>1, <2>2, <2>3 DEF Keys
<1> QED  BY <1>1, <1>2, <1>4 DEF Original

\* A listener that stops takes its context along.
LEMMA StopOriginal ==
    ASSUME TypeOK, OriginalAlone, NEW j \in Inst, RenewFails(j) \/ CompleteTurn(j),
           Pauses \in Nat, Pauses' \in Nat, Pauses <= Pauses'
    PROVE  OriginalAlone'
<1> SUFFICES ASSUME Pauses' <= 1, NEW i \in Inst, ~ctx'[i].recovered PROVE Original(i)'
  BY DEF OriginalAlone
<1>1. ctx' = [ctx EXCEPT ![j].held = FALSE] /\ UNCHANGED <<mode, rec>>
  BY DEF RenewFails, CompleteTurn, EndTurn, StopListener
<1>2. /\ ~ctx[i].recovered /\ (ctx'[i].held => ctx[i].held /\ i # j)
      /\ i # j => ctx'[i] = ctx[i]
  BY <1>1, ContextAssigned DEF OthersKept
<1>3. Original(i)
  BY <1>2 DEF OriginalAlone
<1>4. CASE Active(j)
  <2>1. listener' = [listener EXCEPT ![j] = "closed"]
    BY <1>4 DEF RenewFails, CompleteTurn, EndTurn, StopListener
  <2>2. ~Active(j)' /\ (i # j => Active(i)' = Active(i))
    BY <2>1 DEF Active, Paused, TypeOK
  <2>3. CASE i = j
    <3>1. Alone(i)
      BY <1>3, <1>4, <2>3 DEF Original
    <3> QED  BY <1>1, <1>2, <2>2, <2>3, <3>1 DEF Original, Alone
  <2>4. CASE i # j
    <3>1. ~Active(i)
      BY <1>3, <1>4, <2>4, Others DEF Original
    <3> QED  BY <1>1, <1>2, <1>3, <2>2, <2>4, <3>1 DEF Original
  <2> QED  BY <2>3, <2>4
<1>5. CASE ~Active(j)
  <2>1. /\ UNCHANGED <<listener, lease>> /\ runtime' = NoTurn
    BY <1>5 DEF RenewFails, CompleteTurn, EndTurn
  <2>2. Active(i)' = Active(i) /\ runtime'.status = "none" /\ (Calm => Calm')
    BY <1>1, <2>1 DEF Active, Paused, NoTurn, Calm
  <2>3. ASSUME Alone(i) PROVE Alone(i)'
    <3>1. Active(i) /\ i # j
      BY <1>5, <2>3 DEF Alone, Active
    <3>2. ctx'[i].held
      BY <1>2, <2>3, <3>1 DEF Alone
    <3> QED  BY <1>1, <2>1, <2>2, <2>3, <3>2, StaysAlone
  <2> QED  BY <1>1, <1>2, <1>3, <2>2, <2>3 DEF Original
<1> QED  BY <1>4, <1>5

\* Recovery starts from a stale heartbeat or a handoff, and takes over under a
\* free lease: beside a lone listener there are not both.
LEMMA RecoveryOriginal ==
    ASSUME TypeOK, OriginalAlone, NEW j \in Inst,
           Scan(j) \/ TakeRecoveryLock(j) \/ StartRefused(j),
           Pauses \in Nat, Pauses' \in Nat, Pauses <= Pauses'
    PROVE  OriginalAlone'
<1> SUFFICES ASSUME Pauses' <= 1, NEW i \in Inst, ~ctx'[i].recovered PROVE Original(i)'
  BY DEF OriginalAlone
<1>1. UNCHANGED <<mode, listener, lease, runtime, faults>> /\ \A k \in Inst \ {j} : rec'[k] = rec[k]
  BY DEF Scan, TakeRecoveryLock, StartRefused, redis, TypeOK
<1>2. ~ctx[i].recovered /\ (ctx'[i].held => ctx[i].held) /\ (i # j => ctx'[i] = ctx[i])
  <2>1. Hydrated.recovered
    BY DEF Hydrated
  <2>2. CASE Scan(j)
    BY <2>2 DEF Scan
  <2>3. CASE TakeRecoveryLock(j)
    BY <2>1, <2>3 DEF TakeRecoveryLock, TypeOK
  <2>4. CASE StartRefused(j)
    <3>1. UNCHANGED ctx \/ ctx' = [ctx EXCEPT ![j].held = FALSE]
      BY <2>4 DEF StartRefused
    <3> QED  BY <3>1, ContextAssigned DEF OthersKept
  <2> QED  BY <2>2, <2>3, <2>4
<1>3. Original(i) /\ Active(i)' = Active(i) /\ Pauses' = Pauses
  BY <1>1, <1>2 DEF OriginalAlone, Active, Paused, Pauses
<1>4. ASSUME Alone(i) PROVE i # j /\ lease = i /\ Pauses # 0
  <2>1. CASE Scan(j)
    <3>1. runtime.status = "running" /\ ~runtime.fresh /\ ~(runtime.owner = j /\ ctx[j].held)
      BY <1>4, <2>1 DEF Scan, Alone
    <3> QED  BY <1>4, <3>1 DEF Alone, Calm
  <2>2. CASE TakeRecoveryLock(j) \/ StartRefused(j)
    <3>1. rec[j].pc # "idle"
      BY <2>2 DEF TakeRecoveryLock, StartRefused
    <3> QED  BY <1>4, <3>1 DEF Alone, Calm
  <2> QED  BY <2>1, <2>2
<1>5. ASSUME Alone(i) PROVE Alone(i)'
  <2>1. rec'[i] = rec[i] /\ ctx'[i] = ctx[i] /\ lease' = i /\ Pauses' # 0
    BY <1>1, <1>2, <1>3, <1>4, <1>5
  <2> QED  BY <1>1, <1>5, <2>1 DEF Alone
<1>6. rec'[i].pc = "hydrated" => mode'[i] = "closing"
  <2>1. CASE Alone(i) \/ i # j
    BY <1>1, <1>3, <1>4, <2>1 DEF Original
  <2>2. CASE ~Alone(i) /\ i = j
    <3>1. ~Active(i)
      BY <1>3, <2>2 DEF Original
    <3>2. CASE Scan(j)
      BY <2>2, <3>2 DEF Scan, TypeOK
    <3>3. CASE StartRefused(j)
      BY <2>2, <3>3 DEF StartRefused, TypeOK, NoRec
    <3>4. CASE TakeRecoveryLock(j)
      <4>1. rec'[j] = NoRec \/ ctx[j].held \/ ctx'[j] = Hydrated
        BY <3>4 DEF TakeRecoveryLock, TypeOK
      <4>2. ~NoRec.pc = "hydrated" /\ Hydrated.recovered
        BY DEF NoRec, Hydrated
      <4> QED  BY <1>1, <1>3, <2>2, <3>1, <4>1, <4>2 DEF Original
    <3> QED  BY <3>2, <3>3, <3>4
  <2> QED  BY <2>1, <2>2
<1> QED  BY <1>1, <1>2, <1>3, <1>5, <1>6 DEF Original

LEMMA StartOriginal ==
    ASSUME TypeOK, OriginalAlone, NEW j \in Inst, StartPaused(j) \/ Resume(j),
           Pauses \in Nat, Pauses' \in Nat, Pauses <= Pauses'
    PROVE  OriginalAlone'
<1> SUFFICES ASSUME Pauses' <= 1, NEW i \in Inst, ~ctx'[i].recovered PROVE Original(i)'
  BY DEF OriginalAlone
<1>1. /\ UNCHANGED <<mode, ctx>> /\ \A k \in Inst \ {j} : listener'[k] = listener[k] /\ rec'[k] = rec[k]
      /\ mode[j] = "up" /\ (rec'[j].pc = "hydrated" => rec[j].pc = "hydrated")
  BY DEF StartPaused, Resume, TypeOK, NoRec
<1>2. Original(i)
  BY <1>1 DEF OriginalAlone
<1>3. ~Alone(i)
  <2>1. CASE StartPaused(j)
    <3>1. lease = NoOne /\ ~Calm
      BY <2>1 DEF StartPaused, Calm
    <3> QED  BY <3>1, InstAssumption DEF Alone
  <2>2. CASE Resume(j)
    BY <2>2, Others DEF Resume, Active
  <2> QED  BY <2>1, <2>2
<1>4. i # j
  <2>1. ~Active(i)
    BY <1>2, <1>3 DEF Original
  <2> QED  BY <1>1, <1>2, <2>1 DEF Original, StartPaused, Resume, Active
<1>5. Active(i)' = Active(i)
  BY <1>1, <1>4 DEF Active, Paused
<1> QED  BY <1>1, <1>2, <1>3, <1>4, <1>5 DEF Original

\* A shutdown closes the listener before it gives the lease back.
LEMMA ClosingOriginal ==
    ASSUME TypeOK, OriginalAlone, NEW j \in Inst, Handoff(j) \/ ReleaseLease(j),
           Pauses \in Nat, Pauses' \in Nat, Pauses <= Pauses'
    PROVE  OriginalAlone'
<1> SUFFICES ASSUME Pauses' <= 1, NEW i \in Inst, ~ctx'[i].recovered PROVE Original(i)'
  BY DEF OriginalAlone
<1>1. UNCHANGED <<ctx, rec>> /\ \A k \in Inst \ {j} : mode'[k] = mode[k] /\ listener'[k] = listener[k]
  BY DEF Handoff, ReleaseLease, local, TypeOK
<1>2. Original(i)
  BY <1>1 DEF OriginalAlone
<1>3. CASE Handoff(j)
  <2>1. mode'[j] = "closing"
    BY <1>3 DEF Handoff, TypeOK
  <2>2. ~Active(j)'
    <3>1. CASE Active(j)
      BY <1>3, <3>1 DEF Handoff, Active, Paused, TypeOK
    <3>2. CASE ~Active(j)
      BY <1>3, <3>2 DEF Handoff, Active, Paused
    <3> QED  BY <3>1, <3>2
  <2>3. CASE i = j
    BY <2>1, <2>2, <2>3 DEF Original
  <2>4. CASE i # j
    <3>1. Active(i)' = Active(i)
      BY <1>1, <2>4 DEF Active, Paused
    <3>2. ASSUME Alone(i) PROVE Alone(i)'
      <4>1. ~Active(j)
        BY <2>4, <3>2, Others
      <4>2. UNCHANGED <<listener, runtime, lease>>
        BY <1>3, <4>1 DEF Handoff
      <4>3. Calm' = Calm
        BY <1>1, <4>2 DEF Calm
      <4> QED  BY <1>1, <2>4, <3>2, <4>2, <4>3 DEF Alone
    <3> QED  BY <1>1, <1>2, <2>4, <3>1, <3>2 DEF Original
  <2> QED  BY <2>3, <2>4
<1>4. CASE ReleaseLease(j)
  <2>1. mode[j] = "closing" /\ lease = j /\ lease' = NoOne /\ UNCHANGED <<mode, listener, runtime>>
    BY <1>4 DEF ReleaseLease, local
  <2>2. Active(i)' = Active(i) /\ Calm' = Calm
    BY <1>1, <2>1 DEF Active, Paused, Calm
  <2>3. Alone(i) => Alone(i)'
    BY <1>1, <2>1, <2>2 DEF Alone
  <2> QED  BY <1>1, <1>2, <2>1, <2>2, <2>3 DEF Original
<1> QED  BY <1>3, <1>4

LEMMA DownOriginal ==
    ASSUME TypeOK, OriginalAlone, NEW j \in Inst, Exit(j) \/ Crash(j),
           Pauses \in Nat, Pauses' \in Nat, Pauses <= Pauses'
    PROVE  OriginalAlone'
<1> SUFFICES ASSUME Pauses' <= 1, NEW i \in Inst, ~ctx'[i].recovered PROVE Original(i)'
  BY DEF OriginalAlone
<1>1. /\ \A k \in Inst \ {j} : /\ mode'[k] = mode[k] /\ listener'[k] = listener[k]
                               /\ rec'[k] = rec[k] /\ ctx'[k] = ctx[k]
      /\ listener'[j] = "none" /\ ~ctx'[j].held /\ rec'[j].pc = "idle"
      /\ UNCHANGED <<lease, runtime>>
  BY DEF Exit, Crash, Down, redis, TypeOK, NoCtx, NoRec
<1>2. CASE i = j
  BY <1>1, <1>2 DEF Original, Active, Paused
<1>3. CASE i # j
  <2>1. Original(i) /\ Active(i)' = Active(i)
    BY <1>1, <1>3 DEF OriginalAlone, Active, Paused
  <2>2. Calm => Calm'
    BY <1>1 DEF Calm
  <2>3. Alone(i) => Alone(i)'
    BY <1>1, <1>3, <2>2 DEF Alone
  <2> QED  BY <1>1, <1>3, <2>1, <2>3 DEF Original
<1> QED  BY <1>2, <1>3

LEMMA OriginalStep ==
    ASSUME TypeOK, LeaseOfActive, OriginalAlone, [Next]_vars
    PROVE  OriginalAlone'
<1>0. Pauses \in Nat /\ Pauses' \in Nat /\ Pauses <= Pauses'
  BY PausesGrow
<1> DEFINE Frame == UNCHANGED <<mode, listener, lease, runtime, rec>>
           CtxKept == \A i \in Inst : ~ctx'[i].recovered => ~ctx[i].recovered /\ ctx'[i].held = ctx[i].held
<1>1. Frame /\ CtxKept => OriginalAlone'
  BY <1>0, ElsewhereOriginal
<1>2. CASE Produce \/ UNCHANGED vars
  BY <1>1, <1>2 DEF Produce, vars, redis, local
<1>3. ASSUME NEW i \in Inst, Processing(i) PROVE OriginalAlone'
  <2>1. Frame
    BY <1>3 DEF Processing, Replay, Accumulate, EndOfAnswer, PersistGate, WriteMessage, WriteFails,
                NotifyObservers, NotifyFails, MarkPersisted, redis
  <2>2. \/ UNCHANGED ctx
        \/ \E r : ctx' = [ctx EXCEPT ![i].body = @ \union {r}, ![i].wm = r]
        \/ ctx' = [ctx EXCEPT ![i].wm = N]
        \/ \E b : ctx' = [ctx EXCEPT ![i].gate = b]
    BY <1>3 DEF Processing, Replay, Accumulate, EndOfAnswer, PersistGate, WriteMessage, WriteFails,
                NotifyObservers, NotifyFails, MarkPersisted
  <2>3. CtxKept
    BY <2>2, ContextAssigned DEF OthersKept
  <2> QED  BY <1>1, <2>1, <2>3
<1>4. ASSUME NEW i \in Inst, NEW t \in Threads, Thread(i, t) PROVE OriginalAlone'
  <2>1. Frame
    BY <1>4 DEF Thread, Begin, Missing, Ack, AckFails, redis
  <2>2. CtxKept
    <3>1. CASE Begin(i, t)
      <4>1. PICK r : ctx' = [ctx EXCEPT ![i].cur = r] \/ ctx' = [ctx EXCEPT ![i] = [Hydrated EXCEPT !.cur = r]]
        BY <3>1 DEF Begin
      <4>2. [Hydrated EXCEPT !.cur = r].recovered
        BY DEF Hydrated
      <4>3. CASE ctx' = [ctx EXCEPT ![i] = [Hydrated EXCEPT !.cur = r]]
        BY <4>2, <4>3 DEF TypeOK
      <4> QED  BY <4>1, <4>3, ContextAssigned DEF OthersKept
    <3> QED  BY <1>4, <3>1 DEF Thread, Missing, Ack, AckFails
  <2> QED  BY <1>1, <2>1, <2>2
<1>5. ASSUME NEW i \in Inst, \/ Reader(i) \/ StartDrain(i) \/ SaveSnapshot(i) \/ AckAgain(i)
                             \/ CleanupSnapshot(i) \/ ClaimPage(i) \/ ClaimAckFailed(i)
      PROVE  OriginalAlone'
  BY <1>1, <1>5 DEF Reader, Read, ReadLate, StartDrain, SaveSnapshot, AckAgain, CleanupSnapshot,
                    ClaimPage, ClaimAckFailed, redis, local
<1> QED
  BY <1>0, <1>2, <1>3, <1>4, <1>5, HeartbeatOriginal, KeysOriginal, StopOriginal, RecoveryOriginal,
     StartOriginal, ClosingOriginal, DownOriginal
  DEF Next, Recovery, Cleaning

LEMMA OriginalStart == Init => OriginalAlone
<1> SUFFICES ASSUME Init, NEW i \in Inst PROVE Original(i)
  BY DEF OriginalAlone
<1>1. PICK o \in Inst : /\ lease = o /\ runtime = Running(o)
                        /\ listener = [j \in Inst |-> IF j = o THEN "live" ELSE "none"]
                        /\ ctx = [j \in Inst |-> [NoCtx EXCEPT !.held = (j = o)]]
  BY DEF Init
<1>2. \A j \in Inst : rec[j].pc = "idle" /\ mode[j] = "up"
  BY DEF Init, NoRec
<1>3. Active(i) => i = o
  BY <1>1 DEF Active, Paused
<1>4. ctx[i].held => i = o
  BY <1>1 DEF NoCtx
<1>5. i = o => Alone(i)
  BY <1>1, <1>2 DEF Alone, Calm, Running, NoCtx
<1> QED  BY <1>2, <1>3, <1>4, <1>5 DEF Original, Active, Alone

-----------------------------------------------------------------------------
(***************************************************************************)
(* What a context that was never rebuilt has missed: nothing. A record is  *)
(* seen when it is accumulated, or when it is the terminal one and all     *)
(* others are.                                                             *)
(***************************************************************************)
Seen(i, r) == r <= ctx[i].wm \/ (r = N /\ N - 1 <= ctx[i].wm)
InHand(i) == work[i]["drain"] \union buf[i]

\* Records that are only acknowledged, or claimed to be.
Done(i) == toAck[i]["drain"] \union toAck[i]["claim"] \union ackRetry[i] \union ackRegistry[i]
           \union work[i]["claim"]

BodyWhole(i) == ctx[i].body = {q \in 1..(N - 1) : q <= ctx[i].wm}
LockReached(i) ==
    /\ lock[i].pc = "seen" => lock[i].rec - 1 <= ctx[i].wm
    /\ lock[i].pc \notin {"free", "seen"} => lock[i].rec = N /\ N - 1 <= ctx[i].wm
DoneSeen(i) == \A r \in Done(i) : Seen(i, r)
ClaimSeen(i) == ~claim[i].paged => \A r \in claim[i].ids : Seen(i, r)
\* No record is processed, queued or read before an earlier one.
DrainClosed(i) ==
    \A r \in work[i]["drain"] : \A q \in 1..(r - 1) : q <= ctx[i].wm \/ q \in work[i]["drain"]
QueueClosed(i) == \A r \in buf[i] : \A q \in 1..(r - 1) : q <= ctx[i].wm \/ q \in InHand(i)
ReadClosed(i) ==
    IF listener[i] = "live" THEN \A q \in 1..delivered : Seen(i, q) \/ q \in InHand(i)
                            ELSE buf[i] = {}

Reached(i) ==
    /\ BodyWhole(i) /\ LockReached(i) /\ DoneSeen(i) /\ ClaimSeen(i)
    /\ DrainClosed(i) /\ QueueClosed(i) /\ ReadClosed(i)

NothingMissed == Pauses <= 1 => \A i \in Inst : ~ctx[i].recovered => Reached(i)

\* Nothing new is in hand or done.
LEMMA ReachedKept ==
    ASSUME NEW i \in Inst, Reached(i), Accumulated(i),
           lock'[i] = lock[i] \/ lock'[i].pc = "free", Done(i)' \subseteq Done(i),
           claim'[i] = claim[i] \/ claim'[i] = NoClaim, work'[i]["drain"] = work[i]["drain"],
           \/ buf'[i] = buf[i] /\ listener'[i] = listener[i]
              /\ (listener[i] = "live" => delivered' = delivered)
           \/ buf'[i] = {} /\ listener'[i] # "live"
    PROVE  Reached(i)'
<1>1. \A r : Seen(i, r)' = Seen(i, r)
  BY DEF Accumulated, Seen
<1>2. BodyWhole(i)' /\ LockReached(i)' /\ DoneSeen(i)' /\ DrainClosed(i)'
  BY <1>1 DEF Reached, Accumulated, BodyWhole, LockReached, DoneSeen, DrainClosed
<1>3. ClaimSeen(i)'
  BY <1>1 DEF Reached, ClaimSeen, NoClaim
<1>4. QueueClosed(i)'
  BY DEF Reached, Accumulated, QueueClosed, InHand
<1>5. ReadClosed(i)'
  BY <1>1 DEF Reached, ReadClosed, InHand
<1> QED  BY <1>2, <1>3, <1>4, <1>5 DEF Reached

\* Everything of an instance but what no reading depends on.
HandsKept(i) ==
    /\ ctx'[i] = ctx[i] /\ lock'[i] = lock[i] /\ toAck'[i] = toAck[i] /\ work'[i] = work[i]
    /\ buf'[i] = buf[i] /\ ackRetry'[i] = ackRetry[i] /\ ackRegistry'[i] = ackRegistry[i]
    /\ claim'[i] = claim[i] /\ listener'[i] = listener[i]

LEMMA HandsKeptReached ==
    ASSUME NEW i \in Inst, Reached(i), HandsKept(i), listener[i] = "live" => delivered' = delivered
    PROVE  Reached(i)'
<1>1. Done(i)' = Done(i) /\ Accumulated(i)
  BY DEF HandsKept, Done, Accumulated
<1> QED  BY <1>1, ReachedKept DEF HandsKept

\* The reader delivers the next record to the queue.
LEMMA ReadReached ==
    ASSUME TypeOK, NEW i \in Inst, Reached(i), Read(i)
    PROVE  Reached(i)'
<1>1. /\ listener[i] = "live" /\ listener'[i] = "live" /\ delivered' = delivered + 1
      /\ delivered \in 0..N /\ delivered + 1 <= N
      /\ buf'[i] = buf[i] \union {delivered + 1}
  BY NAssumption DEF Read, TypeOK
<1>2. UNCHANGED <<ctx, work, toAck, lock, claim, ackRetry, ackRegistry>>
  BY DEF Read
<1>3. BodyWhole(i)' /\ LockReached(i)' /\ DoneSeen(i)' /\ ClaimSeen(i)' /\ DrainClosed(i)'
  BY <1>2 DEF Reached, BodyWhole, LockReached, DoneSeen, ClaimSeen, DrainClosed, Done, Seen
<1>4. \A q : Seen(i, q)' = Seen(i, q)
  BY <1>2 DEF Seen
<1>5. InHand(i)' = InHand(i) \union {delivered + 1}
  BY <1>1, <1>2 DEF InHand
<1>6. \A q \in 1..delivered : q <= ctx[i].wm \/ q \in InHand(i)
  BY <1>1, NAssumption DEF Reached, ReadClosed, Seen
<1>7. QueueClosed(i)'
  <2> SUFFICES ASSUME NEW r \in buf'[i], NEW q \in 1..(r - 1) PROVE q <= ctx[i].wm \/ q \in InHand(i)'
    BY <1>2 DEF QueueClosed
  <2>1. CASE r \in buf[i]
    BY <1>5, <2>1 DEF Reached, QueueClosed
  <2>2. CASE r = delivered + 1
    BY <1>1, <1>5, <1>6, <2>2
  <2> QED  BY <1>1, <2>1, <2>2
<1>8. ReadClosed(i)'
  <2> SUFFICES ASSUME NEW q \in 1..(delivered + 1) PROVE Seen(i, q) \/ q \in InHand(i) \union {delivered + 1}
    BY <1>1, <1>4, <1>5 DEF ReadClosed
  <2> QED  BY <1>1, <1>6 DEF Seen
<1> QED  BY <1>3, <1>7, <1>8 DEF Reached

\* A batch is what was queued up to some record.
LEMMA StartDrainReached ==
    ASSUME TypeOK, NEW i \in Inst, Reached(i), StartDrain(i)
    PROVE  Reached(i)'
<1>1. PICK last \in buf[i] : /\ work' = [work EXCEPT ![i]["drain"] = UpTo(buf[i], last)]
                             /\ buf' = [buf EXCEPT ![i] = @ \ UpTo(buf[i], last)]
  BY DEF StartDrain
<1>2. /\ work[i]["drain"] = {} /\ work'[i]["drain"] = UpTo(buf[i], last)
      /\ work'[i]["claim"] = work[i]["claim"] /\ buf'[i] = buf[i] \ UpTo(buf[i], last)
  BY <1>1 DEF StartDrain, TypeOK, Threads
<1>3. UNCHANGED <<delivered, listener, ctx, toAck, lock, claim, ackRetry, ackRegistry>>
  BY DEF StartDrain, redis
<1>4. BodyWhole(i)' /\ LockReached(i)' /\ DoneSeen(i)' /\ ClaimSeen(i)'
  BY <1>2, <1>3 DEF Reached, BodyWhole, LockReached, DoneSeen, ClaimSeen, Done, Seen
<1>5. InHand(i)' = InHand(i) /\ InHand(i) = buf[i]
  BY <1>2 DEF InHand, UpTo
<1>6. QueueClosed(i)' /\ ReadClosed(i)'
  BY <1>2, <1>3, <1>5 DEF Reached, QueueClosed, ReadClosed, Seen
<1>7. DrainClosed(i)'
  <2> SUFFICES ASSUME NEW r \in UpTo(buf[i], last), NEW q \in 1..(r - 1)
               PROVE  q <= ctx[i].wm \/ q \in UpTo(buf[i], last)
    BY <1>2, <1>3 DEF DrainClosed
  <2>1. r \in buf[i] /\ r \in Int /\ last \in Int /\ r <= last
    BY DEF UpTo, TypeOK, Records
  <2>2. q <= ctx[i].wm \/ q \in buf[i]
    BY <1>5, <2>1 DEF Reached, QueueClosed
  <2> QED  BY <2>1, <2>2 DEF UpTo
<1> QED  BY <1>4, <1>6, <1>7 DEF Reached

\* The earliest record of a batch comes next.
LEMMA BeginReached ==
    ASSUME TypeOK, NEW i \in Inst, NEW t \in Threads, Reached(i), Begin(i, t), ~ctx'[i].recovered
    PROVE  Reached(i)'
<1>1. PICK r \in work[i][t] :
          /\ Earliest(work[i][t], r)
          /\ lock' = [lock EXCEPT ![i] = [pc |-> "seen", by |-> t, rec |-> r]]
          /\ \/ ctx' = [ctx EXCEPT ![i].cur = r]
             \/ ctx' = [ctx EXCEPT ![i] = [Hydrated EXCEPT !.cur = r]]
  BY DEF Begin
<1>2. Accumulated(i)
  <2>1. CASE ctx' = [ctx EXCEPT ![i] = [Hydrated EXCEPT !.cur = r]]
    <3>1. [Hydrated EXCEPT !.cur = r].recovered
      BY DEF Hydrated
    <3> QED  BY <2>1, <3>1 DEF TypeOK
  <2> QED  BY <1>1, <2>1, ContextAssigned
<1>3. UNCHANGED <<delivered, listener, buf, work, toAck, claim, ackRetry, ackRegistry>>
  BY DEF Begin, redis
<1>4. /\ BodyWhole(i)' /\ DoneSeen(i)' /\ ClaimSeen(i)' /\ DrainClosed(i)' /\ QueueClosed(i)'
      /\ ReadClosed(i)'
  BY <1>2, <1>3 DEF Reached, BodyWhole, DoneSeen, ClaimSeen, DrainClosed, QueueClosed, ReadClosed,
                    Done, InHand, Seen, Accumulated
<1>5. lock'[i].pc = "seen" /\ lock'[i].rec = r
  BY <1>1 DEF TypeOK
<1>6. r \in Records /\ ctx[i].wm \in 0..N
  BY FieldsTyped
<1>7. r - 1 <= ctx[i].wm
  <2>1. CASE t = "drain"
    <3>1. \A q \in 1..(r - 1) : q \notin work[i]["drain"]
      BY <1>1, <1>6, <2>1, NAssumption DEF Earliest, Records
    <3>2. \A q \in 1..(r - 1) : q <= ctx[i].wm
      BY <3>1, <2>1 DEF Reached, DrainClosed
    <3> QED  BY <1>6, <3>2, NAssumption DEF Records
  <2>2. CASE t = "claim"
    <3>1. Seen(i, r)
      BY <2>2 DEF Reached, DoneSeen, Done
    <3> QED  BY <1>6, <3>1, NAssumption DEF Seen, Records
  <2> QED  BY <2>1, <2>2 DEF Threads
<1>8. LockReached(i)'
  BY <1>2, <1>5, <1>7 DEF LockReached, Accumulated
<1> QED  BY <1>4, <1>8 DEF Reached

\* A failed suffix is queued again; a listener that is closed has no queue.
LEMMA GiveUpReached ==
    ASSUME TypeOK, NEW i \in Inst, NEW t \in Threads, Reached(i), GiveUp(i, t), Accumulated(i),
           lock'[i].pc = "free", UNCHANGED <<delivered, listener, toAck, ackRetry>>
    PROVE  Reached(i)'
<1>1. CASE t = "claim"
  <2>1. /\ work'[i]["drain"] = work[i]["drain"] /\ work'[i]["claim"] = {}
        /\ claim'[i] = NoClaim /\ UNCHANGED buf
        /\ ackRegistry'[i] \subseteq ackRegistry[i] \union (IF claim[i].paged THEN {} ELSE claim[i].ids)
    BY <1>1 DEF GiveUp, TypeOK, Threads
  <2>2. \A r : Seen(i, r)' = Seen(i, r)
    BY DEF Accumulated, Seen
  <2>3. DoneSeen(i)'
    BY <2>1, <2>2 DEF Reached, DoneSeen, ClaimSeen, Done
  <2>4. ClaimSeen(i)'
    BY <2>1 DEF ClaimSeen, NoClaim
  <2>5. BodyWhole(i)' /\ LockReached(i)' /\ DrainClosed(i)' /\ QueueClosed(i)' /\ ReadClosed(i)'
    BY <2>1, <2>2
    DEF Reached, BodyWhole, LockReached, DrainClosed, QueueClosed, ReadClosed, InHand, Accumulated
  <2> QED  BY <2>3, <2>4, <2>5 DEF Reached
<1>2. CASE t = "drain"
  <2>1. /\ work'[i]["drain"] = {} /\ work'[i]["claim"] = work[i]["claim"]
        /\ UNCHANGED <<claim, ackRegistry>>
        /\ listener[i] = "live" => buf'[i] = InHand(i)
        /\ listener[i] # "live" => buf'[i] = buf[i]
    <3>1. work' = [work EXCEPT ![i]["drain"] = {}] /\ UNCHANGED <<claim, ackRegistry>>
      BY <1>2 DEF GiveUp
    <3>2. work'[i]["drain"] = {} /\ work'[i]["claim"] = work[i]["claim"]
      BY <3>1 DEF TypeOK, Threads
    <3>3. CASE listener[i] = "live"
      <4>1. buf' = [buf EXCEPT ![i] = buf[i] \union work[i]["drain"]]
        BY <1>2, <3>3 DEF GiveUp
      <4>2. buf'[i] = InHand(i)
        BY <4>1 DEF TypeOK, InHand
      <4> QED  BY <3>1, <3>2, <3>3, <4>2
    <3>4. CASE listener[i] # "live"
      <4>1. buf' = buf
        BY <1>2, <3>4 DEF GiveUp
      <4> QED  BY <3>1, <3>2, <3>4, <4>1
    <3> QED  BY <3>3, <3>4
  <2>2. \A r : Seen(i, r)' = Seen(i, r)
    BY DEF Accumulated, Seen
  <2>3. BodyWhole(i)' /\ LockReached(i)' /\ DoneSeen(i)' /\ ClaimSeen(i)' /\ DrainClosed(i)'
    BY <2>1, <2>2
    DEF Reached, BodyWhole, LockReached, DoneSeen, Done, ClaimSeen, DrainClosed, Accumulated
  <2>4. CASE listener[i] = "live"
    <3>1. InHand(i)' = InHand(i) /\ buf'[i] = InHand(i)
      BY <2>1, <2>4 DEF InHand
    <3>2. \A r \in InHand(i) : \A q \in 1..(r - 1) : q <= ctx[i].wm \/ q \in InHand(i)
      BY DEF Reached, QueueClosed, DrainClosed, InHand
    <3>3. QueueClosed(i)' /\ ReadClosed(i)'
      BY <2>2, <2>4, <3>1, <3>2 DEF Reached, QueueClosed, ReadClosed, Accumulated
    <3> QED  BY <2>3, <3>3 DEF Reached
  <2>5. CASE listener[i] # "live"
    <3>1. buf'[i] = {}
      BY <2>1, <2>5 DEF Reached, ReadClosed
    <3>2. QueueClosed(i)' /\ ReadClosed(i)'
      BY <2>5, <3>1 DEF QueueClosed, ReadClosed
    <3> QED  BY <2>3, <3>2 DEF Reached
  <2> QED  BY <2>4, <2>5
<1> QED  BY <1>1, <1>2 DEF Threads

\* A record that is handled has been seen.
LEMMA HandledReached ==
    ASSUME TypeOK, NEW i \in Inst, NEW r \in Records, Reached(i), Handled(i),
           lock[i].pc # "free", r = lock[i].rec, Seen(i, r)',
           ctx[i].wm <= ctx'[i].wm, BodyWhole(i)', ctx'[i].wm \in 0..N,
           UNCHANGED <<delivered, listener, buf, claim, ackRetry, ackRegistry>>
    PROVE  Reached(i)'
<1>1. PICK t \in Threads : t = lock[i].by
  BY FieldsTyped
<1>2. /\ work' = [work EXCEPT ![i][t] = @ \ {r}]
      /\ toAck' = [toAck EXCEPT ![i][t] = @ \union {r}]
      /\ lock'[i].pc = "free"
  BY <1>1 DEF Handled, TypeOK, Free
<1>3. /\ work'[i]["drain"] \subseteq work[i]["drain"]
      /\ work[i]["drain"] \subseteq work'[i]["drain"] \union {r}
      /\ Done(i)' \subseteq Done(i) \union {r}
  BY <1>2 DEF TypeOK, Threads, Done
<1>4. ctx[i].wm \in 0..N
  BY FieldsTyped
<1>5. \A q \in Records : Seen(i, q) => Seen(i, q)'
  BY <1>4, NAssumption DEF Seen, Records
<1>6. Done(i) \subseteq Records /\ claim[i].ids \subseteq Records
  BY FieldsTyped DEF Done, TypeOK, Threads
<1>7. DoneSeen(i)' /\ ClaimSeen(i)'
  BY <1>1, <1>3, <1>5, <1>6 DEF Reached, DoneSeen, ClaimSeen
<1>8. \A q \in Records : q < N /\ Seen(i, q)' => q <= ctx'[i].wm
  BY NAssumption DEF Seen, Records
<1>9. work[i]["drain"] \subseteq Records /\ buf[i] \subseteq Records
  BY DEF TypeOK, Threads
<1>10. DrainClosed(i)'
  <2> SUFFICES ASSUME NEW p \in work'[i]["drain"], NEW q \in 1..(p - 1)
               PROVE  q <= ctx'[i].wm \/ q \in work'[i]["drain"]
    BY DEF DrainClosed
  <2>1. p \in work[i]["drain"] /\ p \in Records /\ q \in Records /\ q < N
    BY <1>3, <1>9, NAssumption DEF Records
  <2>2. q <= ctx[i].wm \/ q \in work[i]["drain"]
    BY <2>1 DEF Reached, DrainClosed
  <2> QED  BY <1>1, <1>3, <1>4, <1>8, <2>1, <2>2 DEF Records
<1>11. QueueClosed(i)'
  <2> SUFFICES ASSUME NEW p \in buf[i], NEW q \in 1..(p - 1)
               PROVE  q <= ctx'[i].wm \/ q \in InHand(i)'
    BY DEF QueueClosed
  <2>1. p \in Records /\ q \in Records /\ q < N
    BY <1>9, NAssumption DEF Records
  <2>2. q <= ctx[i].wm \/ q \in InHand(i)
    BY DEF Reached, QueueClosed
  <2> QED  BY <1>1, <1>3, <1>4, <1>8, <2>1, <2>2 DEF Records, InHand
<1>12. ReadClosed(i)'
  <2>1. delivered \in 0..N
    BY DEF TypeOK
  <2>2. \A q \in 1..delivered : q \in Records
    BY <2>1, NAssumption DEF Records
  <2>3. InHand(i) \subseteq InHand(i)' \union {r}
    BY <1>3 DEF InHand
  <2> QED  BY <1>1, <1>5, <2>2, <2>3 DEF Reached, ReadClosed
<1>13. LockReached(i)'
  BY <1>2 DEF LockReached
<1> QED  BY <1>7, <1>10, <1>11, <1>12, <1>13 DEF Reached

LEMMA AccumulateReached ==
    ASSUME TypeOK, NEW i \in Inst, Reached(i), Accumulate(i)
    PROVE  Reached(i)'
<1>1. PICK r \in Records : r = lock[i].rec
  BY FieldsTyped DEF Accumulate
<1>2. /\ lock[i].pc = "seen" /\ r > ctx[i].wm /\ r < N /\ r - 1 <= ctx[i].wm /\ ctx[i].wm \in 0..N
      /\ ctx[i].body = {q \in 1..(N - 1) : q <= ctx[i].wm}
  BY <1>1, FieldsTyped DEF Accumulate, Reached, LockReached, BodyWhole
<1>3. ctx'[i].body = ctx[i].body \union {r} /\ ctx'[i].wm = r
  BY <1>1, ContextAssigned DEF Accumulate
<1>4. BodyWhole(i)'
  BY <1>2, <1>3, NAssumption DEF BodyWhole, Records
<1>5. ctx[i].wm <= ctx'[i].wm /\ ctx'[i].wm \in 0..N /\ Seen(i, r)'
  BY <1>2, <1>3, NAssumption DEF Seen, Records
<1> QED  BY <1>1, <1>2, <1>4, <1>5, HandledReached DEF Accumulate, redis

LEMMA ReplayReached ==
    ASSUME TypeOK, NEW i \in Inst, Reached(i), Replay(i)
    PROVE  Reached(i)'
<1>1. /\ UNCHANGED <<delivered, listener, ctx, buf, claim, ackRetry, ackRegistry>>
      /\ lock[i].pc = "seen" /\ lock[i].rec <= ctx[i].wm /\ lock[i].rec \in Records
      /\ ctx[i].wm \in 0..N
  BY FieldsTyped DEF Replay, redis
<1>2. CASE Handled(i)
  <2>1. PICK r \in Records : r = lock[i].rec
    BY <1>1
  <2>2. BodyWhole(i)' /\ Seen(i, r)'
    BY <1>1, <2>1 DEF Reached, BodyWhole, Seen
  <2> QED  BY <1>1, <1>2, <2>1, <2>2, HandledReached
<1>3. CASE lock[i].rec = N /\ lock' = [lock EXCEPT ![i].pc = "persist"] /\ UNCHANGED <<work, toAck>>
  <2>1. lock'[i].pc = "persist" /\ lock'[i].rec = N
    BY <1>1, <1>3 DEF TypeOK, LockType, Free
  <2>2. LockReached(i)'
    BY <1>1, <1>3, <2>1, NAssumption DEF LockReached
  <2> QED
    BY <1>1, <1>3, <2>2 DEF Reached, BodyWhole, DoneSeen, Done, ClaimSeen, DrainClosed, QueueClosed,
                            ReadClosed, InHand, Seen
<1> QED  BY <1>2, <1>3 DEF Replay

\* The terminal record goes on to persistence.
LEMMA PersistReached ==
    ASSUME TypeOK, NEW i \in Inst, Reached(i),
           EndOfAnswer(i) \/ PersistGate(i) \/ WriteMessage(i) \/ NotifyObservers(i)
    PROVE  Reached(i)'
<1>1. UNCHANGED <<delivered, listener, buf, work, toAck, claim, ackRetry, ackRegistry>>
  BY DEF EndOfAnswer, PersistGate, WriteMessage, NotifyObservers, redis
<1>2. /\ lock[i].pc # "free" /\ lock[i].rec = N /\ N - 1 <= ctx[i].wm /\ ctx[i].wm \in 0..N
  BY FieldsTyped DEF EndOfAnswer, PersistGate, WriteMessage, NotifyObservers, Reached, LockReached
<1>3. \E p \in {"persist", "write", "notify", "mark"} : lock' = [lock EXCEPT ![i].pc = p]
  BY DEF EndOfAnswer, PersistGate, WriteMessage, NotifyObservers
<1>4. lock'[i].rec = N
  BY <1>2, <1>3 DEF TypeOK, LockType, Free
<1>5. ctx'[i].body = ctx[i].body /\ (ctx'[i].wm = ctx[i].wm \/ ctx'[i].wm = N)
  <2>1. UNCHANGED ctx \/ ctx' = [ctx EXCEPT ![i].wm = N] \/ ctx' = [ctx EXCEPT ![i].gate = TRUE]
    BY DEF EndOfAnswer, PersistGate, WriteMessage, NotifyObservers
  <2> QED  BY <2>1, ContextAssigned DEF Accumulated
<1>6. N - 1 <= ctx'[i].wm /\ ctx[i].wm <= ctx'[i].wm /\ ctx'[i].wm \in 0..N
  BY <1>2, <1>5, NAssumption
<1>7. BodyWhole(i)' /\ LockReached(i)'
  BY <1>2, <1>4, <1>5, <1>6, NAssumption DEF Reached, BodyWhole, LockReached
<1>8. \A q \in Records : Seen(i, q)'
  BY <1>6, NAssumption DEF Seen, Records
<1>9. /\ Done(i)' = Done(i) /\ InHand(i)' = InHand(i) /\ Done(i) \subseteq Records
      /\ claim[i].ids \subseteq Records
  BY <1>1, FieldsTyped DEF Done, InHand, TypeOK, Threads
<1>10. DoneSeen(i)' /\ ClaimSeen(i)'
  BY <1>1, <1>8, <1>9 DEF DoneSeen, ClaimSeen
<1>11. \A q \in Records : q < N => q <= ctx'[i].wm
  BY <1>6, NAssumption DEF Records
<1>12. \A r \in Records : \A q \in 1..(r - 1) : q \in Records /\ q < N
  BY NAssumption DEF Records
<1>13. DrainClosed(i)' /\ QueueClosed(i)'
  <2>1. work[i]["drain"] \subseteq Records /\ buf[i] \subseteq Records
    BY DEF TypeOK, Threads
  <2> QED  BY <1>1, <1>11, <1>12, <2>1 DEF DrainClosed, QueueClosed
<1>14. ReadClosed(i)'
  <2>1. 1..delivered \subseteq Records
    BY NAssumption DEF TypeOK, Records
  <2> QED  BY <1>1, <1>8, <2>1 DEF Reached, ReadClosed
<1> QED  BY <1>7, <1>10, <1>13, <1>14 DEF Reached

LEMMA ProcessingReached ==
    ASSUME TypeOK, NEW i \in Inst, Reached(i), Processing(i)
    PROVE  Reached(i)'
<1>1. CASE WriteFails(i) \/ NotifyFails(i)
  <2>1. UNCHANGED ctx \/ ctx' = [ctx EXCEPT ![i].gate = FALSE]
    BY <1>1 DEF WriteFails, NotifyFails
  <2>2. Accumulated(i)
    BY <2>1, ContextAssigned DEF Accumulated
  <2>3. lock'[i].pc = "free" /\ lock[i].by \in Threads /\ GiveUp(i, lock[i].by)
    BY <1>1, FieldsTyped DEF WriteFails, NotifyFails, TypeOK, Free
  <2> QED  BY <1>1, <2>2, <2>3, GiveUpReached DEF WriteFails, NotifyFails, redis
<1>2. CASE MarkPersisted(i)
  <2>1. /\ N = lock[i].rec /\ N \in Records /\ N - 1 <= ctx[i].wm /\ ctx[i].wm \in 0..N
        /\ UNCHANGED ctx /\ lock[i].pc # "free"
    BY <1>2, FieldsTyped, NAssumption DEF MarkPersisted, Reached, LockReached, Records
  <2>2. BodyWhole(i)' /\ Seen(i, N)'
    BY <2>1 DEF Reached, BodyWhole, Seen
  <2> QED  BY <1>2, <2>1, <2>2, HandledReached DEF MarkPersisted, redis
<1> QED  BY <1>1, <1>2, AccumulateReached, ReplayReached, PersistReached DEF Processing

LEMMA AckReached ==
    ASSUME TypeOK, NEW i \in Inst, Reached(i), AckAgain(i) \/ \E t \in Threads : Ack(i, t) \/ AckFails(i, t)
    PROVE  Reached(i)'
<1>1. UNCHANGED <<delivered, listener, ctx, buf, work, lock, claim>>
  BY DEF AckAgain, Ack, AckFails, redis
<1>2. Done(i)' \subseteq Done(i)
  <2>1. CASE AckAgain(i)
    <3>1. PICK r \in ackRetry[i] :
              /\ ackRetry' = [ackRetry EXCEPT ![i] = @ \ {r}]
              /\ \/ ackRegistry' = [ackRegistry EXCEPT ![i] = @ \ {r}]
                 \/ ackRegistry' = [ackRegistry EXCEPT ![i] = @ \union {r}]
      BY <2>1 DEF AckAgain, Acknowledged
    <3>2. ackRetry'[i] \subseteq ackRetry[i] /\ ackRegistry'[i] \subseteq ackRegistry[i] \union {r}
      BY <3>1 DEF TypeOK
    <3>3. UNCHANGED toAck
      BY <2>1 DEF AckAgain
    <3> QED  BY <1>1, <3>1, <3>2, <3>3 DEF Done
  <2>2. ASSUME NEW t \in Threads, Ack(i, t) \/ AckFails(i, t) PROVE Done(i)' \subseteq Done(i)
    <3>1. PICK r \in toAck[i][t] :
              /\ toAck' = [toAck EXCEPT ![i][t] = @ \ {r}]
              /\ \/ ackRegistry' = [ackRegistry EXCEPT ![i] = @ \ {r}]
                 \/ ackRegistry' = [ackRegistry EXCEPT ![i] = @ \union {r}]
                 \/ UNCHANGED ackRegistry
              /\ ackRetry' = [ackRetry EXCEPT ![i] = @ \union {r}] \/ UNCHANGED ackRetry
      BY <2>2 DEF Ack, AckFails, Acknowledged
    <3>2. /\ ackRetry'[i] \subseteq ackRetry[i] \union {r}
          /\ ackRegistry'[i] \subseteq ackRegistry[i] \union {r}
      BY <3>1 DEF TypeOK
    <3>3. toAck'[i]["drain"] \subseteq toAck[i]["drain"] /\ toAck'[i]["claim"] \subseteq toAck[i]["claim"]
      BY <3>1 DEF TypeOK, Threads
    <3>4. r \in Done(i)
      BY DEF Done, Threads
    <3> QED  BY <1>1, <3>2, <3>3, <3>4 DEF Done
  <2> QED  BY <2>1, <2>2
<1> QED  BY <1>1, <1>2, ReachedKept DEF Accumulated

\* A listener that stops or hands over drops its queue.
LEMMA StopReached ==
    ASSUME TypeOK, NEW i \in Inst, Reached(i), RenewFails(i) \/ CompleteTurn(i) \/ StartRefused(i) \/ Handoff(i)
    PROVE  Reached(i)'
<1>1. UNCHANGED <<delivered, work, toAck, lock, claim, ackRetry>>
  BY DEF RenewFails, CompleteTurn, StartRefused, Handoff, redis
<1>2. UNCHANGED ctx \/ ctx' = [ctx EXCEPT ![i].held = FALSE]
  BY DEF RenewFails, CompleteTurn, StartRefused, Handoff, EndTurn, StopListener
<1>3. Accumulated(i)
  BY <1>2, ContextAssigned DEF Accumulated
<1>4. \/ UNCHANGED <<buf, listener>>
      \/ buf' = [buf EXCEPT ![i] = {}] /\ listener' = [listener EXCEPT ![i] = "closed"]
  BY DEF RenewFails, CompleteTurn, StartRefused, Handoff, EndTurn, StopListener
<1>5. \/ buf'[i] = buf[i] /\ listener'[i] = listener[i]
      \/ buf'[i] = {} /\ listener'[i] # "live"
  <2>1. ASSUME buf' = [buf EXCEPT ![i] = {}], listener' = [listener EXCEPT ![i] = "closed"]
        PROVE  buf'[i] = {} /\ listener'[i] = "closed"
    BY <2>1 DEF TypeOK
  <2> QED  BY <1>4, <2>1
<1>6. ackRegistry' = ackRegistry \/ ackRegistry' = [ackRegistry EXCEPT ![i] = {}]
  BY DEF RenewFails, CompleteTurn, StartRefused, Handoff, EndTurn, StopListener
<1>7. ackRegistry'[i] \subseteq ackRegistry[i]
  BY <1>6 DEF TypeOK
<1>8. Done(i)' \subseteq Done(i)
  BY <1>1, <1>7 DEF Done
<1> QED  BY <1>1, <1>3, <1>5, <1>8, ReachedKept

\* Only a rebuilt context claims pages; the repair of acknowledgements claims
\* what has been seen.
LEMMA RecoveryReached ==
    ASSUME TypeOK, NEW i \in Inst, Reached(i), Original(i), Recovery(i), ~ctx'[i].recovered
    PROVE  Reached(i)'
<1>1. ~ClaimPage(i) /\ ~Resume(i)
  BY DEF ClaimPage, Resume, Original, Alone, Active, Paused
<1>2. CASE Scan(i) \/ TakeRecoveryLock(i)
  <2>1. Hydrated.recovered
    BY DEF Hydrated
  <2>2. UNCHANGED ctx \/ ctx' = [ctx EXCEPT ![i] = Hydrated]
    BY <1>2 DEF Scan, TakeRecoveryLock
  <2>3. ctx'[i] = ctx[i]
    BY <2>1, <2>2 DEF TypeOK
  <2>4. HandsKept(i) /\ delivered' = delivered
    BY <1>2, <2>3 DEF Scan, TakeRecoveryLock, HandsKept, redis
  <2> QED  BY <2>4, HandsKeptReached
<1>3. CASE StartPaused(i)
  <2>1. buf[i] = {} /\ listener'[i] # "live"
    BY <1>3 DEF StartPaused, Reached, ReadClosed, Active, TypeOK
  <2>2. claim'[i] = NoClaim /\ UNCHANGED <<ctx, buf, work, toAck, lock, ackRetry, ackRegistry>>
    BY <1>3 DEF StartPaused, TypeOK
  <2> QED  BY <2>1, <2>2, ReachedKept DEF Done, Accumulated
<1>4. CASE StartRefused(i)
  BY <1>4, StopReached
<1>5. CASE ClaimAckFailed(i)
  <2>1. /\ UNCHANGED <<delivered, listener, ctx, buf, toAck, lock, ackRetry>>
        /\ claim'[i].ids = ackRegistry[i] /\ ackRegistry'[i] = {}
        /\ work'[i]["drain"] = work[i]["drain"] /\ work'[i]["claim"] \subseteq ackRegistry[i]
    BY <1>5 DEF ClaimAckFailed, TypeOK, Threads
  <2>2. Done(i)' \subseteq Done(i) /\ ackRegistry[i] \subseteq Done(i)
    BY <2>1 DEF Done
  <2>3. \A r : Seen(i, r)' = Seen(i, r)
    BY <2>1 DEF Seen
  <2>4. DoneSeen(i)' /\ ClaimSeen(i)'
    BY <2>1, <2>2, <2>3 DEF Reached, DoneSeen, ClaimSeen
  <2> QED
    BY <2>1, <2>3, <2>4 DEF Reached, BodyWhole, LockReached, DrainClosed, QueueClosed, ReadClosed, InHand
<1> QED  BY <1>1, <1>2, <1>3, <1>4, <1>5 DEF Recovery

LEMMA DownReached ==
    ASSUME TypeOK, NEW i \in Inst, Down(i)
    PROVE  Reached(i)'
<1>1. /\ ctx'[i] = NoCtx /\ lock'[i] = Free /\ work'[i] = Nothing /\ toAck'[i] = Nothing
      /\ buf'[i] = {} /\ ackRetry'[i] = {} /\ ackRegistry'[i] = {} /\ claim'[i] = NoClaim
      /\ listener'[i] = "none"
  BY DEF Down, TypeOK
<1>2. Nothing["drain"] = {} /\ Nothing["claim"] = {}
  BY DEF Nothing, Threads
<1>3. BodyWhole(i)' /\ LockReached(i)' /\ ClaimSeen(i)'
  BY <1>1 DEF BodyWhole, LockReached, ClaimSeen, NoCtx, Free, NoClaim
<1>4. DoneSeen(i)' /\ DrainClosed(i)' /\ QueueClosed(i)' /\ ReadClosed(i)'
  BY <1>1, <1>2 DEF DoneSeen, Done, DrainClosed, QueueClosed, ReadClosed
<1> QED  BY <1>3, <1>4 DEF Reached

\* One instance's steps, and what they leave another one.
Step(i) ==
    \/ Reader(i) \/ StartDrain(i) \/ Processing(i) \/ SaveSnapshot(i)
    \/ AckAgain(i) \/ Cleaning(i) \/ Heartbeat(i) \/ RenewFails(i) \/ Recovery(i)
    \/ Handoff(i) \/ ReleaseLease(i) \/ Exit(i) \/ Crash(i)
    \/ \E t \in Threads : Thread(i, t)

LEMMA StepReached ==
    ASSUME TypeOK, NEW i \in Inst, Reached(i), Original(i), Step(i), ~ctx'[i].recovered
    PROVE  Reached(i)'
<1>1. CASE Reader(i)
  <2>1. CASE Read(i)
    BY <2>1, ReadReached
  <2>2. CASE ReadLate(i)
    BY <2>2, HandsKeptReached DEF ReadLate, HandsKept, local
  <2> QED  BY <1>1, <2>1, <2>2 DEF Reader
<1>2. CASE SaveSnapshot(i) \/ CleanupSnapshot(i) \/ Heartbeat(i) \/ ReleaseLease(i)
  <2>1. HandsKept(i) /\ delivered' = delivered
    BY <1>2 DEF SaveSnapshot, CleanupSnapshot, Heartbeat, ReleaseLease, HandsKept, local
  <2> QED  BY <2>1, HandsKeptReached
<1>3. ASSUME NEW t \in Threads, Missing(i, t) PROVE Reached(i)'
  <2>1. GiveUp(i, t) /\ lock'[i].pc = "free" /\ UNCHANGED <<ctx, delivered, listener, toAck, ackRetry>>
    BY <1>3 DEF Missing, Free, redis
  <2> QED  BY <2>1, GiveUpReached DEF Accumulated
<1>4. ASSUME NEW t \in Threads, Thread(i, t) PROVE Reached(i)'
  BY <1>3, <1>4, BeginReached, AckReached DEF Thread
<1> QED
  BY <1>1, <1>2, <1>4, StartDrainReached, ProcessingReached, AckReached, StopReached, RecoveryReached,
     DownReached
  DEF Step, Cleaning, Exit, Crash

TasksKept(i) ==
    mode'[i] = mode[i] /\ behind'[i] = behind[i] /\ cleanup'[i] = cleanup[i] /\ rec'[i] = rec[i]

LEMMA StepElsewhere ==
    ASSUME TypeOK, NEW i \in Inst, NEW j \in Inst \ {i}, Step(j)
    PROVE  HandsKept(i) /\ TasksKept(i)
<1>1. CASE Reader(j)
  BY <1>1 DEF Reader, Read, ReadLate, HandsKept, TasksKept, TypeOK, local
<1>2. CASE StartDrain(j)
  BY <1>2 DEF StartDrain, HandsKept, TasksKept, TypeOK
<1>3. CASE Processing(j)
  BY <1>3 DEF Processing, Replay, Accumulate, EndOfAnswer, PersistGate, WriteMessage, WriteFails,
              NotifyObservers, NotifyFails, MarkPersisted, Handled, GiveUp, HandsKept, TasksKept, TypeOK
<1>4. CASE SaveSnapshot(j) \/ Heartbeat(j) \/ ReleaseLease(j)
  BY <1>4 DEF SaveSnapshot, Heartbeat, ReleaseLease, HandsKept, TasksKept, TypeOK, local
<1>5. CASE AckAgain(j)
  BY <1>5 DEF AckAgain, Acknowledged, HandsKept, TasksKept, TypeOK
<1>6. CASE Cleaning(j) \/ RenewFails(j)
  BY <1>6 DEF Cleaning, CleanupSnapshot, CompleteTurn, RenewFails, EndTurn, StopListener, HandsKept, TasksKept, TypeOK
<1>7. CASE Recovery(j)
  BY <1>7 DEF Recovery, Scan, TakeRecoveryLock, StartPaused, StartRefused, ClaimPage, Resume,
              ClaimAckFailed, HandsKept, TasksKept, TypeOK
<1>8. CASE Handoff(j)
  BY <1>8 DEF Handoff, HandsKept, TasksKept, TypeOK
<1>9. CASE Exit(j) \/ Crash(j)
  BY <1>9 DEF Exit, Crash, Down, HandsKept, TasksKept, TypeOK
<1>10. ASSUME NEW t \in Threads, Thread(j, t) PROVE HandsKept(i) /\ TasksKept(i)
  BY <1>10 DEF Thread, Begin, Missing, GiveUp, Ack, AckFails, Acknowledged, HandsKept, TasksKept, TypeOK
<1> QED  BY <1>1, <1>2, <1>3, <1>4, <1>5, <1>6, <1>7, <1>8, <1>9, <1>10 DEF Step

LEMMA DeliveredByReaders ==
    ASSUME NEW i \in Inst, Step(i), ~Reader(i)
    PROVE  delivered' = delivered
<1>1. ASSUME NEW t \in Threads, Thread(i, t) PROVE delivered' = delivered
  BY <1>1 DEF Thread, Begin, Missing, Ack, AckFails, redis
<1>2. CASE Processing(i)
  BY <1>2 DEF Processing, Replay, Accumulate, EndOfAnswer, PersistGate, WriteMessage, WriteFails,
              NotifyObservers, NotifyFails, MarkPersisted, redis
<1>3. CASE Recovery(i)
  BY <1>3 DEF Recovery, Scan, TakeRecoveryLock, StartPaused, StartRefused, ClaimPage, Resume,
              ClaimAckFailed, redis
<1> QED
  BY <1>1, <1>2, <1>3
  DEF Step, StartDrain, SaveSnapshot, AckAgain, Cleaning, CleanupSnapshot, CompleteTurn, Heartbeat,
      RenewFails, Handoff, ReleaseLease, Exit, Crash, Down, redis

\* A rebuilt context stays one until its process ends.
LEMMA StaysRecovered ==
    ASSUME TypeOK, NEW i \in Inst, Step(i), ~Down(i), ctx[i].recovered
    PROVE  ctx'[i].recovered
<1>1. \/ UNCHANGED ctx \/ ctx' = [ctx EXCEPT ![i].held = FALSE]
      \/ \E r : ctx' = [ctx EXCEPT ![i].cur = r]
      \/ \E r : ctx' = [ctx EXCEPT ![i].body = @ \union {r}, ![i].wm = r]
      \/ ctx' = [ctx EXCEPT ![i].wm = N]
      \/ \E b : ctx' = [ctx EXCEPT ![i].gate = b]
      \/ ctx' = [ctx EXCEPT ![i] = Hydrated]
      \/ \E r : ctx' = [ctx EXCEPT ![i] = [Hydrated EXCEPT !.cur = r]]
  <2>1. CASE Reader(i) \/ StartDrain(i) \/ SaveSnapshot(i) \/ AckAgain(i) \/ Heartbeat(i)
             \/ ReleaseLease(i) \/ Handoff(i)
    BY <2>1 DEF Reader, Read, ReadLate, StartDrain, SaveSnapshot, AckAgain, Heartbeat, ReleaseLease,
                Handoff, local
  <2>2. CASE Processing(i)
    BY <2>2 DEF Processing, Replay, Accumulate, EndOfAnswer, PersistGate, WriteMessage, WriteFails,
                NotifyObservers, NotifyFails, MarkPersisted
  <2>3. CASE Cleaning(i) \/ RenewFails(i)
    BY <2>3 DEF Cleaning, CleanupSnapshot, CompleteTurn, RenewFails, EndTurn, StopListener
  <2>4. CASE Recovery(i)
    BY <2>4 DEF Recovery, Scan, TakeRecoveryLock, StartPaused, StartRefused, ClaimPage, Resume,
                ClaimAckFailed
  <2>5. ASSUME NEW t \in Threads, Thread(i, t)
        PROVE  \/ UNCHANGED ctx \/ \E r : ctx' = [ctx EXCEPT ![i].cur = r]
               \/ \E r : ctx' = [ctx EXCEPT ![i] = [Hydrated EXCEPT !.cur = r]]
    BY <2>5 DEF Thread, Begin, Missing, Ack, AckFails
  <2> QED  BY <2>1, <2>2, <2>3, <2>4, <2>5 DEF Step, Exit, Crash
<1>2. Hydrated.recovered /\ \A r : [Hydrated EXCEPT !.cur = r].recovered
  BY DEF Hydrated
<1>3. \A c : ctx' = [ctx EXCEPT ![i] = c] => ctx'[i] = c
  BY DEF TypeOK
<1>4. CASE ctx' = [ctx EXCEPT ![i] = Hydrated] \/ \E r : ctx' = [ctx EXCEPT ![i] = [Hydrated EXCEPT !.cur = r]]
  BY <1>2, <1>3, <1>4
<1>5. ASSUME ctx' = [ctx EXCEPT ![i].held = FALSE] PROVE ctx'[i].recovered
  BY <1>5, ContextAssigned
<1>6. ASSUME NEW r, \/ ctx' = [ctx EXCEPT ![i].cur = r] \/ ctx' = [ctx EXCEPT ![i].gate = r]
                   \/ ctx' = [ctx EXCEPT ![i].body = @ \union {r}, ![i].wm = r]
                   \/ ctx' = [ctx EXCEPT ![i].wm = r]
      PROVE  ctx'[i].recovered
  BY <1>6, ContextAssigned
<1> QED  BY <1>1, <1>4, <1>5, <1>6

LEMMA MissedStep ==
    ASSUME TypeOK, LeaseOfActive, OriginalAlone, NothingMissed, [Next]_vars
    PROVE  NothingMissed'
<1> SUFFICES ASSUME Pauses' <= 1, NEW i \in Inst, ~ctx'[i].recovered PROVE Reached(i)'
  BY DEF NothingMissed
<1>1. Pauses <= 1
  BY PausesGrow
<1>2. CASE UNCHANGED vars \/ Produce \/ Keys
  <2>1. HandsKept(i) /\ delivered' = delivered
    BY <1>2 DEF vars, redis, local, Produce, Keys, HeartbeatLapses, LeaseLapses, RecoveryLockLapses,
                HandsKept
  <2> QED  BY <1>1, <2>1, HandsKeptReached DEF NothingMissed, HandsKept
<1>3. ASSUME NEW j \in Inst, Step(j), i # j PROVE Reached(i)'
  <2>1. HandsKept(i)
    BY <1>3, StepElsewhere
  <2>2. Reached(i) /\ Original(i)
    BY <1>1, <2>1 DEF NothingMissed, OriginalAlone, HandsKept
  <2>3. ASSUME listener[i] = "live" PROVE delivered' = delivered
    <3>1. listener[j] = "none"
      BY <1>3, <2>2, <2>3 DEF Original, Alone, Active
    <3>2. ~Reader(j)
      BY <3>1 DEF Reader, Read, ReadLate
    <3> QED  BY <1>3, <3>2, DeliveredByReaders DEF Step
  <2> QED  BY <2>1, <2>2, <2>3, HandsKeptReached
<1>4. CASE Step(i)
  <2>1. CASE Down(i)
    BY <2>1, DownReached
  <2>2. CASE ~Down(i)
    <3>1. ~ctx[i].recovered
      BY <1>4, <2>2, StaysRecovered
    <3> QED  BY <1>1, <1>4, <3>1, StepReached DEF NothingMissed, OriginalAlone
  <2> QED  BY <2>1, <2>2
<1> QED  BY <1>2, <1>3, <1>4 DEF Next, Step

LEMMA MissedStart == Init => NothingMissed
<1> SUFFICES ASSUME Init, NEW i \in Inst PROVE Reached(i)
  BY DEF NothingMissed
<1>1. /\ lock[i] = Free /\ work[i] = Nothing /\ toAck[i] = Nothing /\ buf[i] = {} /\ ackRetry[i] = {}
      /\ ackRegistry[i] = {} /\ claim[i] = NoClaim /\ delivered = 0
  BY DEF Init
<1>2. ctx[i].body = {} /\ ctx[i].wm = 0
  BY DEF Init, NoCtx
<1>3. Nothing["drain"] = {} /\ Nothing["claim"] = {}
  BY DEF Nothing, Threads
<1>4. BodyWhole(i) /\ LockReached(i) /\ ClaimSeen(i)
  BY <1>1, <1>2, NAssumption DEF BodyWhole, LockReached, ClaimSeen, Free, NoClaim
<1>5. DoneSeen(i) /\ DrainClosed(i) /\ QueueClosed(i) /\ ReadClosed(i)
  BY <1>1, <1>3 DEF DoneSeen, Done, DrainClosed, QueueClosed, ReadClosed
<1> QED  BY <1>4, <1>5 DEF Reached

LEMMA AnswerWritten ==
    ASSUME [Next]_vars
    PROVE  \/ UNCHANGED answer
           \/ \E i \in Inst : WriteMessage(i) \/ NotifyObservers(i)
<1>1. CASE UNCHANGED vars \/ Produce \/ Keys
  BY <1>1 DEF vars, Produce, Keys, HeartbeatLapses, LeaseLapses, RecoveryLockLapses
<1>2. ASSUME NEW i \in Inst, Processing(i) PROVE UNCHANGED answer \/ WriteMessage(i) \/ NotifyObservers(i)
  BY <1>2 DEF Processing, Replay, Accumulate, EndOfAnswer, PersistGate, WriteFails, NotifyFails, MarkPersisted
<1>3. ASSUME NEW i \in Inst, NEW t \in Threads, Thread(i, t) PROVE UNCHANGED answer
  BY <1>3 DEF Thread, Begin, Missing, Ack, AckFails
<1>4. ASSUME NEW i \in Inst, Recovery(i) PROVE UNCHANGED answer
  BY <1>4 DEF Recovery, Scan, TakeRecoveryLock, StartPaused, StartRefused, ClaimPage, Resume, ClaimAckFailed
<1>5. ASSUME NEW i \in Inst,
             \/ Reader(i) \/ StartDrain(i) \/ SaveSnapshot(i) \/ AckAgain(i) \/ Cleaning(i) \/ Heartbeat(i)
             \/ RenewFails(i) \/ Handoff(i) \/ ReleaseLease(i) \/ Exit(i) \/ Crash(i)
      PROVE  UNCHANGED answer
  BY <1>5 DEF Reader, Read, ReadLate, StartDrain, SaveSnapshot, AckAgain, Cleaning, CleanupSnapshot,
              CompleteTurn, Heartbeat, RenewFails, Handoff, ReleaseLease, Exit, Crash, Down
<1> QED  BY <1>1, <1>2, <1>3, <1>4, <1>5 DEF Next

\* What is written of a context that missed nothing is the whole answer.
LEMMA WholeStep ==
    ASSUME TypeOK, LeaseOfActive, NothingMissed, UndisturbedAnswerComplete, [Next]_vars
    PROVE  UndisturbedAnswerComplete'
<1> SUFFICES ASSUME NoPauseBeyondBothKeys', answer'.saved, ~answer'.recovered
             PROVE  answer'.body = 1..(N - 1)
  BY DEF UndisturbedAnswerComplete
<1>1. faults["stall"] \in Nat /\ faults'["stall"] \in Nat
  BY TypeStep DEF TypeOK, FaultKinds
<1>2. NoPauseBeyondBothKeys /\ Pauses <= 1
  BY <1>1, PausesGrow, BoundsAssumption DEF NoPauseBeyondBothKeys, Pauses
<1>3. ASSUME NEW i \in Inst, WriteMessage(i) PROVE answer'.body = 1..(N - 1)
  <2>1. lock[i].pc = "write" /\ answer'.body = ctx[i].body /\ answer'.recovered = ctx[i].recovered
    BY <1>3 DEF WriteMessage, TypeOK, AnswerType
  <2>2. BodyWhole(i) /\ N - 1 <= ctx[i].wm /\ ctx[i].wm \in 0..N
    BY <1>2, <2>1, FieldsTyped DEF NothingMissed, Reached, LockReached
  <2> QED  BY <2>1, <2>2, NAssumption DEF BodyWhole
<1>4. CASE answer'.saved = answer.saved /\ answer'.body = answer.body /\ answer'.recovered = answer.recovered
  BY <1>2, <1>4 DEF UndisturbedAnswerComplete
<1>5. ASSUME NEW i \in Inst, NotifyObservers(i)
      PROVE  answer'.saved = answer.saved /\ answer'.body = answer.body /\ answer'.recovered = answer.recovered
  BY <1>5 DEF NotifyObservers, TypeOK, AnswerType
<1> QED  BY <1>3, <1>4, <1>5, AnswerWritten

(***************************************************************************)
(* An answer persisted from a context that was never rebuilt is whole      *)
(* (SessionStreamChatService, StreamRecordProcessor): the queue, the       *)
(* failed suffix and the repairs of acknowledgements lose no delta, in any *)
(* behaviour in which at most one key lapsed under its holder.             *)
(***************************************************************************)
THEOREM AnswerComplete == Spec => []UndisturbedAnswerComplete
<1> DEFINE Inv == /\ TypeOK /\ LeaseOfActive /\ OriginalAlone /\ NothingMissed
                  /\ UndisturbedAnswerComplete
<1>1. Init => Inv
  <2>1. Init => ~answer.saved
    BY DEF Init
  <2> QED  BY <2>1, InitTyped, LeaseStart, OriginalStart, MissedStart DEF UndisturbedAnswerComplete
<1>2. Inv /\ [Next]_vars => Inv'
  BY TypeStep, LeaseStep, OriginalStep, MissedStep, WholeStep
<1> QED  BY <1>1, <1>2, PTL DEF Spec

-----------------------------------------------------------------------------
(***************************************************************************)
(* The answer that is written again. As long as snapshots are kept, one    *)
(* instance at a time works on the turn, the others are idle, and the      *)
(* stored snapshot lies between the persisted answer and the context of    *)
(* whoever works or is about to.                                           *)
(***************************************************************************)
NoneActive == \A i \in Inst : ~Active(i)
Budgeted == \A k \in FaultKinds : faults[k] <= Budget[k]

\* No shutdown and no failed acknowledgement.
Quiet(i) ==
    /\ mode[i] # "closing" /\ ackRetry[i] = {} /\ ackRegistry[i] = {}
    /\ claim[i].paged \/ claim[i].ids = {}
\* The owner of the listener has the context, and its heartbeat is fresh.
Tended(i) ==
    Active(i) => ctx[i].held /\ (runtime.status = "running" => runtime.owner = i /\ runtime.fresh)
Cleans(i) == cleanup[i] # "none" => Active(i)
\* Whoever rebuilds the context has the recovery lock, and no listener is left.
Recovers(i) == rec[i].pc = "hydrated" => ctx[i].held /\ recoverer = i /\ NoneActive

OneTakeover ==
    /\ runtime.status # "handoff"
    /\ recoverer = NoOne /\ (\E i \in Inst : rec[i].pc # "idle") => NoneActive
    /\ \A i \in Inst : Quiet(i) /\ Tended(i) /\ Cleans(i) /\ Recovers(i)

\* An instance without a listener works on nothing.
Idle(i) ==
    /\ lock[i] = Free /\ ~behind[i] /\ buf[i] = {} /\ work[i] = Nothing /\ toAck[i] = Nothing
    /\ ctx[i].held => rec[i].pc = "hydrated"
\* The terminal record is in one place of an instance.
Placed(i) ==
    /\ Paused(i) => buf[i] = {} /\ work[i]["drain"] = {} /\ toAck[i]["drain"] = {}
    /\ listener[i] = "live" => work[i]["claim"] = {} /\ toAck[i]["claim"] = {}
    /\ N \in buf[i] => N \notin work[i]["drain"] /\ N \notin toAck[i]["drain"]
    /\ \A t \in Threads : N \in work[i][t] => N \notin toAck[i][t]
    /\ lock[i].pc # "free" => lock[i].rec \in work[i][lock[i].by]
OnePlace ==
    IF TerminalAcked THEN Nowhere
                     ELSE \A i \in Inst : (~Active(i) => Idle(i)) /\ Placed(i)

\* A context goes beyond the snapshot, but for a finished answer.
Follows(i) ==
    /\ snapshot.body \subseteq ctx[i].body
    /\ ctx[i].wm = N => snapshot.body = ctx[i].body
SnapshotBetween ==
    ~TerminalAcked =>
        /\ answer.saved => answer.body \subseteq snapshot.body
        /\ \A i \in Inst : Active(i) \/ rec[i].pc = "hydrated" => Follows(i)
        /\ \A i \in Inst : lock[i].pc \notin {"free", "seen"} => ctx[i].wm = N

ShrinkInv == SnapshotsKept => OneTakeover /\ OnePlace /\ SnapshotBetween

LEMMA BudgetStep ==
    ASSUME TypeOK, Budgeted, [Next]_vars
    PROVE  Budgeted'
<1>1. \A k \in FaultKinds : faults'[k] <= faults[k] /\ faults[k] \in Nat /\ faults'[k] \in Nat
  BY FaultsStep, TypeStep DEF NeverGained, TypeOK
<1>2. \A k \in FaultKinds : Budget[k] \in Nat
  BY BoundsAssumption DEF Budget, FaultKinds
<1> QED  BY <1>1, <1>2 DEF Budgeted

\* Snapshots that are kept were kept all along: no fault but crashes and failed
\* writes or observers has happened.
Unspent == ~Spend("redis") /\ ~Spend("handoff") /\ ~Spend("stall") /\ ~Spend("renew")

LEMMA KeptBefore ==
    ASSUME TypeOK, Budgeted, [Next]_vars, SnapshotsKept'
    PROVE  SnapshotsKept /\ Unspent
<1>1. \A k \in FaultKinds : faults'[k] <= faults[k] /\ faults[k] \in Nat /\ faults'[k] \in Nat
  BY FaultsStep, TypeStep DEF NeverGained, TypeOK
<1>2. /\ faults["redis"] <= MaxRedisFaults /\ faults["handoff"] <= MaxHandoffs
      /\ faults["stall"] <= MaxStalls /\ faults["renew"] <= MaxRenewFaults
  BY DEF Budgeted, Budget, FaultKinds
<1>3. /\ faults'["redis"] = MaxRedisFaults /\ faults'["handoff"] = MaxHandoffs
      /\ faults'["stall"] = MaxStalls /\ faults'["renew"] = MaxRenewFaults /\ ~ErrorEnds
  BY DEF SnapshotsKept, NoListenerLost
<1>4. SnapshotsKept
  BY <1>1, <1>2, <1>3, KnownFaults, BoundsAssumption DEF SnapshotsKept, NoListenerLost
<1>5. ASSUME NEW k \in FaultKinds, Spend(k) PROVE faults'[k] # faults[k]
  BY <1>1, <1>5 DEF Spend, TypeOK
<1> QED  BY <1>3, <1>4, <1>5, KnownFaults DEF SnapshotsKept, NoListenerLost, Unspent

\* The lease is the listener's.
LEMMA LoneActive ==
    ASSUME LeaseOfActive, SnapshotsKept, NEW i \in Inst, Active(i)
    PROVE  /\ mode[i] = "up" /\ lease = i /\ Refreshes(i)
           /\ \A j \in Inst \ {i} : ~Active(j)
BY DEF LeaseOfActive, SnapshotsKept, NoListenerLost, Refreshes

\* What an instance still does.
LEMMA StepsLeft ==
    ASSUME LeaseOfActive, SnapshotsKept, Unspent, OneTakeover, NEW i \in Inst, Step(i)
    PROVE  \/ Read(i) \/ StartDrain(i) \/ Processing(i) \/ SaveSnapshot(i) \/ Cleaning(i)
           \/ Heartbeat(i) \/ Crash(i)
           \/ Scan(i) \/ TakeRecoveryLock(i) \/ StartPaused(i) \/ StartRefused(i)
           \/ ClaimPage(i) \/ Resume(i)
           \/ \E t \in Threads : Begin(i, t) \/ Missing(i, t) \/ Ack(i, t)
<1>1. Quiet(i)
  BY DEF OneTakeover
<1>2. ~ReadLate(i) /\ ~Handoff(i) /\ \A t \in Threads : ~AckFails(i, t)
  BY DEF Unspent, ReadLate, Handoff, AckFails
<1>3. ~ReleaseLease(i) /\ ~Exit(i) /\ ~AckAgain(i) /\ ~ClaimAckFailed(i)
  BY <1>1 DEF Quiet, ReleaseLease, Exit, AckAgain, ClaimAckFailed
<1>4. ~RenewFails(i)
  BY LoneActive DEF RenewFails, Unspent
<1> QED  BY <1>2, <1>3, <1>4 DEF Step, Reader, Thread, Recovery

\* Actions on no listener, lease or recovery.
LEMMA ElsewhereTakeover ==
    ASSUME OneTakeover,
           UNCHANGED <<mode, listener, runtime, recoverer, rec, cleanup, ackRetry, ackRegistry>>,
           \A i \in Inst : ctx[i].held => ctx'[i].held,
           \A i \in Inst : claim'[i] = claim[i] \/ claim'[i].paged \/ claim'[i].ids = {}
    PROVE  OneTakeover'
<1>1. \A i \in Inst : Active(i)' = Active(i)
  BY DEF Active, Paused
<1>2. NoneActive' = NoneActive
  BY <1>1 DEF NoneActive
<1>3. ASSUME NEW i \in Inst PROVE (Quiet(i) /\ Tended(i) /\ Cleans(i) /\ Recovers(i))'
  BY <1>1, <1>2 DEF OneTakeover, Quiet, Tended, Cleans, Recovers
<1> QED  BY <1>2, <1>3 DEF OneTakeover

LEMMA ProcessingTakeover ==
    ASSUME TypeOK, OneTakeover, NEW i \in Inst,
           \/ Read(i) \/ StartDrain(i) \/ Processing(i) \/ SaveSnapshot(i) \/ ClaimPage(i)
           \/ \E t \in Threads : Begin(i, t) \/ Missing(i, t)
    PROVE  OneTakeover'
<1>1. UNCHANGED <<mode, listener, runtime, recoverer, rec, cleanup, ackRetry>>
  BY DEF Read, StartDrain, Processing, SaveSnapshot, ClaimPage, Begin, Missing, Replay, Accumulate,
         EndOfAnswer, PersistGate, WriteMessage, WriteFails, NotifyObservers, NotifyFails, MarkPersisted,
         redis
<1>2. \A j \in Inst : ctx[j].held => ctx'[j].held
  <2>1. CASE UNCHANGED ctx
    BY <2>1
  <2>2. ASSUME NEW t \in Threads, Begin(i, t) PROVE \A j \in Inst : ctx[j].held => ctx'[j].held
    <3>1. PICK r : \/ ctx' = [ctx EXCEPT ![i].cur = r]
                   \/ ~ctx[i].held /\ ctx' = [ctx EXCEPT ![i] = [Hydrated EXCEPT !.cur = r]]
      BY <2>2 DEF Begin
    <3>2. CASE ctx' = [ctx EXCEPT ![i].cur = r]
      BY <3>2, ContextAssigned DEF OthersKept
    <3>3. CASE ~ctx[i].held /\ ctx' = [ctx EXCEPT ![i] = [Hydrated EXCEPT !.cur = r]]
      BY <3>3 DEF TypeOK
    <3> QED  BY <3>1, <3>2, <3>3
  <2>3. CASE Processing(i)
    <3>1. \/ UNCHANGED ctx
          \/ \E r : ctx' = [ctx EXCEPT ![i].body = @ \union {r}, ![i].wm = r]
          \/ ctx' = [ctx EXCEPT ![i].wm = N]
          \/ \E b : ctx' = [ctx EXCEPT ![i].gate = b]
      BY <2>3 DEF Processing, Replay, Accumulate, EndOfAnswer, PersistGate, WriteMessage, WriteFails,
                  NotifyObservers, NotifyFails, MarkPersisted
    <3> QED  BY <3>1, ContextAssigned DEF OthersKept
  <2>4. CASE \/ Read(i) \/ StartDrain(i) \/ SaveSnapshot(i) \/ ClaimPage(i)
             \/ \E t \in Threads : Missing(i, t)
    BY <2>1, <2>4 DEF Read, StartDrain, SaveSnapshot, ClaimPage, Missing
  <2> QED  BY <2>2, <2>3, <2>4
<1>3. /\ UNCHANGED ackRegistry
      /\ \A j \in Inst : claim'[j] = claim[j] \/ claim'[j].paged \/ claim'[j].ids = {}
  <2>1. ASSUME NEW t \in Threads, GiveUp(i, t)
        PROVE  /\ UNCHANGED ackRegistry
               /\ \A j \in Inst : claim'[j] = claim[j] \/ claim'[j].ids = {}
    <3>1. Quiet(i)
      BY DEF OneTakeover
    <3>2. ackRegistry' = ackRegistry \/ (claim[i].ids = {} /\ ackRegistry' = [ackRegistry EXCEPT ![i] = @ \union claim[i].ids])
      BY <2>1, <3>1 DEF GiveUp, Quiet
    <3>3. UNCHANGED ackRegistry
      <4>1. ackRegistry[i] \union {} = ackRegistry[i]
        OBVIOUS
      <4>2. [ackRegistry EXCEPT ![i] = ackRegistry[i]] = ackRegistry
        BY DEF TypeOK
      <4> QED  BY <3>2, <4>1, <4>2
    <3>4. UNCHANGED claim \/ claim' = [claim EXCEPT ![i] = NoClaim]
      BY <2>1 DEF GiveUp
    <3>5. \A j \in Inst : claim'[j] = claim[j] \/ claim'[j].ids = {}
      BY <3>4 DEF TypeOK, NoClaim
    <3> QED  BY <3>3, <3>5
  <2>2. CASE WriteFails(i) \/ NotifyFails(i)
    BY <2>1, <2>2, FieldsTyped DEF WriteFails, NotifyFails
  <2>3. ASSUME NEW t \in Threads, Begin(i, t) \/ Missing(i, t)
        PROVE  /\ UNCHANGED ackRegistry
               /\ \A j \in Inst : claim'[j] = claim[j] \/ claim'[j].ids = {}
    BY <2>1, <2>3 DEF Begin, Missing
  <2>4. CASE ClaimPage(i)
    <3>1. PICK P, b : claim' = [claim EXCEPT ![i] = [ids |-> P, paged |-> TRUE, whole |-> b]]
      BY <2>4 DEF ClaimPage
    <3>2. UNCHANGED ackRegistry
      BY <2>4 DEF ClaimPage
    <3> QED  BY <3>1, <3>2 DEF TypeOK
  <2>5. CASE \/ Read(i) \/ StartDrain(i) \/ SaveSnapshot(i) \/ Replay(i) \/ Accumulate(i) \/ EndOfAnswer(i)
             \/ PersistGate(i) \/ WriteMessage(i) \/ NotifyObservers(i) \/ MarkPersisted(i)
    BY <2>5 DEF Read, StartDrain, SaveSnapshot, Replay, Accumulate, EndOfAnswer, PersistGate,
                WriteMessage, NotifyObservers, MarkPersisted
  <2> QED  BY <2>2, <2>3, <2>4, <2>5 DEF Processing
<1> QED  BY <1>1, <1>2, <1>3, ElsewhereTakeover

\* Who acknowledges the terminal record has the listener, and cleans up.
LEMMA AckTakeover ==
    ASSUME TypeOK, OneTakeover, OnePlace, NEW i \in Inst, NEW t \in Threads, Ack(i, t)
    PROVE  OneTakeover'
<1>1. PICK r \in toAck[i][t] : Acknowledged(i, r)
  BY DEF Ack
<1>2. UNCHANGED <<mode, listener, runtime, recoverer, rec, ackRetry, ctx, claim>>
  BY DEF Ack
<1>3. \A j \in Inst : Active(j)' = Active(j)
  BY <1>2 DEF Active, Paused
<1>4. NoneActive' = NoneActive
  BY <1>3 DEF NoneActive
<1>5. r = N => Active(i)
  <2>1. ~Idle(i)
    BY DEF Idle, Nothing
  <2>2. r = N => ~Nowhere
    BY DEF Nowhere
  <2> QED  BY <2>1, <2>2 DEF OnePlace
<1>6. ASSUME NEW j \in Inst PROVE (Quiet(j) /\ Tended(j) /\ Cleans(j) /\ Recovers(j))'
  <2>1. ackRegistry'[j] \subseteq ackRegistry[j]
    BY <1>1 DEF Acknowledged, TypeOK
  <2>2. Cleans(j)'
    BY <1>1, <1>3, <1>5 DEF Acknowledged, OneTakeover, Cleans, TypeOK
  <2> QED  BY <1>2, <1>3, <1>4, <2>1, <2>2 DEF OneTakeover, Quiet, Tended, Recovers
<1> QED  BY <1>2, <1>4, <1>6 DEF OneTakeover

\* A lone listener's heartbeat is its own, and lapses only by a pause.
LEMMA KeysTakeover ==
    ASSUME TypeOK, LeaseOfActive, SnapshotsKept, Unspent, OneTakeover,
           Keys \/ \E i \in Inst : Heartbeat(i)
    PROVE  OneTakeover'
<1>1. UNCHANGED <<mode, listener, rec, cleanup, ackRetry, ackRegistry, ctx, claim>>
  BY DEF Keys, HeartbeatLapses, LeaseLapses, RecoveryLockLapses, Heartbeat, local
<1>2. \A j \in Inst : Active(j)' = Active(j)
  BY <1>1 DEF Active, Paused
<1>3. NoneActive' = NoneActive
  BY <1>2 DEF NoneActive
<1>4. CASE HeartbeatLapses
  <2>1. /\ runtime.status = "running" /\ runtime' = [runtime EXCEPT !.fresh = FALSE] /\ UNCHANGED recoverer
        /\ ~(Refreshes(runtime.owner) /\ ctx[runtime.owner].held)
    BY <1>4 DEF HeartbeatLapses, Unspent
  <2>2. NoneActive
    <3> SUFFICES ASSUME NEW j \in Inst, Active(j) PROVE FALSE
      BY DEF NoneActive
    <3>1. Tended(j) /\ Refreshes(j)
      BY LoneActive DEF OneTakeover
    <3> QED  BY <2>1, <3>1 DEF Tended
  <2>3. runtime'.status # "handoff"
    BY <2>1 DEF OneTakeover, TypeOK, TurnType
  <2>4. ASSUME NEW j \in Inst PROVE (Quiet(j) /\ Tended(j) /\ Cleans(j) /\ Recovers(j))'
    BY <1>1, <1>2, <1>3, <2>1, <2>2
    DEF OneTakeover, Quiet, Tended, Cleans, Recovers, NoneActive
  <2> QED  BY <1>1, <1>3, <2>1, <2>3, <2>4 DEF OneTakeover
<1>5. CASE RecoveryLockLapses
  <2>1. /\ UNCHANGED runtime /\ \A j \in Inst : rec[j].pc = "idle"
    BY <1>5 DEF RecoveryLockLapses, Unspent
  <2>2. ASSUME NEW j \in Inst PROVE (Quiet(j) /\ Tended(j) /\ Cleans(j) /\ Recovers(j))'
    BY <1>1, <1>2, <2>1 DEF OneTakeover, Quiet, Tended, Cleans, Recovers
  <2> QED  BY <1>1, <2>1, <2>2 DEF OneTakeover
<1>6. CASE LeaseLapses
  BY <1>1, <1>6, ElsewhereTakeover DEF LeaseLapses
<1>7. ASSUME NEW i \in Inst, Heartbeat(i) PROVE OneTakeover'
  <2>1. Active(i) /\ runtime' = Running(i) /\ UNCHANGED recoverer
    BY <1>7 DEF Heartbeat
  <2>2. \A j \in Inst : Active(j) => j = i
    BY <2>1, LoneActive
  <2>3. runtime'.status = "running" /\ runtime'.owner = i /\ runtime'.fresh
    BY <2>1 DEF Running
  <2>4. ASSUME NEW j \in Inst PROVE (Quiet(j) /\ Tended(j) /\ Cleans(j) /\ Recovers(j))'
    BY <1>1, <1>2, <1>3, <2>1, <2>2, <2>3 DEF OneTakeover, Quiet, Tended, Cleans, Recovers
  <2> QED  BY <1>1, <1>3, <2>1, <2>3, <2>4 DEF OneTakeover
<1> QED  BY <1>4, <1>5, <1>6, <1>7 DEF Keys

\* The turn ends at the instance that has its listener.
LEMMA CleaningTakeover ==
    ASSUME TypeOK, LeaseOfActive, SnapshotsKept, OneTakeover, NEW i \in Inst, Cleaning(i)
    PROVE  OneTakeover'
<1>1. Cleans(i)
  BY DEF OneTakeover
<1>2. Active(i)
  BY <1>1 DEF Cleaning, CleanupSnapshot, CompleteTurn, Cleans
<1>3. CASE CleanupSnapshot(i)
  <2>1. UNCHANGED <<mode, listener, runtime, recoverer, rec, ackRetry, ackRegistry, ctx, claim>>
    BY <1>3 DEF CleanupSnapshot
  <2>2. \A j \in Inst : Active(j)' = Active(j)
    BY <2>1 DEF Active, Paused
  <2>3. NoneActive' = NoneActive
    BY <2>2 DEF NoneActive
  <2>4. \A j \in Inst : cleanup'[j] # "none" => cleanup[j] # "none"
    BY <1>3 DEF CleanupSnapshot, TypeOK
  <2>5. ASSUME NEW j \in Inst PROVE (Quiet(j) /\ Tended(j) /\ Cleans(j) /\ Recovers(j))'
    BY <2>1, <2>2, <2>3, <2>4 DEF OneTakeover, Quiet, Tended, Cleans, Recovers
  <2> QED  BY <2>1, <2>3, <2>5 DEF OneTakeover
<1>4. CASE CompleteTurn(i)
  <2>1. /\ UNCHANGED <<mode, recoverer, rec, ackRetry, claim>> /\ runtime' = NoTurn
        /\ listener' = [listener EXCEPT ![i] = "closed"]
        /\ cleanup' = [cleanup EXCEPT ![i] = "none"]
        /\ ackRegistry' = [ackRegistry EXCEPT ![i] = {}]
    BY <1>2, <1>4 DEF CompleteTurn, EndTurn, StopListener
  <2>2. \A j \in Inst : Active(j) => j = i
    BY <1>2, LoneActive
  <2>3. ASSUME NEW j \in Inst PROVE ~Active(j)'
    <3>1. CASE j = i
      BY <2>1, <3>1 DEF Active, Paused, TypeOK
    <3>2. CASE j # i
      BY <2>1, <2>2, <3>2 DEF Active, Paused, TypeOK
    <3> QED  BY <3>1, <3>2
  <2>4. NoneActive'
    BY <2>3 DEF NoneActive
  <2>5. ASSUME NEW j \in Inst PROVE (Quiet(j) /\ Tended(j) /\ Cleans(j) /\ Recovers(j))'
    <3>1. ackRegistry'[j] \subseteq ackRegistry[j] /\ (cleanup'[j] # "none" => cleanup[j] # "none" /\ j # i)
      BY <2>1 DEF TypeOK
    <3>2. ~NoneActive
      BY <1>2 DEF NoneActive
    <3> QED  BY <2>1, <2>2, <2>3, <3>1, <3>2 DEF OneTakeover, Quiet, Tended, Cleans, Recovers
  <2> QED  BY <2>1, <2>4, <2>5 DEF OneTakeover, NoTurn
<1> QED  BY <1>3, <1>4 DEF Cleaning

\* A scan, and the lock it takes, find a turn without a listener.
LEMMA RecoveryTakeover ==
    ASSUME TypeOK, OneTakeover, NEW i \in Inst,
           Scan(i) \/ TakeRecoveryLock(i) \/ StartPaused(i) \/ StartRefused(i) \/ Resume(i)
    PROVE  OneTakeover'
<1>1. /\ UNCHANGED <<mode, cleanup, ackRetry, ackRegistry>>
      /\ \A j \in Inst \ {i} : listener'[j] = listener[j] /\ rec'[j] = rec[j] /\ ctx'[j].held = ctx[j].held
      /\ claim'[i] = claim[i] \/ claim'[i] = NoClaim
      /\ \A j \in Inst \ {i} : claim'[j] = claim[j]
  <2>1. CASE StartRefused(i)
    <3>1. UNCHANGED ctx \/ ctx' = [ctx EXCEPT ![i].held = FALSE]
      BY <2>1 DEF StartRefused
    <3>2. \A j \in Inst \ {i} : ctx'[j] = ctx[j]
      BY <3>1, ContextAssigned DEF OthersKept
    <3> QED  BY <2>1, <3>2 DEF StartRefused, TypeOK
  <2> QED  BY <2>1 DEF Scan, TakeRecoveryLock, StartPaused, Resume, TypeOK
<1>2. \A j \in Inst \ {i} : Active(j)' = Active(j)
  BY <1>1 DEF Active, Paused
<1>3. \A j \in Inst : Quiet(j)'
  BY <1>1 DEF OneTakeover, Quiet, NoClaim
<1>4. CASE Scan(i) \/ TakeRecoveryLock(i)
  <2>1. UNCHANGED <<listener, runtime>>
    BY <1>4 DEF Scan, TakeRecoveryLock, redis
  <2>2. \A j \in Inst : Active(j)' = Active(j)
    BY <2>1 DEF Active, Paused
  <2>3. NoneActive' = NoneActive
    BY <2>2 DEF NoneActive
  <2>4. ctx[i].held => ctx'[i].held
    BY <1>4 DEF Scan, TakeRecoveryLock
  <2>5. ASSUME NEW j \in Inst PROVE Tended(j)' /\ Cleans(j)'
    BY <1>1, <2>1, <2>2, <2>4 DEF OneTakeover, Tended, Cleans
  <2>6. CASE Scan(i)
    <3>1. runtime.status = "running" /\ ~runtime.fresh /\ UNCHANGED <<recoverer, ctx>>
      BY <2>6 DEF Scan, OneTakeover, redis
    <3>2. NoneActive
      BY <3>1 DEF OneTakeover, Tended, NoneActive
    <3>3. rec'[i].pc = "candidate"
      BY <2>6 DEF Scan, TypeOK
    <3>4. \A j \in Inst : Recovers(j)'
      BY <1>1, <2>3, <3>1, <3>3 DEF OneTakeover, Recovers
    <3> QED  BY <1>3, <2>1, <2>3, <2>5, <3>2, <3>4 DEF OneTakeover
  <2>7. CASE TakeRecoveryLock(i) /\ recoverer # NoOne
    <3>1. rec'[i] = NoRec /\ UNCHANGED <<recoverer, ctx>>
      BY <2>7 DEF TakeRecoveryLock, TypeOK
    <3>2. \A j \in Inst : Recovers(j)'
      BY <1>1, <2>3, <3>1 DEF OneTakeover, Recovers, NoRec
    <3> QED  BY <1>3, <2>1, <2>3, <2>5, <2>7, <3>1, <3>2 DEF OneTakeover
  <2>8. CASE TakeRecoveryLock(i) /\ recoverer = NoOne
    <3>1. rec[i].pc = "candidate" /\ recoverer' = i /\ i # NoOne
      BY <2>8, InstAssumption DEF TakeRecoveryLock
    <3>2. NoneActive
      BY <2>8, <3>1 DEF OneTakeover
    <3>3. ctx'[i].held
      <4>1. (ctx[i].held /\ UNCHANGED ctx) \/ ctx' = [ctx EXCEPT ![i] = Hydrated]
        BY <2>8 DEF TakeRecoveryLock
      <4> QED  BY <4>1 DEF Hydrated, TypeOK
    <3>4. \A j \in Inst \ {i} : rec[j].pc # "hydrated"
      BY <2>8, InstAssumption DEF OneTakeover, Recovers
    <3>5. \A j \in Inst : Recovers(j)'
      BY <1>1, <2>3, <3>1, <3>2, <3>3, <3>4 DEF Recovers
    <3> QED  BY <1>3, <2>1, <2>5, <3>1, <3>5 DEF OneTakeover
  <2> QED  BY <1>4, <2>6, <2>7, <2>8
<1>5. CASE Resume(i)
  <2>1. UNCHANGED <<runtime, recoverer, rec, ctx>> /\ Active(i) /\ Active(i)'
    <3>1. listener'[i] = "live"
      BY <1>5 DEF Resume, TypeOK
    <3> QED  BY <1>5, <3>1 DEF Resume, Active, redis
  <2>2. \A j \in Inst : Active(j)' = Active(j)
    <3>1. Active(i)' = Active(i)
      BY <2>1 DEF Active
    <3> QED  BY <1>2, <3>1
  <2>3. NoneActive' = NoneActive
    BY <2>2 DEF NoneActive
  <2>4. ASSUME NEW j \in Inst PROVE Tended(j)' /\ Cleans(j)' /\ Recovers(j)'
    BY <1>1, <2>1, <2>2, <2>3 DEF OneTakeover, Tended, Cleans, Recovers
  <2> QED  BY <1>3, <2>1, <2>3, <2>4 DEF OneTakeover
<1>6. CASE StartPaused(i) \/ StartRefused(i)
  <2>1. rec[i].pc = "hydrated" /\ rec'[i] = NoRec /\ UNCHANGED recoverer
    BY <1>6 DEF StartPaused, StartRefused, TypeOK, redis
  <2>2. NoneActive /\ recoverer = i /\ i # NoOne /\ ctx[i].held
    BY <2>1, InstAssumption DEF OneTakeover, Recovers
  <2>3. \A j \in Inst : rec'[j].pc # "hydrated"
    BY <1>1, <2>1, <2>2 DEF OneTakeover, Recovers, NoRec
  <2>4. \A j \in Inst : Recovers(j)'
    BY <2>3 DEF Recovers
  <2>5. \A j \in Inst : Cleans(j)'
    BY <1>1, <2>2 DEF OneTakeover, Cleans, NoneActive
  <2>6. CASE StartPaused(i)
    <3>1. runtime' = Running(i) /\ UNCHANGED ctx
      BY <2>6 DEF StartPaused
    <3>2. runtime'.status = "running" /\ runtime'.owner = i /\ runtime'.fresh
      BY <3>1 DEF Running
    <3>3. \A j \in Inst : Active(j)' => j = i
      BY <1>2, <2>2 DEF NoneActive
    <3>4. \A j \in Inst : Tended(j)'
      BY <2>2, <3>1, <3>2, <3>3 DEF Tended
    <3> QED  BY <1>3, <2>1, <2>2, <2>4, <2>5, <3>2, <3>4 DEF OneTakeover
  <2>7. CASE StartRefused(i)
    <3>1. UNCHANGED <<listener, runtime>>
      BY <2>7 DEF StartRefused, redis
    <3>2. \A j \in Inst : ~Active(j)'
      BY <2>2, <3>1 DEF NoneActive, Active, Paused
    <3>3. \A j \in Inst : Tended(j)'
      BY <3>2 DEF Tended
    <3> QED  BY <1>3, <2>1, <2>2, <2>4, <2>5, <3>1, <3>3 DEF OneTakeover
  <2> QED  BY <1>6, <2>6, <2>7
<1> QED  BY <1>4, <1>5, <1>6

LEMMA CrashTakeover ==
    ASSUME TypeOK, OneTakeover, NEW i \in Inst, Down(i)
    PROVE  OneTakeover'
<1>1. /\ \A j \in Inst \ {i} : HandsKept(j) /\ TasksKept(j)
      /\ listener'[i] = "none" /\ mode'[i] = "down" /\ ackRetry'[i] = {} /\ ackRegistry'[i] = {}
      /\ claim'[i] = NoClaim /\ cleanup'[i] = "none" /\ rec'[i] = NoRec
      /\ UNCHANGED <<runtime, recoverer>>
  BY DEF Down, HandsKept, TasksKept, TypeOK, redis
<1>2. ~Active(i)' /\ \A j \in Inst \ {i} : Active(j)' = Active(j)
  BY <1>1 DEF Active, Paused, HandsKept
<1>3. NoneActive => NoneActive'
  BY <1>2 DEF NoneActive
<1>4. Quiet(i)' /\ Tended(i)' /\ Cleans(i)' /\ Recovers(i)'
  BY <1>1, <1>2 DEF Quiet, Tended, Cleans, Recovers, NoClaim, NoRec
<1>5. ASSUME NEW j \in Inst \ {i} PROVE (Quiet(j) /\ Tended(j) /\ Cleans(j) /\ Recovers(j))'
  BY <1>1, <1>2, <1>3 DEF OneTakeover, Quiet, Tended, Cleans, Recovers, HandsKept, TasksKept
<1>6. (\E j \in Inst : rec'[j].pc # "idle") => \E j \in Inst : rec[j].pc # "idle"
  BY <1>1 DEF TasksKept, NoRec
<1> QED  BY <1>1, <1>3, <1>4, <1>5, <1>6 DEF OneTakeover

LEMMA TakeoverStep ==
    ASSUME TypeOK, LeaseOfActive, SnapshotsKept, Unspent, OneTakeover, OnePlace, [Next]_vars
    PROVE  OneTakeover'
<1>1. CASE UNCHANGED vars \/ Produce
  BY <1>1, ElsewhereTakeover DEF vars, Produce, redis, local
<1>2. CASE Keys
  BY <1>2, KeysTakeover
<1>3. ASSUME NEW i \in Inst, Step(i) PROVE OneTakeover'
  BY <1>3, StepsLeft, ProcessingTakeover, AckTakeover, KeysTakeover, CleaningTakeover, RecoveryTakeover,
     CrashTakeover DEF Crash
<1> QED  BY <1>1, <1>2, <1>3 DEF Next, Step

-----------------------------------------------------------------------------
\* Where the hands of an instance stay as they are.
LEMMA PlacedKept ==
    ASSUME NEW i \in Inst, Placed(i),
           buf'[i] = buf[i], work'[i] = work[i], toAck'[i] = toAck[i], listener'[i] = listener[i],
           \/ lock'[i].pc = "free"
           \/ lock'[i].rec = lock[i].rec /\ lock'[i].by = lock[i].by /\ lock[i].pc # "free"
    PROVE  Placed(i)'
<1>1. Paused(i)' = Paused(i)
  BY DEF Paused
<1> QED  BY <1>1 DEF Placed

\* A thread that processes a record is the only one with something in hand.
LEMMA ThreadAlone ==
    ASSUME TypeOK, NEW i \in Inst, NEW t \in Threads, Active(i), Placed(i),
           work[i][t] # {} \/ toAck[i][t] # {}
    PROVE  /\ t = "drain" => listener[i] = "live" /\ ~Paused(i)
           /\ t = "claim" => Paused(i) /\ listener[i] # "live"
BY DEF Threads, Placed, Active, Paused

LEMMA ReadPlaced ==
    ASSUME TypeOK, TerminalRead, NEW i \in Inst, Placed(i), Read(i)
    PROVE  Placed(i)'
<1>1. /\ UNCHANGED <<work, toAck, lock, listener>> /\ listener[i] = "live"
      /\ buf'[i] = buf[i] \union {delivered + 1} /\ delivered # N
  BY DEF Read, TypeOK
<1>2. Nowhere
  BY <1>1 DEF TerminalRead
<1>3. Paused(i)' = Paused(i) /\ ~Paused(i)
  BY <1>1 DEF Paused
<1> QED  BY <1>1, <1>2, <1>3 DEF Placed, Nowhere, Threads

LEMMA StartDrainPlaced ==
    ASSUME TypeOK, NEW i \in Inst, Placed(i), StartDrain(i)
    PROVE  Placed(i)'
<1>1. PICK last \in buf[i] : /\ work' = [work EXCEPT ![i]["drain"] = UpTo(buf[i], last)]
                             /\ buf' = [buf EXCEPT ![i] = @ \ UpTo(buf[i], last)]
  BY DEF StartDrain
<1>2. /\ work[i]["drain"] = {} /\ toAck[i]["drain"] = {} /\ work'[i]["drain"] = UpTo(buf[i], last)
      /\ work'[i]["claim"] = work[i]["claim"] /\ buf'[i] = buf[i] \ UpTo(buf[i], last)
      /\ UNCHANGED <<toAck, lock, listener>> /\ listener[i] = "live"
  BY <1>1 DEF StartDrain, TypeOK, Threads
<1>3. Paused(i)' = Paused(i) /\ ~Paused(i)
  BY <1>2 DEF Paused
<1>4. lock[i].pc = "free"
  <2>1. lock[i].by \in Threads
    BY FieldsTyped
  <2> QED  BY <1>2, <2>1 DEF Placed, Threads
<1> QED  BY <1>2, <1>3, <1>4 DEF Placed, Threads

LEMMA GiveUpPlaced ==
    ASSUME TypeOK, NEW i \in Inst, NEW t \in Threads, Active(i), Placed(i), work[i][t] # {}, GiveUp(i, t),
           lock'[i].pc = "free", UNCHANGED <<toAck, listener>>
    PROVE  Placed(i)'
<1>1. work'[i][t] = {} /\ \A u \in Threads \ {t} : work'[i][u] = work[i][u]
  BY DEF GiveUp, TypeOK
<1>2. Paused(i)' = Paused(i)
  BY DEF Paused
<1>3. CASE t = "claim"
  <2>1. UNCHANGED buf
    BY <1>3 DEF GiveUp
  <2> QED  BY <1>1, <1>2, <1>3, <2>1 DEF Placed, Threads
<1>4. CASE t = "drain"
  <2>1. listener[i] = "live" /\ ~Paused(i)
    BY <1>4, ThreadAlone
  <2>2. buf' = [buf EXCEPT ![i] = @ \union work[i]["drain"]]
    BY <1>4, <2>1 DEF GiveUp
  <2>3. buf'[i] = buf[i] \union work[i]["drain"]
    BY <2>2 DEF TypeOK
  <2> QED  BY <1>1, <1>2, <1>4, <2>1, <2>3 DEF Placed, Threads
<1> QED  BY <1>3, <1>4 DEF Threads

LEMMA HandledPlaced ==
    ASSUME TypeOK, NEW i \in Inst, Active(i), Placed(i), lock[i].pc # "free", Handled(i),
           UNCHANGED <<buf, listener>>
    PROVE  Placed(i)'
<1>1. PICK t \in Threads, r \in Records : t = lock[i].by /\ r = lock[i].rec
  BY FieldsTyped
<1>2. /\ work' = [work EXCEPT ![i][t] = @ \ {r}]
      /\ toAck' = [toAck EXCEPT ![i][t] = @ \union {r}]
      /\ lock'[i].pc = "free"
  BY <1>1 DEF Handled, TypeOK, Free
<1>3. /\ work'[i][t] = work[i][t] \ {r} /\ toAck'[i][t] = toAck[i][t] \union {r}
      /\ \A u \in Threads \ {t} : work'[i][u] = work[i][u] /\ toAck'[i][u] = toAck[i][u]
  BY <1>2 DEF TypeOK
<1>4. r \in work[i][t]
  BY <1>1 DEF Placed
<1>5. Paused(i)' = Paused(i)
  BY DEF Paused
<1>6. /\ t = "drain" => listener[i] = "live" /\ ~Paused(i)
      /\ t = "claim" => Paused(i) /\ listener[i] # "live"
  BY <1>4, ThreadAlone
<1> QED  BY <1>2, <1>3, <1>4, <1>5, <1>6 DEF Placed, Threads

LEMMA ProcessingPlaced ==
    ASSUME TypeOK, NEW i \in Inst, Active(i), Placed(i), Processing(i)
    PROVE  Placed(i)'
<1>1. lock[i].pc # "free" /\ UNCHANGED listener
  BY DEF Processing, Replay, Accumulate, EndOfAnswer, PersistGate, WriteMessage, WriteFails,
         NotifyObservers, NotifyFails, MarkPersisted
<1>2. CASE Handled(i) /\ UNCHANGED buf
  BY <1>1, <1>2, HandledPlaced
<1>3. CASE WriteFails(i) \/ NotifyFails(i)
  <2>1. lock[i].by \in Threads /\ work[i][lock[i].by] # {}
    BY <1>1, FieldsTyped DEF Placed
  <2>2. GiveUp(i, lock[i].by) /\ lock'[i].pc = "free" /\ UNCHANGED toAck
    BY <1>3 DEF WriteFails, NotifyFails, TypeOK, Free
  <2> QED  BY <1>1, <2>1, <2>2, GiveUpPlaced
<1>4. CASE UNCHANGED <<buf, work, toAck>> /\ \E p : lock' = [lock EXCEPT ![i].pc = p]
  <2>1. PICK p : lock' = [lock EXCEPT ![i].pc = p]
    BY <1>4
  <2>2. lock'[i].rec = lock[i].rec /\ lock'[i].by = lock[i].by
    BY <2>1 DEF TypeOK, LockType, Free
  <2> QED  BY <1>1, <1>4, <2>2, PlacedKept
<1>5. \/ Handled(i) /\ UNCHANGED buf
      \/ WriteFails(i) \/ NotifyFails(i)
      \/ UNCHANGED <<buf, work, toAck>> /\ \E p : lock' = [lock EXCEPT ![i].pc = p]
  <2>1. CASE Replay(i) \/ Accumulate(i) \/ MarkPersisted(i)
    BY <2>1 DEF Replay, Accumulate, MarkPersisted
  <2>2. CASE EndOfAnswer(i) \/ PersistGate(i) \/ WriteMessage(i) \/ NotifyObservers(i)
    BY <2>2 DEF EndOfAnswer, PersistGate, WriteMessage, NotifyObservers
  <2> QED  BY <2>1, <2>2 DEF Processing
<1> QED  BY <1>2, <1>3, <1>4, <1>5

LEMMA ThreadPlaced ==
    ASSUME TypeOK, NEW i \in Inst, NEW t \in Threads, Placed(i), Begin(i, t) \/ Ack(i, t)
    PROVE  Placed(i)'
<1>1. CASE Begin(i, t)
  <2>1. PICK r \in work[i][t] : lock' = [lock EXCEPT ![i] = [pc |-> "seen", by |-> t, rec |-> r]]
    BY <1>1 DEF Begin
  <2>2. lock'[i].by = t /\ lock'[i].rec = r /\ UNCHANGED <<buf, work, toAck, listener>>
    BY <1>1, <2>1 DEF Begin, TypeOK
  <2>3. Paused(i)' = Paused(i)
    BY <2>2 DEF Paused
  <2> QED  BY <2>2, <2>3 DEF Placed
<1>2. CASE Ack(i, t)
  <2>1. UNCHANGED <<buf, work, lock, listener>> /\ \E r : toAck' = [toAck EXCEPT ![i][t] = @ \ {r}]
    BY <1>2 DEF Ack
  <2>2. \A u \in Threads : toAck'[i][u] \subseteq toAck[i][u]
    BY <2>1 DEF TypeOK
  <2>3. Paused(i)' = Paused(i)
    BY <2>1 DEF Paused
  <2> QED  BY <2>1, <2>2, <2>3 DEF Placed, Threads
<1> QED  BY <1>1, <1>2

LEMMA ClaimPlaced ==
    ASSUME TypeOK, NEW i \in Inst, Active(i), Placed(i), ClaimPage(i) \/ Resume(i)
    PROVE  Placed(i)'
<1>1. work[i]["claim"] = {} /\ toAck[i]["claim"] = {} /\ Paused(i) /\ UNCHANGED <<buf, toAck, lock>>
  BY DEF ClaimPage, Resume, ClaimIdle
<1>2. lock[i].pc = "free"
  <2>1. lock[i].by \in Threads
    BY FieldsTyped
  <2> QED  BY <1>1, <2>1 DEF Placed, Threads
<1>3. CASE Resume(i)
  <2>1. UNCHANGED work /\ listener'[i] = "live"
    BY <1>3 DEF Resume, TypeOK
  <2> QED  BY <1>1, <1>2, <2>1 DEF Placed, Paused
<1>4. CASE ClaimPage(i)
  <2>1. UNCHANGED listener /\ \E P : work' = [work EXCEPT ![i]["claim"] = P]
    BY <1>4 DEF ClaimPage
  <2>2. work'[i]["drain"] = work[i]["drain"]
    BY <2>1 DEF TypeOK, Threads
  <2>3. Paused(i)' = Paused(i) /\ listener[i] # "live"
    BY <1>1, <2>1 DEF Paused
  <2> QED  BY <1>1, <1>2, <2>1, <2>2, <2>3 DEF Placed, Threads
<1> QED  BY <1>3, <1>4

\* An instance that rests only joins the recovery.
LEMMA RestingSteps ==
    ASSUME LeaseOfActive, SnapshotsKept, Unspent, OneTakeover, NEW i \in Inst, ~Active(i), Idle(i), Step(i)
    PROVE  Scan(i) \/ TakeRecoveryLock(i) \/ StartPaused(i) \/ StartRefused(i) \/ Crash(i)
<1>1. listener[i] # "live" /\ ~Paused(i)
  BY DEF Active
<1>2. lock[i].pc = "free" /\ \A t \in Threads : work[i][t] = {} /\ toAck[i][t] = {}
  BY DEF Idle, Free, Nothing
<1>3. ~Read(i) /\ ~StartDrain(i) /\ ~SaveSnapshot(i) /\ ~Heartbeat(i) /\ ~Resume(i)
  BY <1>1 DEF Read, StartDrain, SaveSnapshot, Heartbeat, Resume, Idle
<1>4. ~Processing(i)
  BY <1>2 DEF Processing, Replay, Accumulate, EndOfAnswer, PersistGate, WriteMessage, WriteFails,
              NotifyObservers, NotifyFails, MarkPersisted
<1>5. \A t \in Threads : ~Begin(i, t) /\ ~Missing(i, t) /\ ~Ack(i, t)
  BY <1>2 DEF Begin, Missing, Ack
<1>6. ~ClaimPage(i)
  BY <1>1 DEF ClaimPage, Idle
<1>7. ~Cleaning(i)
  BY DEF OneTakeover, Cleans, Cleaning, CleanupSnapshot, CompleteTurn
<1> QED  BY <1>3, <1>4, <1>5, <1>6, <1>7, StepsLeft

LEMMA RestingPlaced ==
    ASSUME TypeOK, NEW i \in Inst, Idle(i),
           Scan(i) \/ TakeRecoveryLock(i) \/ StartPaused(i) \/ StartRefused(i)
    PROVE  Placed(i)' /\ (~Active(i)' => Idle(i)')
<1>1. UNCHANGED <<buf, work, toAck, lock, behind>>
  BY DEF Scan, TakeRecoveryLock, StartPaused, StartRefused
<1>2. Placed(i)'
  BY <1>1 DEF Idle, Placed, Free, Nothing, Threads
<1>3. ASSUME ~Active(i)' PROVE ctx'[i].held => rec'[i].pc = "hydrated"
  <2>1. CASE Scan(i)
    BY <2>1 DEF Scan, Idle
  <2>2. CASE TakeRecoveryLock(i)
    <3>1. \/ rec' = [rec EXCEPT ![i] = NoRec] /\ UNCHANGED ctx /\ rec[i].pc = "candidate"
          \/ rec' = [rec EXCEPT ![i].pc = "hydrated"]
      BY <2>2 DEF TakeRecoveryLock
    <3>2. CASE rec' = [rec EXCEPT ![i].pc = "hydrated"]
      BY <3>2 DEF TypeOK, TaskType
    <3> QED  BY <3>1, <3>2 DEF Idle
  <2>3. CASE StartPaused(i)
    <3>1. listener'[i] \in {"paused", "pausedNow"}
      BY <2>3 DEF StartPaused, TypeOK
    <3> QED  BY <1>3, <3>1 DEF Active, Paused
  <2>4. CASE StartRefused(i)
    <3>1. UNCHANGED listener /\ (Active(i) \/ ctx' = [ctx EXCEPT ![i].held = FALSE])
      BY <2>4 DEF StartRefused
    <3>2. ~Active(i)
      BY <1>3, <3>1 DEF Active, Paused
    <3> QED  BY <3>1, <3>2, ContextAssigned
  <2> QED  BY <2>1, <2>2, <2>3, <2>4
<1> QED  BY <1>1, <1>2, <1>3 DEF Idle

LEMMA DownPlaced ==
    ASSUME TypeOK, NEW i \in Inst, Down(i)
    PROVE  Placed(i)' /\ Idle(i)'
<1>1. /\ buf'[i] = {} /\ work'[i] = Nothing /\ toAck'[i] = Nothing /\ lock'[i] = Free
      /\ ~behind'[i] /\ ctx'[i] = NoCtx
  BY DEF Down, TypeOK
<1> QED  BY <1>1 DEF Placed, Idle, Free, Nothing, NoCtx, Threads

LEMMA PlacedStep ==
    ASSUME TypeOK, LeaseOfActive, SnapshotsKept, Unspent, OneTakeover, TerminalRead, CleanupAcked,
           ~TerminalAcked, NEW i \in Inst, ~Active(i) => Idle(i), Placed(i), Step(i)
    PROVE  Placed(i)' /\ (~Active(i)' => Idle(i)')
<1>1. CASE Crash(i)
  BY <1>1, DownPlaced DEF Crash
<1>2. CASE ~Active(i)
  BY <1>1, <1>2, RestingSteps, RestingPlaced
<1>3. CASE Active(i) /\ ~Crash(i)
  <2>1. ~Cleaning(i) /\ ~StartPaused(i)
    BY <1>3 DEF Cleaning, CleanupSnapshot, CompleteTurn, CleanupAcked, StartPaused
  <2>2. ~StartRefused(i) /\ ~(TakeRecoveryLock(i) /\ recoverer = NoOne)
    BY <1>3 DEF OneTakeover, Recovers, NoneActive, StartRefused, TakeRecoveryLock
  <2>3. \A t \in Threads : ~Missing(i, t)
    BY <1>3 DEF OneTakeover, Tended, Missing
  <2>4. Active(i)'
    <3>1. listener'[i] = listener[i] \/ listener'[i] = "live"
      <4>1. CASE Processing(i)
        BY <4>1 DEF Processing, Replay, Accumulate, EndOfAnswer, PersistGate, WriteMessage, WriteFails,
                    NotifyObservers, NotifyFails, MarkPersisted
      <4>2. CASE Resume(i)
        BY <4>2 DEF Resume, TypeOK
      <4>3. CASE \E t \in Threads : Begin(i, t) \/ Ack(i, t)
        BY <4>3 DEF Begin, Ack
      <4>4. CASE \/ Read(i) \/ StartDrain(i) \/ SaveSnapshot(i) \/ Heartbeat(i)
                 \/ Scan(i) \/ TakeRecoveryLock(i) \/ ClaimPage(i)
        BY <4>4 DEF Read, StartDrain, SaveSnapshot, Heartbeat, Scan, TakeRecoveryLock, ClaimPage, local
      <4> QED  BY <1>3, <2>1, <2>2, <2>3, <4>1, <4>2, <4>3, <4>4, StepsLeft
    <3> QED  BY <1>3, <3>1 DEF Active, Paused
  <2>5. Placed(i)'
    <3>1. CASE SaveSnapshot(i) \/ Heartbeat(i) \/ Scan(i) \/ TakeRecoveryLock(i)
      <4>1. UNCHANGED <<buf, work, toAck, lock, listener>>
        BY <3>1 DEF SaveSnapshot, Heartbeat, Scan, TakeRecoveryLock, local
      <4>2. Paused(i)' = Paused(i)
        BY <4>1 DEF Paused
      <4> QED  BY <4>1, <4>2 DEF Placed
    <3> QED
      BY <1>3, <2>1, <2>2, <2>3, <3>1, StepsLeft, ReadPlaced, StartDrainPlaced, ProcessingPlaced,
         ThreadPlaced, ClaimPlaced
  <2> QED  BY <2>4, <2>5
<1> QED  BY <1>1, <1>2, <1>3

LEMMA PlacedElsewhere ==
    ASSUME NEW i \in Inst, HandsKept(i), TasksKept(i), ~Active(i) => Idle(i), Placed(i)
    PROVE  Placed(i)' /\ (~Active(i)' => Idle(i)')
<1>1. Paused(i)' = Paused(i) /\ Active(i)' = Active(i)
  BY DEF HandsKept, Active, Paused
<1>2. Placed(i)'
  BY <1>1 DEF HandsKept, Placed
<1>3. Idle(i) => Idle(i)'
  BY DEF HandsKept, TasksKept, Idle
<1> QED  BY <1>1, <1>2, <1>3

\* The terminal acknowledgement is the one of its record, and takes it from
\* where it was.
LEMMA FirstAck ==
    ASSUME TypeOK, LeaseOfActive, SnapshotsKept, Unspent, OneTakeover, [Next]_vars,
           ~TerminalAcked, TerminalAcked'
    PROVE  \E i \in Inst, t \in Threads :
               /\ Ack(i, t) /\ N \in toAck[i][t]
               /\ toAck' = [toAck EXCEPT ![i][t] = @ \ {N}] /\ pel'[N] = NoOne
<1>0. N \in Records /\ pel'[N] = NoOne
  BY NAssumption DEF Records, TerminalAcked
<1>1. ASSUME UNCHANGED delivered, pel'[N] = NoOne => pel[N] = NoOne PROVE FALSE
  BY <1>0, <1>1 DEF TerminalAcked
<1>2. ASSUME UNCHANGED vars \/ Produce \/ Keys PROVE FALSE
  BY <1>1, <1>2 DEF vars, redis, Produce, Keys, HeartbeatLapses, LeaseLapses, RecoveryLockLapses
<1>3. ASSUME NEW i \in Inst, Read(i) PROVE FALSE
  <2>1. delivered' = delivered + 1 /\ pel' = [pel EXCEPT ![delivered + 1] = i]
    BY <1>3 DEF Read
  <2>2. pel'[N] = i
    BY <1>0, <2>1 DEF TerminalAcked, TypeOK
  <2> QED  BY <1>0, <2>2, InstAssumption
<1>4. ASSUME NEW i \in Inst, ClaimPage(i) PROVE FALSE
  <2>1. UNCHANGED delivered /\ \E P : pel' = [r \in Records |-> IF r \in P THEN i ELSE pel[r]]
    BY <1>4 DEF ClaimPage
  <2>2. pel'[N] = NoOne => pel[N] = NoOne
    BY <1>0, <2>1, InstAssumption
  <2> QED  BY <1>1, <2>1, <2>2
<1>5. ASSUME NEW i \in Inst,
             \/ StartDrain(i) \/ Processing(i) \/ SaveSnapshot(i) \/ Cleaning(i) \/ Heartbeat(i)
             \/ Crash(i) \/ Scan(i) \/ TakeRecoveryLock(i) \/ StartPaused(i) \/ StartRefused(i)
             \/ Resume(i) \/ \E t \in Threads : Begin(i, t) \/ Missing(i, t)
      PROVE  FALSE
  <2>1. CASE Processing(i)
    BY <1>1, <2>1 DEF Processing, Replay, Accumulate, EndOfAnswer, PersistGate, WriteMessage, WriteFails,
                      NotifyObservers, NotifyFails, MarkPersisted, redis
  <2>2. CASE \E t \in Threads : Begin(i, t) \/ Missing(i, t)
    BY <1>1, <2>2 DEF Begin, Missing, redis
  <2> QED
    BY <1>1, <1>5, <2>1, <2>2
    DEF StartDrain, SaveSnapshot, Cleaning, CleanupSnapshot, CompleteTurn, Heartbeat, Crash, Down, Scan,
        TakeRecoveryLock, StartPaused, StartRefused, Resume, redis
<1>6. ASSUME NEW i \in Inst, NEW t \in Threads, Ack(i, t)
      PROVE  N \in toAck[i][t] /\ toAck' = [toAck EXCEPT ![i][t] = @ \ {N}]
  <2>1. PICK r \in toAck[i][t] : toAck' = [toAck EXCEPT ![i][t] = @ \ {r}] /\ Acknowledged(i, r)
    BY <1>6 DEF Ack
  <2>2. r = N
    <3>1. pel' = [pel EXCEPT ![r] = NoOne] /\ UNCHANGED delivered
      BY <1>6, <2>1 DEF Ack, Acknowledged
    <3>2. r # N => pel'[N] = pel[N]
      BY <1>0, <3>1 DEF TypeOK
    <3> QED  BY <1>1, <3>1, <3>2
  <2> QED  BY <2>1, <2>2
<1>7. PICK i \in Inst : Step(i)
  BY <1>2 DEF Next, Step
<1>8. PICK t \in Threads : Ack(i, t)
  BY <1>3, <1>4, <1>5, <1>7, StepsLeft
<1> QED  BY <1>0, <1>6, <1>8

LEMMA OnePlaceStep ==
    ASSUME TypeOK, LeaseOfActive, SnapshotsKept, Unspent, OneTakeover, TerminalRead, CleanupAcked,
           OnePlace, [Next]_vars
    PROVE  OnePlace'
<1>1. CASE TerminalAcked
  <2>1. TerminalAcked' /\ UNCHANGED delivered
    BY <1>1, AckedForGood DEF TerminalAcked
  <2> QED  BY <1>1, <2>1, NowhereKept DEF OnePlace
<1>2. CASE ~TerminalAcked /\ ~TerminalAcked'
  <2> SUFFICES ASSUME NEW i \in Inst PROVE Placed(i)' /\ (~Active(i)' => Idle(i)')
    BY <1>2 DEF OnePlace
  <2>1. Placed(i) /\ (~Active(i) => Idle(i))
    BY <1>2 DEF OnePlace
  <2>2. CASE UNCHANGED vars \/ Produce \/ Keys
    <3>1. HandsKept(i) /\ TasksKept(i)
      BY <2>2 DEF vars, local, Produce, Keys, HeartbeatLapses, LeaseLapses, RecoveryLockLapses,
                  HandsKept, TasksKept
    <3> QED  BY <2>1, <3>1, PlacedElsewhere
  <2>3. ASSUME NEW j \in Inst, Step(j) PROVE Placed(i)' /\ (~Active(i)' => Idle(i)')
    <3>1. CASE i = j
      BY <1>2, <2>1, <2>3, <3>1, PlacedStep
    <3>2. CASE i # j
      BY <2>1, <2>3, <3>2, StepElsewhere, PlacedElsewhere
    <3> QED  BY <3>1, <3>2
  <2> QED  BY <2>2, <2>3 DEF Next, Step
<1>3. CASE ~TerminalAcked /\ TerminalAcked'
  <2>1. PICK i \in Inst, t \in Threads :
            /\ Ack(i, t) /\ N \in toAck[i][t]
            /\ toAck' = [toAck EXCEPT ![i][t] = @ \ {N}] /\ pel'[N] = NoOne
    BY <1>3, FirstAck
  <2>2. \A j \in Inst : Placed(j) /\ (~Active(j) => Idle(j))
    BY <1>3 DEF OnePlace
  <2>3. UNCHANGED <<buf, work, lock, ackRetry>> /\ \A j \in Inst : ackRetry[j] = {}
    BY <2>1 DEF Ack, OneTakeover, Quiet
  <2>4. Active(i)
    BY <2>1, <2>2 DEF Idle, Nothing
  <2>5. ASSUME NEW j \in Inst, lock[j].pc = "free" PROVE lock[j].rec # N
    <3>1. lock[j] = Free
      BY <2>5 DEF TypeOK, LockType
    <3> QED  BY <3>1, NAssumption DEF Free
  <2>6. ASSUME NEW j \in Inst
        PROVE  N \notin buf[j] /\ lock[j].rec # N /\ \A u \in Threads : N \notin work[j][u] /\ N \notin toAck'[j][u]
    <3>1. CASE j = i
      <4>1. /\ t = "drain" => listener[i] = "live" /\ ~Paused(i)
            /\ t = "claim" => Paused(i) /\ listener[i] # "live"
        BY <2>1, <2>2, <2>4, ThreadAlone
      <4>2. toAck'[i][t] = toAck[i][t] \ {N} /\ \A u \in Threads \ {t} : toAck'[i][u] = toAck[i][u]
        BY <2>1 DEF TypeOK
      <4>3. N \notin buf[i] /\ \A u \in Threads : N \notin work[i][u]
        BY <2>1, <2>2, <4>1 DEF Placed, Threads
      <4>4. \A u \in Threads : N \notin toAck'[i][u]
        BY <2>2, <4>1, <4>2 DEF Placed, Threads
      <4>5. lock[i].rec # N
        <5>1. lock[i].by \in Threads
          BY FieldsTyped
        <5> QED  BY <2>2, <2>5, <4>3, <5>1 DEF Placed
      <4> QED  BY <3>1, <4>3, <4>4, <4>5
    <3>2. CASE j # i
      <4>1. ~Active(j)
        BY <2>4, <3>2, LoneActive
      <4>2. Idle(j) /\ toAck'[j] = toAck[j]
        BY <2>1, <2>2, <3>2, <4>1 DEF TypeOK
      <4> QED  BY <2>5, <4>2 DEF Idle, Nothing, Free
    <3> QED  BY <3>1, <3>2
  <2> QED  BY <1>3, <2>1, <2>3, <2>6 DEF OnePlace, Nowhere
<1> QED  BY <1>1, <1>2, <1>3

-----------------------------------------------------------------------------
\* What one instance contributes to SnapshotBetween, before and after its step.
Past(i) == lock[i].pc \notin {"free", "seen"}
Between(i) ==
    /\ Active(i) \/ rec[i].pc = "hydrated" => Follows(i)
    /\ Past(i) => ctx[i].wm = N
Widens(i) ==
    /\ UNCHANGED snapshot \/ (Active(i) /\ snapshot.body \subseteq snapshot'.body)
    /\ answer'.saved => \/ answer.saved /\ answer'.body = answer.body
                        \/ answer'.body \subseteq snapshot'.body

\* Actions on neither what is accumulated nor what is stored.
LEMMA ElsewhereBetween ==
    ASSUME NEW i \in Inst, Between(i), UNCHANGED <<snapshot, answer>>, Accumulated(i),
           (Active(i) \/ rec[i].pc = "hydrated")' => Active(i) \/ rec[i].pc = "hydrated",
           Past(i)' => Past(i)
    PROVE  Between(i)' /\ Widens(i)
BY DEF Between, Widens, Accumulated, Follows

LEMMA ThreadBetween ==
    ASSUME TypeOK, OneTakeover, NEW i \in Inst, Between(i), ~Active(i) => Idle(i),
           \/ Read(i) \/ StartDrain(i) \/ Heartbeat(i) \/ ClaimPage(i) \/ Resume(i)
           \/ \E t \in Threads : Begin(i, t) \/ Missing(i, t) \/ Ack(i, t)
    PROVE  Between(i)' /\ Widens(i)
<1>1. UNCHANGED <<snapshot, answer>>
  BY DEF Read, StartDrain, Heartbeat, ClaimPage, Resume, Begin, Missing, Ack, redis
<1>2. UNCHANGED rec /\ (Active(i)' => Active(i))
  <2>1. CASE Resume(i)
    BY <2>1 DEF Resume, Active
  <2>2. CASE UNCHANGED listener
    <3>1. Active(i)' = Active(i)
      BY <2>2 DEF Active, Paused
    <3> QED  BY <3>1 DEF Read, StartDrain, Heartbeat, ClaimPage, Resume, Begin, Missing, Ack, local
  <2> QED
    BY <2>1, <2>2 DEF Read, StartDrain, Heartbeat, ClaimPage, Begin, Missing, Ack, local
<1>3. ASSUME NEW t \in Threads, Begin(i, t)
      PROVE  Accumulated(i) /\ ~Past(i)'
  <2>1. ~Idle(i) /\ Active(i)
    BY <1>3 DEF Idle, Nothing, Begin
  <2>2. ctx[i].held
    BY <2>1 DEF OneTakeover, Tended
  <2>3. \E r : ctx' = [ctx EXCEPT ![i].cur = r]
    BY <1>3, <2>2 DEF Begin
  <2>4. lock'[i].pc = "seen"
    BY <1>3 DEF Begin, TypeOK
  <2> QED  BY <2>3, <2>4, ContextAssigned DEF Past
<1>4. CASE UNCHANGED <<ctx, lock>>
  BY <1>1, <1>2, <1>4, ElsewhereBetween DEF Accumulated, Past
<1>5. UNCHANGED <<ctx, lock>> \/ \E t \in Threads : Begin(i, t)
  BY DEF Read, StartDrain, Heartbeat, ClaimPage, Resume, Missing, Ack, local
<1> QED  BY <1>1, <1>2, <1>3, <1>4, <1>5, ElsewhereBetween

LEMMA RecoveryBetween ==
    ASSUME TypeOK, OneTakeover, NEW i \in Inst, Between(i), ~Active(i) => Idle(i),
           Scan(i) \/ TakeRecoveryLock(i) \/ StartPaused(i) \/ StartRefused(i)
    PROVE  Between(i)' /\ Widens(i)
<1>1. UNCHANGED <<snapshot, answer, lock>>
  BY DEF Scan, TakeRecoveryLock, StartPaused, StartRefused, redis
<1>2. Past(i)' = Past(i)
  BY <1>1 DEF Past
<1>3. CASE Scan(i)
  <2>1. UNCHANGED <<ctx, listener>> /\ rec'[i].pc = "candidate"
    BY <1>3 DEF Scan, TypeOK
  <2> QED  BY <1>1, <1>2, <2>1, ElsewhereBetween DEF Active, Paused, Accumulated
<1>4. CASE StartPaused(i) \/ StartRefused(i)
  <2>1. rec[i].pc = "hydrated"
    BY <1>4 DEF StartPaused, StartRefused
  <2>2. UNCHANGED ctx \/ ctx' = [ctx EXCEPT ![i].held = FALSE]
    BY <1>4 DEF StartPaused, StartRefused
  <2>3. Accumulated(i)
    BY <2>2, ContextAssigned DEF Accumulated
  <2> QED  BY <1>1, <1>2, <2>1, <2>3, ElsewhereBetween
<1>5. CASE TakeRecoveryLock(i) /\ recoverer # NoOne
  <2>1. UNCHANGED <<ctx, listener>> /\ rec'[i].pc = "idle"
    BY <1>5 DEF TakeRecoveryLock, TypeOK, NoRec
  <2> QED  BY <1>1, <1>2, <2>1, ElsewhereBetween DEF Active, Paused, Accumulated
<1>6. CASE TakeRecoveryLock(i) /\ recoverer = NoOne
  <2>1. rec[i].pc = "candidate"
    BY <1>6 DEF TakeRecoveryLock
  <2>2. Idle(i)
    BY <1>6, <2>1 DEF OneTakeover, NoneActive
  <2>3. ctx' = [ctx EXCEPT ![i] = Hydrated]
    BY <1>6, <2>1, <2>2 DEF TakeRecoveryLock, Idle
  <2>4. ctx'[i].body = snapshot.body
    BY <2>3 DEF Hydrated, TypeOK
  <2>5. Follows(i)'
    BY <1>1, <2>4 DEF Follows
  <2>6. ~Past(i)'
    BY <1>2, <2>2 DEF Idle, Free, Past
  <2> QED  BY <1>1, <2>5, <2>6 DEF Between, Widens
<1> QED  BY <1>3, <1>4, <1>5, <1>6

LEMMA ProcessingBetween ==
    ASSUME TypeOK, SnapshotsKept, Unspent, NEW i \in Inst, Between(i), ~Active(i) => Idle(i),
           Processing(i) \/ SaveSnapshot(i)
    PROVE  Between(i)' /\ Widens(i)
<1>1. Active(i)
  BY DEF Idle, Free, Processing, Replay, Accumulate, EndOfAnswer, PersistGate, WriteMessage,
         WriteFails, NotifyObservers, NotifyFails, MarkPersisted, SaveSnapshot
<1>2. Follows(i)
  BY <1>1 DEF Between
<1>3. ctx[i].wm \in 0..N /\ N \in Nat
  BY FieldsTyped, NAssumption
<1>4. ASSUME UNCHANGED <<snapshot, answer>>, Accumulated(i), Past(i)' => Past(i)
      PROVE  Between(i)' /\ Widens(i)
  BY <1>1, <1>4, ElsewhereBetween
<1>5. CASE Replay(i)
  <2>1. UNCHANGED <<snapshot, answer, ctx>>
    BY <1>5 DEF Replay, redis
  <2>2. CASE Handled(i)
    <3>1. lock'[i].pc = "free"
      BY <2>2 DEF Handled, TypeOK, Free
    <3> QED  BY <1>4, <2>1, <3>1 DEF Accumulated, Past
  <2>3. CASE lock[i].rec = N
    <3>1. ctx[i].wm = N
      BY <1>3, <1>5, <2>3 DEF Replay
    <3> QED  BY <1>2, <2>1, <3>1 DEF Between, Widens, Follows
  <2> QED  BY <1>5, <2>2, <2>3 DEF Replay
<1>6. CASE Accumulate(i)
  <2>1. PICK r \in Records : /\ r < N
                             /\ ctx' = [ctx EXCEPT ![i].body = @ \union {r}, ![i].wm = r]
    <3>1. lock[i].rec \in Records
      BY <1>6, FieldsTyped DEF Accumulate
    <3> QED  BY <1>6, <3>1 DEF Accumulate
  <2>2. ctx'[i].body = ctx[i].body \union {r} /\ ctx'[i].wm = r
    BY <2>1, ContextAssigned
  <2>3. UNCHANGED <<snapshot, answer>> /\ lock'[i].pc = "free"
    BY <1>6 DEF Accumulate, Handled, TypeOK, Free, redis
  <2>4. r # N
    BY <1>3, <2>1 DEF Records
  <2> QED  BY <1>2, <2>2, <2>3, <2>4 DEF Between, Widens, Follows, Past
<1>7. CASE EndOfAnswer(i)
  <2>1. /\ ctx' = [ctx EXCEPT ![i].wm = N] /\ snapshot' = SnapshotOf(ctx'[i]) /\ UNCHANGED answer
    BY <1>7 DEF EndOfAnswer, SnapshotsKept, Unspent
  <2>2. ctx'[i].body = ctx[i].body /\ ctx'[i].wm = N
    BY <2>1, ContextAssigned
  <2>3. snapshot'.body = ctx[i].body
    BY <2>1, <2>2 DEF SnapshotOf
  <2> QED  BY <1>1, <1>2, <2>1, <2>2, <2>3 DEF Between, Widens, Follows
<1>8. CASE SaveSnapshot(i)
  <2>1. snapshot' = SnapshotOf(ctx[i]) /\ UNCHANGED <<answer, ctx, lock>>
    BY <1>8 DEF SaveSnapshot, Unspent
  <2>2. snapshot'.body = ctx[i].body
    BY <2>1 DEF SnapshotOf
  <2> QED  BY <1>1, <1>2, <2>1, <2>2 DEF Between, Widens, Follows, Past
<1>9. CASE PersistGate(i)
  <2>1. UNCHANGED <<snapshot, answer>> /\ lock[i].pc = "persist" /\ ctx' = [ctx EXCEPT ![i].gate = TRUE]
    BY <1>9 DEF PersistGate, redis
  <2>2. Accumulated(i) /\ Past(i)
    BY <2>1, ContextAssigned DEF Past
  <2> QED  BY <1>4, <2>1, <2>2
<1>10. CASE WriteMessage(i)
  <2>1. UNCHANGED <<snapshot, ctx>> /\ lock[i].pc = "write" /\ answer'.body = ctx[i].body
    BY <1>10 DEF WriteMessage, TypeOK, AnswerType, redis
  <2>2. ctx[i].wm = N
    BY <2>1 DEF Between, Past
  <2> QED  BY <1>2, <2>1, <2>2 DEF Between, Widens, Follows
<1>11. CASE WriteFails(i) \/ NotifyFails(i)
  <2>1. UNCHANGED <<snapshot, answer>> /\ lock'[i].pc = "free"
    BY <1>11 DEF WriteFails, NotifyFails, TypeOK, Free, redis
  <2>2. UNCHANGED ctx \/ ctx' = [ctx EXCEPT ![i].gate = FALSE]
    BY <1>11 DEF WriteFails, NotifyFails
  <2>3. Accumulated(i)
    BY <2>2, ContextAssigned DEF Accumulated
  <2> QED  BY <1>4, <2>1, <2>3 DEF Past
<1>12. CASE NotifyObservers(i)
  <2>1. UNCHANGED <<snapshot, ctx>> /\ lock[i].pc = "notify"
    BY <1>12 DEF NotifyObservers, redis
  <2>2. answer'.saved = answer.saved /\ answer'.body = answer.body
    BY <1>12 DEF NotifyObservers, TypeOK, AnswerType
  <2>3. ctx[i].wm = N
    BY <2>1 DEF Between, Past
  <2> QED  BY <1>2, <2>1, <2>2, <2>3 DEF Between, Widens, Follows
<1>13. CASE MarkPersisted(i)
  <2>1. UNCHANGED <<snapshot, answer, ctx>> /\ lock'[i].pc = "free"
    BY <1>13 DEF MarkPersisted, Handled, TypeOK, Free
  <2> QED  BY <1>4, <2>1 DEF Accumulated, Past
<1> QED
  BY <1>5, <1>6, <1>7, <1>8, <1>9, <1>10, <1>11, <1>12, <1>13 DEF Processing

LEMMA DownBetween ==
    ASSUME TypeOK, NEW i \in Inst, Down(i)
    PROVE  Between(i)' /\ Widens(i)
<1>1. /\ UNCHANGED <<snapshot, answer>> /\ listener'[i] = "none" /\ rec'[i].pc = "idle"
      /\ lock'[i].pc = "free"
  BY DEF Down, TypeOK, NoRec, Free, redis
<1> QED  BY <1>1 DEF Between, Widens, Past, Active, Paused

LEMMA BetweenStep ==
    ASSUME TypeOK, LeaseOfActive, CleanupAcked, SnapshotsKept, Unspent, OneTakeover, OnePlace,
           SnapshotBetween, [Next]_vars
    PROVE  SnapshotBetween'
<1> SUFFICES ASSUME ~TerminalAcked'
             PROVE  /\ answer'.saved => answer'.body \subseteq snapshot'.body
                    /\ \A i \in Inst : Between(i)'
  BY DEF SnapshotBetween, Between, Past
<1>1. /\ ~TerminalAcked
      /\ answer.saved => answer.body \subseteq snapshot.body
      /\ \A i \in Inst : Between(i) /\ (~Active(i) => Idle(i))
  BY AckedForGood DEF SnapshotBetween, Between, Past, OnePlace
<1>2. CASE UNCHANGED vars \/ Produce \/ Keys
  <2>1. UNCHANGED <<snapshot, answer, ctx, lock, listener, rec>>
    BY <1>2 DEF vars, redis, local, Produce, Keys, HeartbeatLapses, LeaseLapses, RecoveryLockLapses
  <2>2. \A i \in Inst : Between(i)'
    BY <1>1, <2>1 DEF Between, Past, Active, Paused, Follows
  <2> QED  BY <1>1, <2>1, <2>2
<1>3. ASSUME NEW i \in Inst, Step(i)
      PROVE  /\ answer'.saved => answer'.body \subseteq snapshot'.body
             /\ \A j \in Inst : Between(j)'
  <2>1. ~Cleaning(i)
    BY <1>1 DEF Cleaning, CleanupSnapshot, CompleteTurn, CleanupAcked
  <2>2. Between(i)' /\ Widens(i)
    BY <1>1, <1>3, <2>1, StepsLeft, ThreadBetween, RecoveryBetween, ProcessingBetween, DownBetween
    DEF Crash
  <2>3. ASSUME NEW j \in Inst \ {i} PROVE Between(j)'
    <3>1. HandsKept(j) /\ TasksKept(j)
      BY <1>3, StepElsewhere
    <3>2. /\ Active(j)' = Active(j) /\ rec'[j] = rec[j] /\ Past(j)' = Past(j) /\ ctx'[j] = ctx[j]
      BY <3>1 DEF HandsKept, TasksKept, Active, Paused, Past
    <3>3. CASE UNCHANGED snapshot
      BY <1>1, <3>2, <3>3 DEF Between, Follows
    <3>4. CASE Active(i)
      <4>1. ~Active(j) /\ rec[j].pc # "hydrated"
        BY <3>4, LoneActive DEF OneTakeover, Recovers, NoneActive
      <4> QED  BY <1>1, <3>2, <4>1 DEF Between
    <3> QED  BY <2>2, <3>3, <3>4 DEF Widens
  <2> QED  BY <1>1, <2>2, <2>3 DEF Widens
<1> QED  BY <1>2, <1>3 DEF Next, Step

LEMMA ShrinkStart ==
    Init => Budgeted /\ ShrinkInv
<1> SUFFICES ASSUME Init PROVE Budgeted /\ ShrinkInv
  OBVIOUS
<1>1. Budgeted
  BY BoundsAssumption DEF Init, Budgeted, Budget, FaultKinds
<1>2. PICK o \in Inst :
          /\ runtime = Running(o)
          /\ listener = [j \in Inst |-> IF j = o THEN "live" ELSE "none"]
          /\ ctx = [j \in Inst |-> [NoCtx EXCEPT !.held = (j = o)]]
  BY DEF Init
<1>3. \A j \in Inst : Active(j) <=> j = o
  BY <1>2 DEF Active, Paused
<1>4. OneTakeover
  BY <1>2, <1>3 DEF Init, OneTakeover, Quiet, Tended, Cleans, Recovers, Running, NoCtx, NoRec, NoClaim
<1>5. ~TerminalAcked
  BY NAssumption DEF Init, TerminalAcked
<1>6. OnePlace
  BY <1>2, <1>3, <1>5 DEF Init, OnePlace, Idle, Placed, Paused, Nothing, Threads, Free, NoCtx
<1>7. SnapshotBetween
  BY <1>2, NAssumption DEF Init, SnapshotBetween, Follows, NoCtx, NoSnapshot, Free
<1> QED  BY <1>1, <1>4, <1>6, <1>7 DEF ShrinkInv

\* Only a thread that has the terminal record in hand writes the message.
LEMMA RewriteStep ==
    ASSUME IInv, SnapshotsKept, OnePlace, SnapshotBetween, [Next]_vars, answer.saved
    PROVE  answer.body \subseteq answer'.body
<1>0. TypeOK
  BY DEF IInv
<1>1. ASSUME NEW i \in Inst, WriteMessage(i) PROVE answer.body \subseteq answer'.body
  <2>1. lock[i].pc = "write" /\ answer'.body = ctx[i].body
    BY <1>0, <1>1 DEF WriteMessage, TypeOK, AnswerType
  <2>2. ~TerminalAcked
    BY <2>1 DEF IInv, TerminalProduced, OnePlace, Nowhere
  <2>3. Active(i)
    BY <2>1, <2>2 DEF OnePlace, Idle, Free
  <2>4. ctx[i].wm = N /\ Follows(i)
    BY <2>1, <2>2, <2>3 DEF SnapshotBetween
  <2> QED  BY <2>1, <2>2, <2>4 DEF SnapshotBetween, Follows
<1>2. ASSUME NEW i \in Inst, NotifyObservers(i) PROVE answer.body \subseteq answer'.body
  BY <1>0, <1>2 DEF NotifyObservers, TypeOK, AnswerType
<1> QED  BY <1>1, <1>2, AnswerWritten

(***************************************************************************)
(* A terminal record processed again, after crashes, failed writes and     *)
(* failed observers, writes an answer that has every delta of the one it   *)
(* replaces (StreamRecordProcessor, RunningChatSnapshotService): whoever   *)
(* writes follows the stored snapshot, and the answer never leaves it.     *)
(***************************************************************************)
THEOREM NeverShrinks == Spec => AnswerNeverShrinks
<1> DEFINE Inv == /\ IInv /\ LeaseOfActive /\ TerminalRead /\ CleanupAcked
                  /\ Budgeted /\ ShrinkInv
<1>1. Init => Inv
  <2>1. Init => TerminalRead /\ CleanupAcked
    <3>1. N \in Records /\ Free.rec # N
      BY NAssumption DEF Records, Free
    <3> QED  BY <3>1 DEF Init, TerminalRead, CleanupAcked, Nowhere, Nothing
  <2> QED  BY <2>1, SafeStart, LeaseStart, ShrinkStart
<1>2. Inv /\ [Next]_vars => Inv'
  <2> SUFFICES ASSUME Inv, [Next]_vars PROVE Inv'
    OBVIOUS
  <2>1. TypeOK
    BY DEF IInv
  <2>2. IInv' /\ LeaseOfActive' /\ TerminalRead' /\ CleanupAcked' /\ Budgeted'
    BY <2>1, SafeStep, LeaseStep, TerminalReadKept, CleanupKept, BudgetStep
  <2>3. ShrinkInv'
    <3> SUFFICES ASSUME SnapshotsKept' PROVE (OneTakeover /\ OnePlace /\ SnapshotBetween)'
      BY DEF ShrinkInv
    <3>1. SnapshotsKept /\ Unspent
      BY <2>1, KeptBefore
    <3>2. OneTakeover /\ OnePlace /\ SnapshotBetween
      BY <3>1 DEF ShrinkInv
    <3> QED  BY <2>1, <3>1, <3>2, TakeoverStep, OnePlaceStep, BetweenStep
  <2> QED  BY <2>2, <2>3
<1>3. Inv /\ [Next]_vars => (answer.saved /\ SnapshotsKept => answer.body \subseteq answer'.body)
  BY RewriteStep DEF ShrinkInv
<1>4. Inv /\ [Next]_vars => [answer.saved /\ SnapshotsKept => answer.body \subseteq answer'.body]_vars
  BY <1>3
<1> QED  BY <1>1, <1>2, <1>4, PTL DEF Spec, AnswerNeverShrinks
=============================================================================

--------------------- MODULE SnapshotWriteBehind_proofs ---------------------
(***************************************************************************)
(* SnapshotWriteBehind for any callers, scheduler threads and calls: the   *)
(* projections of a key are written one at a time and never replaced by    *)
(* older ones, the types hold, and at rest everything accepted is saved.   *)
(***************************************************************************)
EXTENDS SnapshotWriteBehind, FiniteSetTheorems, TLAPS

Pcs == {"idle", "enqueue", "flush", "offer", "supersede", "flushLock", "flushBuild", "flushWrite",
        "flushEnd", "drainLock", "drainCheck", "drainBuild", "drainWrite", "drainEnd", "closing"}
Pendings == [latest : BOOLEAN, future : {"none", "scheduled", "running", "cancelled"},
             terminal : BOOLEAN, flushers : Int, writer : Threads \union {None}]
Places == [pc : Pcs, state : States \union {NoState}, read : Nat]

AtState(t) == thread[t].pc \notin {"idle", "enqueue", "flush", "closing"}
Holding(t) == thread[t].pc \in {"flushBuild", "flushWrite", "flushEnd",
                                "drainCheck", "drainBuild", "drainWrite", "drainEnd"}
Flushing(t) == thread[t].pc \in {"flushLock", "flushBuild", "flushWrite", "flushEnd"}
Flushers(s) == {t \in Threads : Flushing(t) /\ thread[t].state = s}

Typed ==
    /\ version \in Nat /\ states \in States \union {NoState} /\ made \in 0..(2 * MaxCalls)
    /\ pending \in [States -> Pendings] /\ thread \in [Threads -> Places]
    /\ \A t \in Threads : AtState(t) => thread[t].state \in States

\* Who works on a PendingState under its write lock has that lock,
LockInv == \A t \in Threads : Holding(t) => pending[thread[t].state].writer = t
\* the flushers are counted,
CountInv == \A s \in States : pending[s].flushers = Cardinality(Flushers(s))
\* each of them has made the state terminal,
TerminalInv == \A t \in Threads : Flushing(t) => pending[thread[t].state].terminal
\* and a state that is waited for by a flusher, or is being written, is the map's.
MapInv == ~abandoned => \A t \in Threads : Flushing(t) \/ Writing(t) => thread[t].state = states

WriterInv == Typed /\ LockInv /\ CountInv /\ TerminalInv /\ MapInv

LEMMA ThreadsFinite == IsFiniteSet(Threads)
BY ThreadsAssumption, FS_Union, FS_Singleton DEF Threads

LEMMA FlushersFinite == \A s : IsFiniteSet(Flushers(s))
<1>1. \A s : Flushers(s) \subseteq Threads
  BY DEF Flushers
<1> QED  BY <1>1, ThreadsFinite, FS_Subset

\* The invariant gives the property: two writers would hold the lock of one state.
LEMMA WriterInvSuffices == WriterInv => OneWriter
<1> SUFFICES ASSUME WriterInv, ~abandoned, NEW t \in Threads, NEW u \in Threads,
                    Writing(t), Writing(u)
             PROVE  t = u
  BY DEF OneWriter
<1>1. Holding(t) /\ Holding(u)
  BY DEF Writing, Holding
<1>2. thread[t].state = states /\ thread[u].state = states
  BY DEF WriterInv, MapInv
<1> QED  BY <1>1, <1>2 DEF WriterInv, LockInv

\* Only thread t moves, to pc and state.
Moves(t, pc, state) ==
    /\ thread' \in [Threads -> Places]
    /\ \A u \in Threads \ {t} : thread'[u] = thread[u]
    /\ thread'[t].pc = pc /\ thread'[t].state = state

LEMMA GotoMoves ==
    ASSUME Typed, NEW t \in Threads, NEW pc \in Pcs, Goto(t, pc)
    PROVE  Moves(t, pc, thread[t].state)
BY DEF Typed, Goto, Moves, Places

LEMMA ReturnMoves ==
    ASSUME Typed, NEW t \in Threads, Return(t)
    PROVE  Moves(t, "idle", NoState)
<1>1. Idle \in Places
  BY DEF Idle, Places, Pcs
<1> QED  BY <1>1 DEF Typed, Return, Moves, Idle

\* Every field of a PendingState but writer, and the map, stay as they are.
Keeps ==
    /\ states' = states /\ abandoned' = abandoned
    /\ \A s \in States : pending'[s].flushers = pending[s].flushers
                         /\ (pending[s].terminal => pending'[s].terminal)

\* A thread moves on and counts as a flusher of its state as before.
LEMMA MoveKeeps ==
    ASSUME WriterInv, NEW t \in Threads, NEW pc \in Pcs, NEW state, Moves(t, pc, state), Keeps,
           Flushing(t)' <=> Flushing(t), Flushing(t) => state = thread[t].state,
           Writing(t)' /\ ~abandoned => state = states,
           Holding(t)' => pending'[state].writer = t,
           \A u \in Threads \ {t} : Holding(u) => pending'[thread[u].state].writer = u
    PROVE  LockInv' /\ CountInv' /\ TerminalInv' /\ MapInv'
<1>1. /\ \A u \in Threads \ {t} : /\ thread'[u] = thread[u]
                                  /\ (Holding(u)' <=> Holding(u)) /\ (Flushing(u)' <=> Flushing(u))
                                  /\ (Writing(u)' <=> Writing(u))
      /\ thread'[t].state = state
  BY DEF Moves, Holding, Flushing, Writing
<1>2. LockInv'
  BY <1>1 DEF LockInv
<1>3. \A s : Flushers(s)' = Flushers(s)
  BY <1>1 DEF Flushers
<1>4. CountInv'
  BY <1>3 DEF WriterInv, CountInv, Keeps
<1>5. TerminalInv'
  <2>1. \A u \in Threads : Flushing(u) => thread[u].state \in States
    BY DEF WriterInv, Typed, Flushing, AtState
  <2> QED  BY <1>1, <2>1 DEF WriterInv, TerminalInv, Keeps
<1>6. MapInv'
  BY <1>1 DEF WriterInv, MapInv, Keeps
<1> QED  BY <1>2, <1>4, <1>5, <1>6

\* One PendingState changes.
LEMMA OnePending ==
    ASSUME Typed, NEW s \in States, NEW r \in Pendings, pending' = [pending EXCEPT ![s] = r]
    PROVE  /\ pending' \in [States -> Pendings] /\ pending'[s] = r
           /\ \A x \in States \ {s} : pending'[x] = pending[x]
BY DEF Typed

LEMMA PendingFields ==
    ASSUME NEW r \in Pendings
    PROVE  /\ r.latest \in BOOLEAN /\ r.future \in {"none", "scheduled", "running", "cancelled"}
           /\ r.terminal \in BOOLEAN /\ r.flushers \in Int /\ r.writer \in Threads \union {None}
           /\ r = [latest |-> r.latest, future |-> r.future, terminal |-> r.terminal,
                   flushers |-> r.flushers, writer |-> r.writer]
BY DEF Pendings

\* Its queue changes.
LEMMA QueueField ==
    ASSUME NEW r \in Pendings, NEW l \in BOOLEAN, NEW f \in {"none", "scheduled", "running", "cancelled"}
    PROVE  LET q == [r EXCEPT !.latest = l, !.future = f] IN
           q \in Pendings /\ q.writer = r.writer /\ q.flushers = r.flushers /\ q.terminal = r.terminal
BY PendingFields DEF Pendings

\* Enqueue, FlushNow: a call begins.
LEMMA CallKeeps ==
    ASSUME WriterInv, NEW c \in Callers, Enqueue(c) \/ FlushNow(c)
    PROVE  WriterInv'
<1>1. PICK pc \in {"enqueue", "flush"} :
         /\ thread[c].pc = "idle" /\ version' = version + 1 /\ Goto(c, pc)
         /\ UNCHANGED <<states, made, pending, shuttingDown, saved>>
  BY DEF Enqueue, FlushNow
<1>2. c \in Threads /\ pc \in Pcs
  BY DEF Threads, Pcs
<1>3. Moves(c, pc, thread[c].state)
  BY <1>1, <1>2, GotoMoves DEF WriterInv
<1>4. Typed'
  BY <1>1, <1>2, <1>3 DEF WriterInv, Typed, Moves, AtState
<1>5. LockInv' /\ CountInv' /\ TerminalInv' /\ MapInv'
  BY <1>1, <1>2, <1>3, MoveKeeps
  DEF WriterInv, LockInv, Moves, Keeps, Flushing, Writing, Holding, saved
<1> QED  BY <1>4, <1>5 DEF WriterInv

LEMMA GetStateKeeps ==
    ASSUME WriterInv, NEW c \in Callers, GetState(c)
    PROVE  WriterInv'
<1> DEFINE s == IF states = NoState THEN made + 1 ELSE states
           pc == IF thread[c].pc = "enqueue" THEN "offer" ELSE "supersede"
<1>1. /\ thread[c].pc \in {"enqueue", "flush"} /\ made < 2 * MaxCalls /\ states' = s
      /\ made' = IF states = NoState THEN made + 1 ELSE made
      /\ thread' = [thread EXCEPT ![c].state = s,
                                  ![c].pc = IF @ = "enqueue" THEN "offer" ELSE "supersede"]
      /\ UNCHANGED <<version, pending, abandoned>>
  BY DEF GetState, saved
<1>2. c \in Threads
  BY DEF Threads
<1>3. s \in States /\ made' \in 0..(2 * MaxCalls)
  BY <1>1, CallsAssumption DEF WriterInv, Typed, States
<1>4. Moves(c, pc, s)
  BY <1>1, <1>2, <1>3 DEF WriterInv, Typed, Moves, Places, Pcs
<1>5. Typed'
  BY <1>1, <1>2, <1>3, <1>4 DEF WriterInv, Typed, Moves, AtState
<1>6. /\ \A u \in Threads \ {c} : thread'[u] = thread[u]
      /\ ~Holding(c)' /\ ~Flushing(c)' /\ ~Writing(c)' /\ ~Flushing(c)
  BY <1>1, <1>4 DEF Moves, Holding, Flushing, Writing
<1> HIDE DEF s, pc
<1>7. LockInv'
  BY <1>1, <1>6 DEF WriterInv, LockInv, Holding
<1>8. \A x : Flushers(x)' = Flushers(x)
  BY <1>6 DEF Flushers, Flushing
<1>9. CountInv' /\ TerminalInv'
  BY <1>1, <1>6, <1>8 DEF WriterInv, CountInv, TerminalInv, Flushing
<1>10. MapInv'
  <2> SUFFICES ASSUME ~abandoned', NEW u \in Threads, Flushing(u)' \/ Writing(u)'
               PROVE  thread'[u].state = states'
    BY DEF MapInv
  <2>1. u # c /\ thread'[u] = thread[u] /\ (Flushing(u) \/ Writing(u))
    BY <1>6 DEF Flushing, Writing
  <2>2. thread[u].state = states
    BY <1>1, <2>1 DEF WriterInv, MapInv
  <2>3. thread[u].state \in States
    BY <2>1 DEF WriterInv, Typed, AtState, Flushing, Writing
  <2>4. states # NoState
    BY <2>2, <2>3, CallsAssumption DEF States, NoState
  <2> QED  BY <1>1, <2>1, <2>2, <2>4 DEF s
<1> QED  BY <1>5, <1>7, <1>9, <1>10 DEF WriterInv

LEMMA OfferKeeps ==
    ASSUME WriterInv, NEW c \in Callers, Offer(c)
    PROVE  WriterInv'
<1> DEFINE s == thread[c].state
<1>1. thread[c].pc = "offer" /\ UNCHANGED <<version, made>>
  BY DEF Offer
<1>2. c \in Threads
  BY DEF Threads
<1>3. s \in States
  BY <1>1, <1>2 DEF WriterInv, Typed, AtState
<1>4. ~Holding(c) /\ ~Flushing(c) /\ ~Writing(c)
  BY <1>1 DEF Holding, Flushing, Writing
<1>5. ASSUME NEW pc \in {"enqueue", "idle"}, NEW x, Moves(c, pc, x),
             states' \in States \union {NoState}, pending' = pending
      PROVE  Typed' /\ LockInv' /\ CountInv' /\ TerminalInv'
  <2>1. /\ \A u \in Threads \ {c} : thread'[u] = thread[u]
        /\ ~AtState(c)' /\ ~Holding(c)' /\ ~Flushing(c)' /\ ~Writing(c)'
    BY <1>5 DEF Moves, AtState, Holding, Flushing, Writing
  <2>2. Typed'
    BY <1>1, <1>5, <2>1 DEF WriterInv, Typed, Moves, AtState
  <2>3. \A y : Flushers(y)' = Flushers(y)
    BY <1>4, <2>1 DEF Flushers, Flushing
  <2>4. LockInv' /\ CountInv' /\ TerminalInv'
    BY <1>5, <2>1, <2>3 DEF WriterInv, LockInv, CountInv, TerminalInv, Holding, Flushing
  <2> QED  BY <2>2, <2>4
<1>6. ASSUME NEW pc \in {"enqueue", "idle"}, NEW x, Moves(c, pc, x), states' = states,
             abandoned' = abandoned
      PROVE  MapInv'
  <2>1. \A u \in Threads : Flushing(u)' \/ Writing(u)' =>
            u # c /\ thread'[u] = thread[u] /\ (Flushing(u) \/ Writing(u))
    BY <1>6 DEF Moves, Flushing, Writing
  <2> QED  BY <1>6, <2>1 DEF WriterInv, MapInv
<1>7. states \in States \union {NoState} /\ NoState \in States \union {NoState}
  BY DEF WriterInv, Typed
<1>8. CASE Return(c) /\ UNCHANGED <<states, pending, accepted, abandoned>>
  BY <1>2, <1>5, <1>6, <1>7, <1>8, ReturnMoves DEF WriterInv
<1>9. CASE Goto(c, "enqueue") /\ UNCHANGED <<states, pending, accepted, abandoned>>
  <2>1. Moves(c, "enqueue", s)
    BY <1>2, <1>9, GotoMoves DEF WriterInv, Pcs
  <2> QED  BY <1>5, <1>6, <1>7, <1>9, <2>1 DEF WriterInv
<1>10. CASE /\ Return(c) /\ ~pending[s].terminal /\ states = s
            /\ states' = NoState /\ abandoned' = (abandoned \/ Written(s)) /\ pending' = pending
  <2>1. Moves(c, "idle", NoState)
    BY <1>2, <1>10, ReturnMoves DEF WriterInv
  <2>2. MapInv'
    <3> SUFFICES ASSUME ~abandoned', NEW u \in Threads, Flushing(u)' \/ Writing(u)' PROVE FALSE
      BY DEF MapInv
    <3>1. thread'[u] = thread[u] /\ (Flushing(u) \/ Writing(u))
      BY <2>1 DEF Moves, Flushing, Writing
    <3>2. ~abandoned /\ ~Written(s)
      BY <1>10
    <3>3. thread[u].state = s
      BY <1>10, <3>1, <3>2 DEF WriterInv, MapInv
    <3> QED  BY <1>10, <3>1, <3>2, <3>3 DEF WriterInv, TerminalInv, Written
  <2> QED  BY <1>5, <1>7, <1>10, <2>1, <2>2 DEF WriterInv
<1>11. CASE /\ Return(c) /\ UNCHANGED <<states, abandoned>>
            /\ pending' = [pending EXCEPT ![s].latest = TRUE,
                              ![s].future = IF @ = "none" THEN "scheduled" ELSE @]
  <2>1. Moves(c, "idle", NoState)
    BY <1>2, <1>11, ReturnMoves DEF WriterInv
  <2>2. /\ pending' \in [States -> Pendings]
        /\ \A x \in States : /\ pending'[x].writer = pending[x].writer
                             /\ pending'[x].flushers = pending[x].flushers
                             /\ pending'[x].terminal = pending[x].terminal
    <3> DEFINE r == pending[s]
               f == IF r.future = "none" THEN "scheduled" ELSE r.future
               q == [r EXCEPT !.latest = TRUE, !.future = f]
    <3>1. r \in Pendings
      BY <1>3 DEF WriterInv, Typed
    <3>2. f \in {"none", "scheduled", "running", "cancelled"}
      BY <3>1, PendingFields
    <3>3. pending' = [pending EXCEPT ![s] = q]
      BY <1>11
    <3> HIDE DEF f
    <3>4. q \in Pendings /\ q.writer = r.writer /\ q.flushers = r.flushers /\ q.terminal = r.terminal
      BY <3>1, <3>2, QueueField
    <3> HIDE DEF q
    <3>5. pending' \in [States -> Pendings] /\ pending'[s] = q
          /\ \A x \in States \ {s} : pending'[x] = pending[x]
      BY <1>3, <3>3, <3>4, OnePending DEF WriterInv
    <3> QED  BY <3>4, <3>5
  <2>3. Typed'
    BY <1>1, <1>11, <2>1, <2>2 DEF WriterInv, Typed, Moves, AtState
  <2>4. \A u \in Threads : Holding(u) => thread[u].state \in States
    BY DEF WriterInv, Typed, AtState, Holding
  <2>5. LockInv' /\ CountInv' /\ TerminalInv' /\ MapInv'
    <3>1. Keeps
      BY <1>11, <2>2 DEF Keeps
    <3>2. ~Holding(c)' /\ ~Flushing(c)' /\ ~Writing(c)'
      BY <2>1 DEF Moves, Holding, Flushing, Writing
    <3>3. \A u \in Threads \ {c} : Holding(u) => pending'[thread[u].state].writer = u
      BY <2>2, <2>4 DEF WriterInv, LockInv
    <3> QED  BY <1>2, <1>4, <2>1, <3>1, <3>2, <3>3, MoveKeeps DEF Pcs
  <2> QED  BY <2>3, <2>5 DEF WriterInv
<1> QED  BY <1>8, <1>9, <1>10, <1>11 DEF Offer

\* Its writer changes, its queue is emptied, or a drain or a flusher ends.
LEMMA WriterField ==
    ASSUME NEW r \in Pendings, NEW w \in Threads \union {None}
    PROVE  LET q == [r EXCEPT !.writer = w] IN
           q \in Pendings /\ q.writer = w /\ q.flushers = r.flushers /\ q.terminal = r.terminal
BY PendingFields DEF Pendings

LEMMA FutureField ==
    ASSUME NEW r \in Pendings, NEW f \in {"none", "scheduled", "running", "cancelled"}
    PROVE  LET q == [r EXCEPT !.future = f] IN
           q \in Pendings /\ q.writer = r.writer /\ q.flushers = r.flushers /\ q.terminal = r.terminal
BY PendingFields DEF Pendings

LEMMA LatestField ==
    ASSUME NEW r \in Pendings
    PROVE  LET q == [r EXCEPT !.latest = FALSE] IN
           q \in Pendings /\ q.writer = r.writer /\ q.flushers = r.flushers /\ q.terminal = r.terminal
BY PendingFields DEF Pendings

LEMMA DrainEndFields ==
    ASSUME NEW r \in Pendings, NEW f \in {"none", "scheduled", "running", "cancelled"}
    PROVE  LET q == [r EXCEPT !.writer = None, !.future = f] IN
           q \in Pendings /\ q.writer = None /\ q.flushers = r.flushers /\ q.terminal = r.terminal
BY PendingFields DEF Pendings

LEMMA FlushEndFields ==
    ASSUME NEW r \in Pendings, NEW n \in Int
    PROVE  LET q == [r EXCEPT !.flushers = n, !.writer = None] IN
           q \in Pendings /\ q.writer = None /\ q.flushers = n /\ q.terminal = r.terminal
BY PendingFields DEF Pendings

LEMMA SupersedeFields ==
    ASSUME NEW r \in Pendings, NEW n \in Int
    PROVE  LET q == [r EXCEPT !.terminal = TRUE, !.flushers = n, !.future = "none", !.latest = FALSE] IN
           q \in Pendings /\ q.writer = r.writer /\ q.flushers = n /\ q.terminal = TRUE
BY PendingFields DEF Pendings

\* What the changes have in common: PendingState s has writer w, n flushers and
\* is terminal if it was; no other one changes.
Updates(s, w, n) ==
    /\ pending' \in [States -> Pendings]
    /\ pending'[s].writer = w /\ pending'[s].flushers = n
    /\ pending[s].terminal => pending'[s].terminal
    /\ \A x \in States \ {s} : pending'[x] = pending[x]

LEMMA UpdatesBy ==
    ASSUME Typed, NEW s \in States, NEW q \in Pendings, pending' = [pending EXCEPT ![s] = q],
           pending[s].terminal => q.terminal
    PROVE  Updates(s, q.writer, q.flushers)
BY OnePending DEF Updates

LEMMA StateTyped ==
    ASSUME WriterInv, NEW t \in Threads, AtState(t)
    PROVE  thread[t].state \in States /\ pending[thread[t].state] \in Pendings
BY DEF WriterInv, Typed

LEMMA HolderAtState ==
    ASSUME WriterInv
    PROVE  \A u \in Threads : Holding(u) \/ Flushing(u) \/ Writing(u) =>
               AtState(u) /\ thread[u].state \in States
BY DEF WriterInv, Typed, AtState, Holding, Flushing, Writing

LEMMA SupersedeKeeps ==
    ASSUME WriterInv, NEW c \in Callers, Supersede(c)
    PROVE  WriterInv'
<1> SUFFICES ASSUME NEW s, s = thread[c].state PROVE WriterInv'
  OBVIOUS
<1> DEFINE r == pending[s]
<1>1. /\ thread[c].pc = "supersede" /\ UNCHANGED <<version, states, made, abandoned>>
  BY DEF Supersede, saved
<1>2. c \in Threads
  BY DEF Threads
<1>3. s \in States /\ r \in Pendings
  BY <1>1, <1>2, StateTyped DEF AtState
<1>4. ~Holding(c) /\ ~Flushing(c) /\ ~Writing(c)
  BY <1>1 DEF Holding, Flushing, Writing
<1>5. CASE Goto(c, "flush") /\ UNCHANGED pending
  <2>1. Moves(c, "flush", s)
    BY <1>2, <1>5, GotoMoves DEF WriterInv, Pcs
  <2>2. Typed'
    BY <1>1, <1>2, <1>5, <2>1 DEF WriterInv, Typed, Moves, AtState
  <2>3. ~Holding(c)' /\ ~Flushing(c)' /\ ~Writing(c)' /\ Keeps
    BY <1>1, <1>5, <2>1 DEF Moves, Holding, Flushing, Writing, Keeps
  <2>4. \A u \in Threads \ {c} : Holding(u) => pending'[thread[u].state].writer = u
    BY <1>5 DEF WriterInv, LockInv
  <2>5. LockInv' /\ CountInv' /\ TerminalInv' /\ MapInv'
    BY <1>2, <1>4, <2>1, <2>3, <2>4, MoveKeeps DEF Pcs
  <2> QED  BY <2>2, <2>5 DEF WriterInv
<1>6. CASE /\ states = s /\ Goto(c, "flushLock")
           /\ pending' = [pending EXCEPT ![s].terminal = TRUE, ![s].flushers = @ + 1,
                                         ![s].future = "none", ![s].latest = FALSE]
  <2> DEFINE n == r.flushers + 1
             q == [r EXCEPT !.terminal = TRUE, !.flushers = n, !.future = "none", !.latest = FALSE]
  <2>1. Moves(c, "flushLock", s)
    BY <1>2, <1>6, GotoMoves DEF WriterInv, Pcs
  <2>2. n \in Int
    BY <1>3, PendingFields
  <2>3. pending' = [pending EXCEPT ![s] = q]
    BY <1>6
  <2>4. q \in Pendings /\ q.writer = r.writer /\ q.flushers = n /\ q.terminal = TRUE
    <3> HIDE DEF n
    <3> QED  BY <1>3, <2>2, SupersedeFields
  <2> HIDE DEF q
  <2>5. pending' \in [States -> Pendings] /\ pending'[s] = q
        /\ \A x \in States \ {s} : pending'[x] = pending[x]
    BY <1>3, <2>3, <2>4, OnePending DEF WriterInv
  <2>6. Typed'
    BY <1>1, <1>2, <1>3, <2>1, <2>5 DEF WriterInv, Typed, Moves, AtState
  <2>7. /\ \A u \in Threads \ {c} : thread'[u] = thread[u]
        /\ thread'[c].state = s /\ Flushing(c)' /\ ~Holding(c)' /\ ~Writing(c)'
    BY <2>1 DEF Moves, Flushing, Holding, Writing
  <2>8. LockInv'
    <3>1. \A u \in Threads : Holding(u)' =>
             u # c /\ thread'[u] = thread[u] /\ Holding(u) /\ thread[u].state \in States
      BY <2>7, HolderAtState DEF Holding
    <3>2. \A u \in Threads : Holding(u)' => pending[thread[u].state].writer = u
      BY <3>1 DEF WriterInv, LockInv
    <3> QED  BY <2>4, <2>5, <3>1, <3>2 DEF LockInv
  <2>9. CountInv'
    <3>1. \A x \in States \ {s} : Flushers(x)' = Flushers(x)
      BY <1>4, <2>7 DEF Flushers, Flushing
    <3>2. Flushers(s)' = Flushers(s) \union {c} /\ c \notin Flushers(s)
      BY <1>2, <1>4, <2>7 DEF Flushers, Flushing
    <3>3. Cardinality(Flushers(s)') = Cardinality(Flushers(s)) + 1
      BY <3>2, FlushersFinite, FS_AddElement
    <3>4. \A x \in States : pending[x].flushers = Cardinality(Flushers(x))
      BY DEF WriterInv, CountInv
    <3>5. pending'[s].flushers = Cardinality(Flushers(s)')
      BY <1>3, <2>4, <2>5, <3>3, <3>4
    <3>6. \A x \in States \ {s} : pending'[x].flushers = Cardinality(Flushers(x)')
      BY <2>5, <3>1, <3>4
    <3> QED  BY <3>5, <3>6 DEF CountInv
  <2>10. TerminalInv'
    <3>1. \A u \in Threads \ {c} : Flushing(u)' =>
             thread'[u] = thread[u] /\ Flushing(u) /\ thread[u].state \in States
      BY <2>7, HolderAtState DEF Flushing
    <3> QED  BY <2>4, <2>5, <2>7, <3>1 DEF WriterInv, TerminalInv
  <2>11. MapInv'
    <3>1. \A u \in Threads \ {c} : Flushing(u)' \/ Writing(u)' =>
             thread'[u] = thread[u] /\ (Flushing(u) \/ Writing(u))
      BY <2>7 DEF Flushing, Writing
    <3> QED  BY <1>1, <1>6, <2>7, <3>1 DEF WriterInv, MapInv
  <2> QED  BY <2>6, <2>8, <2>9, <2>10, <2>11 DEF WriterInv
<1> QED  BY <1>5, <1>6 DEF Supersede

\* A thread that gives the lock of state s back, and is not a flusher of it any more.
LEMMA EndKeeps ==
    ASSUME WriterInv, NEW t \in Threads, NEW s \in States, thread[t].state = s, Holding(t),
           Moves(t, "idle", NoState), UNCHANGED <<version, made, abandoned>>,
           states' = states \/ (states' = NoState /\ states = s /\ pending'[s].flushers = 0),
           Updates(s, None, Cardinality(Flushers(s) \ {t}))
    PROVE  WriterInv'
<1>1. /\ \A u \in Threads \ {t} : thread'[u] = thread[u]
      /\ ~AtState(t)' /\ ~Holding(t)' /\ ~Flushing(t)' /\ ~Writing(t)'
  BY DEF Moves, AtState, Holding, Flushing, Writing
<1>2. Typed'
  BY <1>1 DEF WriterInv, Typed, Moves, Updates, AtState
<1>3. \A u \in Threads \ {t} : Holding(u) => thread[u].state # s
  BY DEF WriterInv, LockInv
<1>4. LockInv'
  <2>1. \A u \in Threads : Holding(u)' =>
           u # t /\ thread'[u] = thread[u] /\ Holding(u) /\ thread[u].state \in States
    BY <1>1, HolderAtState DEF Holding
  <2> QED  BY <1>3, <2>1 DEF WriterInv, LockInv, Updates
<1>5. Flushers(s)' = Flushers(s) \ {t} /\ \A x \in States \ {s} : Flushers(x)' = Flushers(x)
  BY <1>1 DEF Flushers, Flushing
<1>6. CountInv'
  BY <1>5 DEF WriterInv, CountInv, Updates
<1>7. TerminalInv'
  <2>1. \A u \in Threads : Flushing(u)' =>
           u # t /\ thread'[u] = thread[u] /\ Flushing(u) /\ thread[u].state \in States
    BY <1>1, HolderAtState DEF Flushing
  <2> QED  BY <2>1 DEF WriterInv, TerminalInv, Updates
<1>8. MapInv'
  <2> SUFFICES ASSUME ~abandoned', NEW u \in Threads, Flushing(u)' \/ Writing(u)'
               PROVE  thread'[u].state = states'
    BY DEF MapInv
  <2>1. u # t /\ thread'[u] = thread[u] /\ (Flushing(u) \/ Writing(u))
    BY <1>1 DEF Flushing, Writing
  <2>2. thread[u].state = states
    BY <2>1 DEF WriterInv, MapInv
  <2>3. CASE states' = states
    BY <2>1, <2>2, <2>3
  <2>4. CASE pending'[s].flushers = 0 /\ states = s
    <3>1. ~Writing(u)
      BY <1>3, <2>1, <2>2, <2>4 DEF Holding, Writing
    <3>2. u \in Flushers(s) \ {t}
      BY <2>1, <2>2, <2>4, <3>1 DEF Flushers
    <3>3. Cardinality(Flushers(s) \ {t}) # 0
      <4>1. IsFiniteSet(Flushers(s) \ {t})
        BY FlushersFinite, FS_Subset
      <4> QED  BY <3>2, <4>1, FS_EmptySet
    <3> QED  BY <2>4, <3>3 DEF Updates
  <2> QED  BY <2>3, <2>4
<1> QED  BY <1>2, <1>4, <1>6, <1>7, <1>8 DEF WriterInv

LEMMA FlushEndKeeps ==
    ASSUME WriterInv, NEW c \in Callers, FlushEnd(c)
    PROVE  WriterInv'
<1> SUFFICES ASSUME NEW s, s = thread[c].state PROVE WriterInv'
  OBVIOUS
<1> DEFINE r == pending[s]
           left == r.flushers - 1
           q == [r EXCEPT !.flushers = left, !.writer = None]
<1>1. /\ thread[c].pc = "flushEnd" /\ Return(c) /\ UNCHANGED <<version, made, abandoned>>
      /\ states' = IF left = 0 /\ states = s THEN NoState ELSE states
      /\ pending' = [pending EXCEPT ![s].flushers = left, ![s].writer = None]
  BY DEF FlushEnd
<1>2. c \in Threads
  BY DEF Threads
<1>3. s \in States /\ r \in Pendings
  BY <1>1, <1>2, StateTyped DEF AtState
<1>4. left \in Int /\ pending' = [pending EXCEPT ![s] = q]
  <2>1. left \in Int
    BY <1>3, PendingFields
  <2> HIDE DEF left
  <2>2. pending' = [pending EXCEPT ![s] = q]
    BY <1>1
  <2> QED  BY <2>1, <2>2
<1>5. q \in Pendings /\ q.writer = None /\ q.flushers = left /\ q.terminal = r.terminal
  <2> HIDE DEF left
  <2> QED  BY <1>3, <1>4, FlushEndFields
<1> HIDE DEF q
<1>6. Updates(s, None, left)
  <2>1. Updates(s, q.writer, q.flushers)
    BY <1>3, <1>4, <1>5, UpdatesBy DEF WriterInv
  <2> QED  BY <1>5, <2>1
<1>7. left = Cardinality(Flushers(s) \ {c})
  <2>1. c \in Flushers(s)
    BY <1>1, <1>2 DEF Flushers, Flushing
  <2>2. Cardinality(Flushers(s) \ {c}) = Cardinality(Flushers(s)) - 1
    BY <2>1, FlushersFinite, FS_RemoveElement
  <2> QED  BY <1>3, <2>2 DEF WriterInv, CountInv
<1>8. pending'[s].flushers = left
  BY <1>6 DEF Updates
<1>9. Moves(c, "idle", NoState) /\ Holding(c)
  BY <1>1, <1>2, ReturnMoves DEF WriterInv, Holding
<1> HIDE DEF left
<1> QED  BY <1>1, <1>2, <1>3, <1>6, <1>7, <1>8, <1>9, EndKeeps

LEMMA DrainEndKeeps ==
    ASSUME WriterInv, NEW d \in Drains \union {Closer}, DrainEnd(d)
    PROVE  WriterInv'
<1> SUFFICES ASSUME NEW s, s = thread[d].state PROVE WriterInv'
  OBVIOUS
<1> DEFINE r == pending[s]
           over == ~r.latest /\ r.flushers = 0
           f == IF ~over /\ ~r.terminal /\ ~shuttingDown THEN "scheduled" ELSE "none"
           q == [r EXCEPT !.writer = None, !.future = f]
<1>1. /\ thread[d].pc = "drainEnd" /\ Return(d) /\ UNCHANGED <<version, made, abandoned>>
      /\ states' = IF over /\ states = s THEN NoState ELSE states
      /\ pending' = [pending EXCEPT ![s] = q]
  BY DEF DrainEnd, saved
<1>2. d \in Threads
  BY DEF Threads
<1>3. s \in States /\ r \in Pendings
  BY <1>1, <1>2, StateTyped DEF AtState
<1>4. f \in {"none", "scheduled", "running", "cancelled"}
  OBVIOUS
<1>5. q \in Pendings /\ q.writer = None /\ q.flushers = r.flushers /\ q.terminal = r.terminal
  <2> HIDE DEF f
  <2> QED  BY <1>3, <1>4, DrainEndFields
<1> HIDE DEF q
<1>6. Updates(s, None, r.flushers)
  <2>1. Updates(s, q.writer, q.flushers)
    BY <1>1, <1>3, <1>5, UpdatesBy DEF WriterInv
  <2> QED  BY <1>5, <2>1
<1>7. r.flushers = Cardinality(Flushers(s) \ {d})
  <2>1. Flushers(s) \ {d} = Flushers(s)
    BY <1>1 DEF Flushers, Flushing
  <2> QED  BY <1>3, <2>1 DEF WriterInv, CountInv
<1>8. states' = states \/ (states' = NoState /\ states = s /\ pending'[s].flushers = 0)
  BY <1>1, <1>6 DEF Updates
<1>9. Moves(d, "idle", NoState) /\ Holding(d)
  BY <1>1, <1>2, ReturnMoves DEF WriterInv, Holding
<1>10. Updates(s, None, Cardinality(Flushers(s) \ {d}))
  BY <1>6, <1>7
<1> QED  BY <1>1, <1>2, <1>3, <1>8, <1>9, <1>10, EndKeeps

\* A thread goes on, and its state changes in nothing but its writer and its queue.
LEMMA GoesOn ==
    ASSUME WriterInv, NEW t \in Threads, NEW pc \in Pcs, NEW s \in States, Moves(t, pc, s),
           UNCHANGED <<version, states, made, abandoned>>,
           NEW w, Updates(s, w, pending[s].flushers),
           Flushing(t)' <=> Flushing(t), Flushing(t) => s = thread[t].state,
           Writing(t)' /\ ~abandoned => s = states,
           Holding(t)' => w = t,
           \A u \in Threads \ {t} : Holding(u) /\ thread[u].state = s => w = u
    PROVE  WriterInv'
<1>1. Typed'
  BY DEF WriterInv, Typed, Moves, AtState, Updates
<1>2. Keeps
  BY DEF Keeps, Updates
<1>3. \A u \in Threads \ {t} : Holding(u) => pending'[thread[u].state].writer = u
  BY HolderAtState DEF WriterInv, LockInv, Updates
<1>4. Holding(t)' => pending'[s].writer = t
  BY DEF Updates
<1>5. LockInv' /\ CountInv' /\ TerminalInv' /\ MapInv'
  BY <1>2, <1>3, <1>4, MoveKeeps
<1> QED  BY <1>1, <1>5 DEF WriterInv

LEMMA DrainCheckKeeps ==
    ASSUME WriterInv, NEW d \in Drains \union {Closer}, DrainCheck(d)
    PROVE  WriterInv'
<1> SUFFICES ASSUME NEW s, s = thread[d].state PROVE WriterInv'
  OBVIOUS
<1> DEFINE r == pending[s]
<1>1. thread[d].pc = "drainCheck" /\ UNCHANGED <<version, states, made, abandoned>>
  BY DEF DrainCheck, saved
<1>2. d \in Threads
  BY DEF Threads
<1>3. s \in States /\ r \in Pendings
  BY <1>1, <1>2, StateTyped DEF AtState
<1>4. Holding(d) /\ ~Flushing(d) /\ r.writer = d
  BY <1>1, <1>2 DEF WriterInv, LockInv, Holding, Flushing
<1>5. CASE pending' = [pending EXCEPT ![s].writer = None] /\ Return(d)
  <2> DEFINE q == [r EXCEPT !.writer = None]
  <2>1. pending' = [pending EXCEPT ![s] = q]
    BY <1>5
  <2>2. q \in Pendings /\ q.writer = None /\ q.flushers = r.flushers /\ q.terminal = r.terminal
    BY <1>3, WriterField
  <2> HIDE DEF q
  <2>3. Updates(s, None, r.flushers)
    <3>1. Updates(s, q.writer, q.flushers)
      BY <1>3, <2>1, <2>2, UpdatesBy DEF WriterInv
    <3> QED  BY <2>2, <3>1
  <2>4. r.flushers = Cardinality(Flushers(s) \ {d})
    <3>1. Flushers(s) \ {d} = Flushers(s)
      BY <1>4 DEF Flushers
    <3> QED  BY <1>3, <3>1 DEF WriterInv, CountInv
  <2>5. Moves(d, "idle", NoState)
    BY <1>2, <1>5, ReturnMoves DEF WriterInv
  <2>6. Updates(s, None, Cardinality(Flushers(s) \ {d}))
    BY <2>3, <2>4
  <2> QED  BY <1>1, <1>2, <1>3, <1>4, <2>5, <2>6, EndKeeps
<1>6. CASE /\ states = s /\ pending' = [pending EXCEPT ![s].latest = FALSE]
           /\ Goto(d, IF pending[s].latest THEN "drainBuild" ELSE "drainEnd")
  <2> DEFINE q == [r EXCEPT !.latest = FALSE]
  <2>1. pending' = [pending EXCEPT ![s] = q]
    BY <1>6
  <2>2. q \in Pendings /\ q.writer = r.writer /\ q.flushers = r.flushers /\ q.terminal = r.terminal
    BY <1>3, LatestField
  <2> HIDE DEF q
  <2>3. Updates(s, d, r.flushers)
    <3>1. Updates(s, q.writer, q.flushers)
      BY <1>3, <2>1, <2>2, UpdatesBy DEF WriterInv
    <3> QED  BY <1>4, <2>2, <3>1
  <2>4. PICK pc \in {"drainBuild", "drainEnd"} : Goto(d, pc)
    BY <1>6
  <2>5. pc \in Pcs /\ Moves(d, pc, s)
    BY <1>2, <2>4, GotoMoves DEF WriterInv, Pcs
  <2>6. ~Flushing(d)'
    BY <2>5 DEF Moves, Flushing
  <2>7. \A u \in Threads \ {d} : ~(Holding(u) /\ thread[u].state = s)
    BY <1>4 DEF WriterInv, LockInv
  <2>8. UNCHANGED <<version, states, made, abandoned>> /\ s = states
    BY <1>1, <1>6
  <2> QED  BY <1>2, <1>3, <1>4, <2>3, <2>5, <2>6, <2>7, <2>8, GoesOn
<1> QED  BY <1>5, <1>6 DEF DrainCheck

LEMMA RunKeeps ==
    ASSUME WriterInv, NEW d \in Drains, Run(d)
    PROVE  WriterInv'
<1>1. PICK s \in States :
         /\ pending' = [pending EXCEPT ![s].future = "running"]
         /\ thread' = [thread EXCEPT ![d] = [pc |-> "drainLock", state |-> s, read |-> 0]]
  BY DEF Run
<1>2. thread[d].pc = "idle" /\ UNCHANGED <<version, states, made, abandoned>> /\ d \in Threads
  BY DEF Run, saved, Threads
<1>3. Moves(d, "drainLock", s) /\ "drainLock" \in Pcs
  BY <1>1, <1>2 DEF WriterInv, Typed, Moves, Places, Pcs
<1> DEFINE r == pending[s]
           q == [r EXCEPT !.future = "running"]
<1>4. r \in Pendings /\ pending' = [pending EXCEPT ![s] = q]
  BY <1>1 DEF WriterInv, Typed
<1>5. q \in Pendings /\ q.writer = r.writer /\ q.flushers = r.flushers /\ q.terminal = r.terminal
  BY <1>4, FutureField
<1> HIDE DEF q
<1>6. Updates(s, r.writer, r.flushers)
  <2>1. Updates(s, q.writer, q.flushers)
    BY <1>4, <1>5, UpdatesBy DEF WriterInv
  <2> QED  BY <1>5, <2>1
<1>7. ~Flushing(d) /\ ~Flushing(d)' /\ ~Writing(d)' /\ ~Holding(d)'
  BY <1>2, <1>3 DEF Moves, Flushing, Writing, Holding
<1>8. \A u \in Threads \ {d} : Holding(u) /\ thread[u].state = s => r.writer = u
  BY DEF WriterInv, LockInv
<1> QED  BY <1>2, <1>3, <1>6, <1>7, <1>8, GoesOn

LEMMA LockKeeps ==
    ASSUME WriterInv, NEW t \in Threads, Lock(t)
    PROVE  WriterInv'
<1> SUFFICES ASSUME NEW s, s = thread[t].state PROVE WriterInv'
  OBVIOUS
<1> DEFINE r == pending[s]
           q == [r EXCEPT !.writer = t]
           pc == IF thread[t].pc = "flushLock" THEN "flushBuild" ELSE "drainCheck"
<1>1. /\ thread[t].pc \in {"flushLock", "drainLock"} /\ r.writer = None
      /\ pending' = [pending EXCEPT ![s] = q] /\ Goto(t, pc)
      /\ UNCHANGED <<version, states, made, abandoned>>
  BY DEF Lock, saved, Mine
<1>2. s \in States /\ r \in Pendings
  BY <1>1, StateTyped DEF AtState
<1>3. q \in Pendings /\ q.writer = t /\ q.flushers = r.flushers /\ q.terminal = r.terminal
  BY <1>2, WriterField
<1> HIDE DEF q
<1>4. Updates(s, t, r.flushers)
  <2>1. Updates(s, q.writer, q.flushers)
    BY <1>1, <1>2, <1>3, UpdatesBy DEF WriterInv
  <2> QED  BY <1>3, <2>1
<1>5. PICK p \in {"flushBuild", "drainCheck"} :
         Goto(t, p) /\ (p = "flushBuild" <=> thread[t].pc = "flushLock")
  BY <1>1
<1>6. p \in Pcs /\ Moves(t, p, s)
  BY <1>5, GotoMoves DEF WriterInv, Pcs
<1>7. /\ Flushing(t)' <=> Flushing(t)
      /\ Writing(t)' => Flushing(t)
  BY <1>1, <1>5, <1>6 DEF Moves, Flushing, Writing
<1>8. Writing(t)' /\ ~abandoned => s = states
  BY <1>7 DEF WriterInv, MapInv
<1>9. \A u \in Threads \ {t} : ~(Holding(u) /\ thread[u].state = s)
  BY <1>1, ThreadsAssumption DEF WriterInv, LockInv, Threads
<1> QED  BY <1>1, <1>2, <1>4, <1>6, <1>7, <1>8, <1>9, GoesOn

\* A step of the write itself.
LEMMA SaveKeeps ==
    ASSUME WriterInv, NEW t \in Threads, NEW pc \in Pcs, Moves(t, pc, thread[t].state),
           UNCHANGED <<version, states, made, pending, abandoned>>,
           Writing(t), Holding(t)', Flushing(t)' <=> Flushing(t)
    PROVE  WriterInv'
<1>1. Typed'
  <2>1. thread[t].state \in States
    BY HolderAtState
  <2> QED  BY <2>1 DEF WriterInv, Typed, Moves, AtState
<1>2. Keeps
  BY DEF Keeps
<1>3. \A u \in Threads : Holding(u) => pending'[thread[u].state].writer = u
  BY DEF WriterInv, LockInv
<1>4. Holding(t)
  BY DEF Holding, Writing
<1>5. ~abandoned => thread[t].state = states
  BY DEF WriterInv, MapInv
<1>6. LockInv' /\ CountInv' /\ TerminalInv' /\ MapInv'
  BY <1>2, <1>3, <1>4, <1>5, MoveKeeps
<1> QED  BY <1>1, <1>6 DEF WriterInv

LEMMA BuildKeeps ==
    ASSUME WriterInv, NEW t \in Threads, Build(t)
    PROVE  WriterInv'
<1> DEFINE p == IF thread[t].pc = "flushBuild" THEN "flushWrite" ELSE "drainWrite"
<1>1. /\ thread[t].pc \in {"flushBuild", "drainBuild"}
      /\ thread' = [thread EXCEPT ![t].read = version,
                                  ![t].pc = IF @ = "flushBuild" THEN "flushWrite" ELSE "drainWrite"]
      /\ UNCHANGED <<version, states, made, pending, abandoned>>
  BY DEF Build, saved
<1>2. Moves(t, p, thread[t].state) /\ p \in Pcs
  BY <1>1 DEF WriterInv, Typed, Moves, Places, Pcs
<1>3. Writing(t) /\ Holding(t)' /\ (Flushing(t)' <=> Flushing(t))
  BY <1>1, <1>2 DEF Moves, Writing, Holding, Flushing
<1> QED  BY <1>1, <1>2, <1>3, SaveKeeps

LEMMA WriteKeeps ==
    ASSUME WriterInv, NEW t \in Threads, Write(t)
    PROVE  WriterInv'
<1> DEFINE p == IF thread[t].pc = "flushWrite" THEN "flushEnd" ELSE "drainEnd"
<1>1. /\ thread[t].pc \in {"flushWrite", "drainWrite"} /\ Goto(t, p)
      /\ UNCHANGED <<version, states, made, pending, abandoned>>
  BY DEF Write
<1>2. p \in Pcs
  BY DEF Pcs
<1>3. Moves(t, p, thread[t].state)
  <2> HIDE DEF p
  <2> QED  BY <1>1, <1>2, GotoMoves DEF WriterInv
<1>4. Writing(t) /\ Holding(t)' /\ (Flushing(t)' <=> Flushing(t))
  BY <1>1, <1>3 DEF Moves, Writing, Holding, Flushing
<1> QED  BY <1>1, <1>2, <1>3, <1>4, SaveKeeps

\* Until the shutdown begins the closer is idle; then it drains once.
LEMMA ShutdownStateKeeps ==
    ASSUME WriterInv, ShutdownState
    PROVE  WriterInv'
<1> SUFFICES ASSUME NEW s, s = states PROVE WriterInv'
  OBVIOUS
<1>1. /\ thread[Closer].pc = "closing" /\ Closer \in Threads
      /\ UNCHANGED <<version, states, made, abandoned>>
  BY DEF ShutdownState, saved, Threads
<1>2. ~Flushing(Closer) /\ ~Holding(Closer)
  BY <1>1 DEF Flushing, Holding
<1>3. CASE Return(Closer) /\ UNCHANGED pending
  <2>1. Moves(Closer, "idle", NoState) /\ "idle" \in Pcs
    BY <1>1, <1>3, ReturnMoves DEF WriterInv, Pcs
  <2>2. Typed'
    BY <1>1, <1>3, <2>1 DEF WriterInv, Typed, Moves, AtState
  <2>3. ~Holding(Closer)' /\ ~Flushing(Closer)' /\ ~Writing(Closer)' /\ Keeps
    BY <1>1, <1>3, <2>1 DEF Moves, Holding, Flushing, Writing, Keeps
  <2>4. \A u \in Threads \ {Closer} : Holding(u) => pending'[thread[u].state].writer = u
    BY <1>3 DEF WriterInv, LockInv
  <2>5. LockInv' /\ CountInv' /\ TerminalInv' /\ MapInv'
    BY <1>1, <1>2, <2>1, <2>3, <2>4, MoveKeeps
  <2> QED  BY <2>2, <2>5 DEF WriterInv
<1>4. CASE /\ states # NoState
           /\ pending' = [pending EXCEPT ![s].future = IF @ = "scheduled" THEN "cancelled" ELSE @]
           /\ thread' = [thread EXCEPT ![Closer] = [pc |-> "drainLock", state |-> s, read |-> 0]]
  <2> DEFINE r == pending[s]
             f == IF r.future = "scheduled" THEN "cancelled" ELSE r.future
             q == [r EXCEPT !.future = f]
  <2>1. s \in States /\ r \in Pendings
    BY <1>4 DEF WriterInv, Typed
  <2>2. f \in {"none", "scheduled", "running", "cancelled"} /\ pending' = [pending EXCEPT ![s] = q]
    BY <1>4, <2>1, PendingFields
  <2>3. q \in Pendings /\ q.writer = r.writer /\ q.flushers = r.flushers /\ q.terminal = r.terminal
    <3> HIDE DEF f
    <3> QED  BY <2>1, <2>2, FutureField
  <2> HIDE DEF q
  <2>4. Updates(s, r.writer, r.flushers)
    <3>1. Updates(s, q.writer, q.flushers)
      BY <2>1, <2>2, <2>3, UpdatesBy DEF WriterInv
    <3> QED  BY <2>3, <3>1
  <2>5. Moves(Closer, "drainLock", s) /\ "drainLock" \in Pcs
    BY <1>1, <1>4, <2>1 DEF WriterInv, Typed, Moves, Places, Pcs
  <2>6. ~Flushing(Closer)' /\ ~Writing(Closer)' /\ ~Holding(Closer)'
    BY <2>5 DEF Moves, Flushing, Writing, Holding
  <2>7. \A u \in Threads \ {Closer} : Holding(u) /\ thread[u].state = s => r.writer = u
    BY DEF WriterInv, LockInv
  <2> QED  BY <1>1, <1>2, <2>1, <2>4, <2>5, <2>6, <2>7, GoesOn
<1> QED  BY <1>3, <1>4 DEF ShutdownState

LEMMA ShutdownKeeps ==
    ASSUME WriterInv, Shutdown, thread[Closer].pc = "idle"
    PROVE  WriterInv'
<1>1. /\ Goto(Closer, "closing") /\ Closer \in Threads /\ "closing" \in Pcs
      /\ UNCHANGED <<version, states, made, pending, abandoned>>
  BY DEF Shutdown, saved, Threads, Pcs
<1>2. Moves(Closer, "closing", thread[Closer].state)
  BY <1>1, GotoMoves DEF WriterInv
<1>3. Typed'
  BY <1>1, <1>2 DEF WriterInv, Typed, Moves, AtState
<1>4. ~Holding(Closer)' /\ ~Flushing(Closer)' /\ ~Writing(Closer)' /\ ~Flushing(Closer) /\ Keeps
  BY <1>1, <1>2 DEF Moves, Holding, Flushing, Writing, Keeps
<1>5. \A u \in Threads \ {Closer} : Holding(u) => pending'[thread[u].state].writer = u
  BY <1>1 DEF WriterInv, LockInv
<1>6. LockInv' /\ CountInv' /\ TerminalInv' /\ MapInv'
  BY <1>1, <1>2, <1>4, <1>5, MoveKeeps
<1> QED  BY <1>3, <1>6 DEF WriterInv

(***************************************************************************)
(* What a writer has read is no older than what is stored: nobody else     *)
(* writes in between.                                                      *)
(***************************************************************************)
AboutToWrite(t) == thread[t].pc \in {"flushWrite", "drainWrite"}

ReadInv ==
    /\ stored \in Nat /\ stored <= version
    /\ \A t \in Threads : thread[t].read <= version
    /\ ~abandoned => \A t \in Threads : AboutToWrite(t) => stored <= thread[t].read

CloserInv == ~shuttingDown => thread[Closer].pc = "idle"

KeyInv == WriterInv /\ ReadInv /\ CloserInv

\* Thread t moves, not to a write, and takes nothing new along.
Walks(t) ==
    /\ \A u \in Threads \ {t} : thread'[u] = thread[u]
    /\ ~AboutToWrite(t)' /\ thread'[t].read \in {0, thread[t].read}

LEMMA GotoWalks ==
    ASSUME WriterInv, NEW t \in Threads, NEW pc \in Pcs \ {"flushWrite", "drainWrite"}, Goto(t, pc)
    PROVE  Walks(t)
BY DEF WriterInv, Typed, Goto, Walks, AboutToWrite, Places

LEMMA ReturnWalks ==
    ASSUME WriterInv, NEW t \in Threads, Return(t)
    PROVE  Walks(t)
BY DEF WriterInv, Typed, Return, Walks, AboutToWrite, Idle

LEMMA WalksKeep ==
    ASSUME WriterInv, ReadInv, NEW t \in Threads, Walks(t), stored' = stored,
           version' \in {version, version + 1}, abandoned => abandoned'
    PROVE  ReadInv'
<1>1. version \in Nat
  BY DEF WriterInv, Typed
<1>2. stored' \in Nat /\ stored' <= version' /\ version <= version'
  BY <1>1 DEF ReadInv
<1>3. ASSUME NEW u \in Threads PROVE thread'[u].read <= version'
  <2>1. thread[u].read \in Nat /\ thread[u].read <= version
    BY DEF WriterInv, Typed, Places, ReadInv
  <2>2. thread'[u].read \in {0, thread[u].read}
    BY DEF Walks
  <2> QED  BY <1>1, <1>2, <2>1, <2>2
<1>4. ASSUME ~abandoned', NEW u \in Threads, AboutToWrite(u)' PROVE stored' <= thread'[u].read
  <2>1. u # t /\ thread'[u] = thread[u]
    BY <1>4 DEF Walks
  <2> QED  BY <1>4, <2>1 DEF ReadInv, AboutToWrite
<1> QED  BY <1>2, <1>3, <1>4 DEF ReadInv

LEMMA StillKeeps ==
    ASSUME ReadInv, UNCHANGED <<version, thread, stored, abandoned>>
    PROVE  ReadInv'
BY DEF ReadInv, AboutToWrite

LEMMA BuildReads ==
    ASSUME WriterInv, ReadInv, NEW t \in Threads, Build(t)
    PROVE  ReadInv'
<1>1. /\ thread' = [thread EXCEPT ![t].read = version,
                                  ![t].pc = IF @ = "flushBuild" THEN "flushWrite" ELSE "drainWrite"]
      /\ UNCHANGED <<version, stored, abandoned>>
  BY DEF Build, saved
<1>2. thread'[t].read = version /\ \A u \in Threads \ {t} : thread'[u] = thread[u]
  BY <1>1 DEF WriterInv, Typed, Places
<1>3. version \in Nat
  BY DEF WriterInv, Typed
<1>4. stored' \in Nat /\ stored' <= version'
  BY <1>1 DEF ReadInv
<1>5. ASSUME NEW u \in Threads PROVE thread'[u].read <= version'
  <2>1. CASE u = t
    <3>1. thread'[u].read = version' /\ version' \in Nat
      BY <1>1, <1>2, <1>3, <2>1
    <3> QED  BY <3>1
  <2>2. CASE u # t
    BY <1>1, <1>2, <2>2 DEF ReadInv
  <2> QED  BY <2>1, <2>2
<1>6. ASSUME ~abandoned', NEW u \in Threads, AboutToWrite(u)' PROVE stored' <= thread'[u].read
  <2>1. CASE u = t
    BY <1>1, <1>2, <1>4, <2>1
  <2>2. CASE u # t
    BY <1>1, <1>2, <1>6, <2>2 DEF ReadInv, AboutToWrite
  <2> QED  BY <2>1, <2>2
<1> QED  BY <1>4, <1>5, <1>6 DEF ReadInv

LEMMA WriteReads ==
    ASSUME WriterInv, ReadInv, NEW t \in Threads, Write(t)
    PROVE  ReadInv' /\ (~abandoned => stored <= stored')
<1> DEFINE p == IF thread[t].pc = "flushWrite" THEN "flushEnd" ELSE "drainEnd"
<1>1. /\ AboutToWrite(t) /\ stored' = thread[t].read /\ Goto(t, p)
      /\ UNCHANGED <<version, abandoned>>
  BY DEF Write, AboutToWrite
<1>2. Walks(t)
  <2>1. p \in Pcs \ {"flushWrite", "drainWrite"}
    BY DEF Pcs
  <2> HIDE DEF p
  <2> QED  BY <1>1, <2>1, GotoWalks
<1>3. ~abandoned => stored <= stored'
  BY <1>1 DEF ReadInv
<1>4. ~abandoned => \A u \in Threads \ {t} : ~AboutToWrite(u)
  BY <1>1, WriterInvSuffices DEF OneWriter, Writing, AboutToWrite
<1>5. stored' \in Nat /\ stored' <= version'
  BY <1>1 DEF WriterInv, Typed, Places, ReadInv
<1>6. ASSUME NEW u \in Threads PROVE thread'[u].read <= version'
  <2>1. thread[u].read \in Nat /\ thread[u].read <= version /\ version \in Nat
    BY DEF WriterInv, Typed, Places, ReadInv
  <2>2. thread'[u].read \in {0, thread[u].read}
    BY <1>2 DEF Walks
  <2> QED  BY <1>1, <2>1, <2>2
<1>7. ~abandoned' => \A u \in Threads : ~AboutToWrite(u)'
  BY <1>1, <1>2, <1>4 DEF Walks, AboutToWrite
<1> QED  BY <1>3, <1>5, <1>6, <1>7 DEF ReadInv

\* Every action keeps the invariant, and no write goes back.
LEMMA KeyStep ==
    ASSUME KeyInv, [Next]_vars
    PROVE  KeyInv' /\ (~abandoned => stored <= stored')
<1> USE DEF KeyInv
<1>0. stored \in Nat /\ stored <= stored
  BY DEF ReadInv
<1>c. \A x \in Callers \union Drains : x \in Threads /\ x # Closer
  BY ThreadsAssumption DEF Threads
<1>1. ASSUME NEW c \in Callers, Enqueue(c) \/ FlushNow(c)
      PROVE  KeyInv' /\ stored' = stored
  <2>1. PICK pc \in {"enqueue", "flush"} :
           version' = version + 1 /\ Goto(c, pc) /\ UNCHANGED <<shuttingDown, saved>>
    BY <1>1 DEF Enqueue, FlushNow
  <2>2. Walks(c) /\ stored' = stored /\ abandoned' = abandoned
    BY <1>c, <2>1, GotoWalks DEF Pcs, saved
  <2>3. ReadInv'
    BY <1>c, <2>1, <2>2, WalksKeep
  <2>4. CloserInv'
    BY <1>c, <2>1, <2>2 DEF CloserInv, Walks, Threads
  <2> QED  BY <1>1, <2>2, <2>3, <2>4, CallKeeps
<1>2. ASSUME NEW c \in Callers, GetState(c)
      PROVE  KeyInv' /\ stored' = stored
  <2>1. Walks(c) /\ UNCHANGED <<version, stored, abandoned, shuttingDown>>
    BY <1>2, <1>c DEF GetState, saved, WriterInv, Typed, Walks, AboutToWrite, Places
  <2>2. ReadInv'
    BY <1>c, <2>1, WalksKeep
  <2>3. CloserInv'
    BY <1>c, <2>1 DEF CloserInv, Walks, Threads
  <2> QED  BY <1>2, <2>1, <2>2, <2>3, GetStateKeeps
<1>3. ASSUME NEW c \in Callers, Offer(c)
      PROVE  KeyInv' /\ stored' = stored
  <2>1. Walks(c)
    BY <1>3, <1>c, ReturnWalks, GotoWalks DEF Offer, Pcs
  <2>2. UNCHANGED <<version, stored, shuttingDown>> /\ (abandoned => abandoned')
    BY <1>3 DEF Offer
  <2>3. ReadInv'
    BY <1>c, <2>1, <2>2, WalksKeep
  <2>4. CloserInv'
    BY <1>c, <2>1, <2>2 DEF CloserInv, Walks, Threads
  <2> QED  BY <1>3, <2>2, <2>3, <2>4, OfferKeeps
<1>4. ASSUME NEW c \in Callers, Supersede(c)
      PROVE  KeyInv' /\ stored' = stored
  <2>1. Walks(c) /\ UNCHANGED <<version, stored, abandoned, shuttingDown>>
    BY <1>4, <1>c, GotoWalks DEF Supersede, Pcs, saved
  <2>2. ReadInv'
    BY <1>c, <2>1, WalksKeep
  <2>3. CloserInv'
    BY <1>c, <2>1 DEF CloserInv, Walks, Threads
  <2> QED  BY <1>4, <2>1, <2>2, <2>3, SupersedeKeeps
<1>5. ASSUME NEW c \in Callers, FlushEnd(c)
      PROVE  KeyInv' /\ stored' = stored
  <2>1. Walks(c) /\ UNCHANGED <<version, stored, abandoned, shuttingDown>>
    BY <1>5, <1>c, ReturnWalks DEF FlushEnd
  <2>2. ReadInv'
    BY <1>c, <2>1, WalksKeep
  <2>3. CloserInv'
    BY <1>c, <2>1 DEF CloserInv, Walks, Threads
  <2> QED  BY <1>5, <2>1, <2>2, <2>3, FlushEndKeeps
<1>6. ASSUME NEW d \in Drains, Run(d)
      PROVE  KeyInv' /\ stored' = stored
  <2>1. Walks(d) /\ UNCHANGED <<version, stored, abandoned, shuttingDown>>
    BY <1>6, <1>c DEF Run, saved, WriterInv, Typed, Walks, AboutToWrite
  <2>2. ReadInv'
    BY <1>c, <2>1, WalksKeep
  <2>3. CloserInv'
    BY <1>c, <2>1 DEF CloserInv, Walks, Threads
  <2> QED  BY <1>6, <2>1, <2>2, <2>3, RunKeeps
<1>7. ASSUME NEW d \in Drains \union {Closer}, DrainStep(d)
      PROVE  KeyInv' /\ stored' = stored
  <2>1. d \in Threads /\ thread[d].pc # "idle" /\ UNCHANGED <<version, stored, abandoned, shuttingDown>>
    BY <1>7 DEF DrainStep, DrainCheck, DrainEnd, saved, Threads
  <2>2. Walks(d)
    <3>1. CASE DrainCheck(d)
      <4>1. Return(d) \/ \E pc \in {"drainBuild", "drainEnd"} : Goto(d, pc)
        BY <3>1 DEF DrainCheck
      <4> QED  BY <2>1, <4>1, ReturnWalks, GotoWalks DEF Pcs
    <3>2. CASE DrainEnd(d)
      BY <2>1, <3>2, ReturnWalks DEF DrainEnd
    <3> QED  BY <1>7, <3>1, <3>2 DEF DrainStep
  <2>3. ReadInv'
    BY <2>1, <2>2, WalksKeep
  <2>4. CloserInv'
    BY <2>1, <2>2 DEF CloserInv, Walks, Threads
  <2> QED  BY <1>7, <2>1, <2>3, <2>4, DrainCheckKeeps, DrainEndKeeps DEF DrainStep
<1>8. ASSUME NEW t \in Threads, Lock(t)
      PROVE  KeyInv' /\ stored' = stored
  <2>1. thread[t].pc # "idle" /\ UNCHANGED <<version, stored, abandoned, shuttingDown>>
    BY <1>8 DEF Lock, saved
  <2>2. Walks(t)
    <3>1. \E pc \in {"flushBuild", "drainCheck"} : Goto(t, pc)
      BY <1>8 DEF Lock
    <3> QED  BY <3>1, GotoWalks DEF Pcs
  <2>3. ReadInv'
    BY <2>1, <2>2, WalksKeep
  <2>4. CloserInv'
    BY <2>1, <2>2 DEF CloserInv, Walks, Threads
  <2> QED  BY <1>8, <2>1, <2>3, <2>4, LockKeeps
<1>9. ASSUME NEW t \in Threads, Build(t)
      PROVE  KeyInv' /\ stored' = stored
  <2>1. /\ thread[t].pc # "idle" /\ UNCHANGED <<stored, shuttingDown>>
        /\ \A u \in Threads \ {t} : thread'[u] = thread[u]
    BY <1>9 DEF Build, saved, WriterInv, Typed
  <2>2. CloserInv'
    BY <2>1 DEF CloserInv, Threads
  <2> QED  BY <1>9, <2>1, <2>2, BuildKeeps, BuildReads
<1>10. ASSUME NEW t \in Threads, Write(t)
       PROVE  KeyInv' /\ (~abandoned => stored <= stored')
  <2>1. thread[t].pc # "idle" /\ shuttingDown' = shuttingDown
        /\ \A u \in Threads \ {t} : thread'[u] = thread[u]
    BY <1>10 DEF Write, Goto, WriterInv, Typed
  <2>2. CloserInv'
    BY <2>1 DEF CloserInv, Threads
  <2> QED  BY <1>10, <2>2, WriteKeeps, WriteReads
<1>11. ASSUME Shutdown PROVE KeyInv' /\ stored' = stored
  <2>1. Walks(Closer) /\ Closer \in Threads
    BY <1>11, GotoWalks DEF Shutdown, Pcs, Threads
  <2>2. shuttingDown' = TRUE /\ UNCHANGED <<version, stored, abandoned>> /\ thread[Closer].pc = "idle"
    BY <1>11 DEF Shutdown, saved, CloserInv
  <2>3. ReadInv'
    BY <2>1, <2>2, WalksKeep
  <2> QED  BY <1>11, <2>2, <2>3, ShutdownKeeps DEF CloserInv
<1>12. ASSUME ShutdownState PROVE KeyInv' /\ stored' = stored
  <2>1. /\ UNCHANGED <<version, stored, abandoned, shuttingDown>> /\ Closer \in Threads
        /\ thread[Closer].pc # "idle"
    BY <1>12 DEF ShutdownState, saved, Threads
  <2>2. Walks(Closer)
    <3>1. CASE Return(Closer)
      BY <2>1, <3>1, ReturnWalks
    <3>2. CASE thread' = [thread EXCEPT ![Closer] = [pc |-> "drainLock", state |-> states, read |-> 0]]
      BY <2>1, <3>2 DEF WriterInv, Typed, Walks, AboutToWrite
    <3> QED  BY <1>12, <3>1, <3>2 DEF ShutdownState
  <2>3. ReadInv'
    BY <2>1, <2>2, WalksKeep
  <2>4. CloserInv'
    BY <2>1 DEF CloserInv
  <2> QED  BY <1>12, <2>1, <2>3, <2>4, ShutdownStateKeeps
<1>13. ASSUME UNCHANGED vars PROVE KeyInv' /\ stored' = stored
  <2>1. UNCHANGED <<version, states, made, pending, thread, shuttingDown, stored, abandoned>>
    BY <1>13 DEF vars, saved
  <2>2. WriterInv'
    BY <2>1 DEF WriterInv, Typed, LockInv, CountInv, TerminalInv, MapInv, AtState, Holding, Flushing,
                Writing, Flushers
  <2> QED  BY <2>1, <2>2, StillKeeps DEF CloserInv
<1> QED
  BY <1>0, <1>1, <1>2, <1>3, <1>4, <1>5, <1>6, <1>7, <1>8, <1>9, <1>10, <1>11, <1>12, <1>13
  DEF Next, CallerStep, WriterStep

LEMMA KeyInitially == Init => KeyInv
<1> SUFFICES ASSUME Init PROVE KeyInv
  OBVIOUS
<1>1. \A t \in Threads : thread[t] = Idle
  BY DEF Init
<1>2. \A t \in Threads : ~AtState(t) /\ ~Holding(t) /\ ~Flushing(t) /\ ~Writing(t) /\ ~AboutToWrite(t)
                         /\ thread[t].read = 0 /\ thread[t].pc = "idle"
  BY <1>1 DEF AtState, Holding, Flushing, Writing, AboutToWrite, Idle
<1>3. Idle \in Places /\ Fresh \in Pendings /\ Fresh.flushers = 0
  BY DEF Idle, Places, Pcs, Fresh, Pendings
<1>4. thread \in [Threads -> Places] /\ pending \in [States -> Pendings]
  BY <1>3 DEF Init
<1>5. Typed
  BY <1>2, <1>4, CallsAssumption DEF Init, Typed
<1>6. CountInv
  <2>1. \A s \in States : pending[s].flushers = 0 /\ Flushers(s) = {}
    BY <1>2, <1>3 DEF Init, Flushers
  <2> QED  BY <2>1, FS_EmptySet DEF CountInv
<1>7. ReadInv /\ CloserInv
  BY <1>2 DEF Init, ReadInv, CloserInv, Threads
<1> QED  BY <1>2, <1>5, <1>6, <1>7 DEF KeyInv, WriterInv, LockInv, TerminalInv, MapInv

LEMMA KeyAlways == Spec => []KeyInv
BY KeyInitially, KeyStep, PTL DEF Spec

\* The projections of a key are written one at a time, for any callers, calls
\* and scheduler threads, unless an enqueue that met the shutdown has removed
\* the state the shutdown saves.
THEOREM SingleWriter == Spec => []OneWriter
<1>1. KeyInv => OneWriter
  BY WriterInvSuffices DEF KeyInv
<1> QED  BY <1>1, KeyAlways, PTL

\* Under the same condition no write replaces a projection by an older one.
THEOREM NeverRegresses == Spec => StoredNeverRegresses
<1>1. KeyInv /\ [Next]_vars => [~abandoned => stored <= stored']_stored
  BY KeyStep
<1> QED  BY <1>1, KeyAlways, PTL DEF Spec, StoredNeverRegresses

-----------------------------------------------------------------------------
(***************************************************************************)
(* Types. The counters are bounded by the calls: a caller that is at work  *)
(* has brought a version of its own, so no more of them than there are     *)
(* versions can be flushing.                                               *)
(***************************************************************************)
Busy == {c \in Callers : thread[c].pc # "idle"}

CallInv ==
    /\ version <= MaxCalls /\ accepted \in 0..version /\ flushed \in 0..version
    /\ \A t \in Threads : Flushing(t) => t \in Callers
    /\ Cardinality(Busy) <= version

LEMMA BusyFinite == IsFiniteSet(Busy)
<1>1. Busy \subseteq Callers
  BY DEF Busy
<1> QED  BY <1>1, ThreadsAssumption, FS_Subset

\* A thread that goes on with its work, or returns, is busy only if it was.
LEMMA WorkCounts ==
    ASSUME KeyInv, CallInv, NEW t \in Threads, thread[t].pc # "idle", version' = version,
           \A u \in Threads \ {t} : thread'[u] = thread[u],
           Flushing(t)' => Flushing(t) \/ t \in Callers,
           accepted' \in 0..version, flushed' \in 0..version
    PROVE  CallInv'
<1>1. Busy' \subseteq Busy
  BY DEF Busy, Threads
<1>2. Cardinality(Busy') <= Cardinality(Busy) /\ Cardinality(Busy') \in Nat /\ Cardinality(Busy) \in Nat
  BY <1>1, BusyFinite, FS_Subset, FS_CardinalityType
<1>3. version \in Nat
  BY DEF KeyInv, WriterInv, Typed
<1>4. \A u \in Threads : Flushing(u)' => u \in Callers
  BY DEF CallInv, Flushing
<1> QED  BY <1>2, <1>3, <1>4 DEF CallInv

\* A thread outside the callers leaves them alone.
LEMMA OthersCount ==
    ASSUME KeyInv, CallInv, NEW t \in Threads \ Callers, UNCHANGED <<version, accepted, flushed>>,
           \A u \in Threads \ {t} : thread'[u] = thread[u], Flushing(t)' => Flushing(t)
    PROVE  CallInv'
<1>1. Busy' = Busy
  BY DEF Busy, Threads
<1>2. \A u \in Threads : Flushing(u)' => u \in Callers
  BY DEF CallInv, Flushing
<1> QED  BY <1>1, <1>2 DEF CallInv

LEMMA CallsCounted ==
    ASSUME KeyInv, CallInv, [Next]_vars
    PROVE  CallInv'
<1>0. /\ version \in Nat /\ thread \in [Threads -> Places]
      /\ \A t \in Threads : thread[t].read \in 0..version
      /\ \A c \in Callers : c \in Threads
  BY DEF KeyInv, WriterInv, Typed, ReadInv, Places, Threads
<1>1. ASSUME NEW c \in Callers, Enqueue(c) \/ FlushNow(c) PROVE CallInv'
  <2>1. PICK pc \in {"enqueue", "flush"} :
           /\ thread[c].pc = "idle" /\ version < MaxCalls /\ version' = version + 1 /\ Goto(c, pc)
           /\ UNCHANGED saved
    BY <1>1 DEF Enqueue, FlushNow
  <2>2. /\ \A u \in Threads \ {c} : thread'[u] = thread[u]
        /\ thread'[c].pc = pc
    BY <1>0, <2>1 DEF Goto, Places
  <2>3. Busy' = Busy \union {c} /\ c \notin Busy
    BY <2>1, <2>2 DEF Busy, Threads
  <2>4. Cardinality(Busy') = Cardinality(Busy) + 1 /\ Cardinality(Busy) \in Nat
    BY <2>3, BusyFinite, FS_AddElement, FS_CardinalityType
  <2>5. \A u \in Threads : Flushing(u)' => u \in Callers
    BY <2>2 DEF CallInv, Flushing
  <2> QED  BY <1>0, <2>1, <2>4, <2>5, CallsAssumption DEF CallInv, saved
<1>2. ASSUME NEW c \in Callers, CallerStep(c) PROVE CallInv'
  <2>1. thread[c].pc # "idle" /\ version' = version /\ \A u \in Threads \ {c} : thread'[u] = thread[u]
    BY <1>0, <1>2
    DEF CallerStep, GetState, Offer, Supersede, FlushEnd, Goto, Return
  <2>2. accepted' \in {accepted, version} /\ flushed' \in {flushed, thread[c].read}
    BY <1>2 DEF CallerStep, GetState, Offer, Supersede, FlushEnd, saved
  <2>3. accepted' \in 0..version /\ flushed' \in 0..version
    BY <1>0, <2>2 DEF CallInv
  <2> QED  BY <1>0, <2>1, <2>3, WorkCounts
<1>3. ASSUME NEW t \in Threads, WriterStep(t) PROVE CallInv'
  <2>1. /\ thread[t].pc # "idle" /\ UNCHANGED <<version, accepted, flushed>>
        /\ \A u \in Threads \ {t} : thread'[u] = thread[u]
    BY <1>0, <1>3 DEF WriterStep, Lock, Build, Write, Goto, saved
  <2>2. Flushing(t)' => Flushing(t)
    BY <1>0, <1>3 DEF WriterStep, Lock, Build, Write, Goto, Flushing, Places
  <2>3. accepted' \in 0..version /\ flushed' \in 0..version
    BY <2>1 DEF CallInv
  <2> QED  BY <2>1, <2>2, <2>3, WorkCounts
<1>4. ASSUME NEW d \in Drains \union {Closer}, Run(d) \/ DrainStep(d) PROVE CallInv'
  <2>1. d \in Threads \ Callers /\ UNCHANGED <<version, accepted, flushed>>
    BY <1>4, ThreadsAssumption DEF Run, DrainStep, DrainCheck, DrainEnd, saved, Threads
  <2>2. \A u \in Threads \ {d} : thread'[u] = thread[u]
    BY <1>0, <1>4 DEF Run, DrainStep, DrainCheck, DrainEnd, Goto, Return
  <2>3. ~Flushing(d)'
    <3>1. PICK pc \in {"drainLock", "drainBuild", "drainEnd", "idle"} : thread'[d].pc = pc
      BY <1>0, <1>4, <2>1 DEF Run, DrainStep, DrainCheck, DrainEnd, Goto, Return, Idle, Places
    <3> QED  BY <3>1 DEF Flushing
  <2> QED  BY <2>1, <2>2, <2>3, OthersCount
<1>5. CASE Shutdown \/ ShutdownState
  <2>1. Closer \in Threads \ Callers /\ UNCHANGED <<version, accepted, flushed>>
    BY <1>5, ThreadsAssumption DEF Shutdown, ShutdownState, saved, Threads
  <2>2. \A u \in Threads \ {Closer} : thread'[u] = thread[u]
    BY <1>0, <1>5 DEF Shutdown, ShutdownState, Goto, Return
  <2>3. ~Flushing(Closer)'
    <3>1. PICK pc \in {"drainLock", "closing", "idle"} : thread'[Closer].pc = pc
      BY <1>0, <1>5, <2>1 DEF Shutdown, ShutdownState, Goto, Return, Idle, Places
    <3> QED  BY <3>1 DEF Flushing
  <2> QED  BY <2>1, <2>2, <2>3, OthersCount
<1>6. CASE UNCHANGED vars
  BY <1>6 DEF vars, saved, CallInv, Busy, Flushing
<1> QED  BY <1>1, <1>2, <1>3, <1>4, <1>5, <1>6 DEF Next

\* A state has no more flushers than there are calls.
LEMMA FlushersBounded ==
    ASSUME KeyInv, CallInv, NEW s \in States
    PROVE  pending[s].flushers \in 0..MaxCalls
<1>1. Flushers(s) \subseteq Busy
  BY DEF CallInv, Flushers, Flushing, Busy
<1>2. Cardinality(Flushers(s)) <= Cardinality(Busy) /\ Cardinality(Flushers(s)) \in Nat
  BY <1>1, BusyFinite, FS_Subset, FS_CardinalityType
<1>3. Cardinality(Busy) \in Nat /\ version \in Nat /\ MaxCalls \in Nat
  BY BusyFinite, FS_CardinalityType, CallsAssumption DEF KeyInv, WriterInv, Typed
<1>4. pending[s].flushers = Cardinality(Flushers(s))
  BY DEF KeyInv, WriterInv, CountInv
<1> QED  BY <1>2, <1>3, <1>4 DEF CallInv

\* shuttingDown and abandoned are flags.
FlagInv == shuttingDown \in BOOLEAN /\ abandoned \in BOOLEAN

LEMMA FlagStep ==
    ASSUME FlagInv, [Next]_vars
    PROVE  FlagInv'
<1>1. ASSUME NEW c \in Callers, Offer(c) PROVE FlagInv'
  BY <1>1 DEF Offer, FlagInv, Written
<1> QED
  BY <1>1 DEF Next, Shutdown, ShutdownState, Enqueue, FlushNow, CallerStep, GetState, Supersede,
     FlushEnd, Run, DrainStep, DrainCheck, DrainEnd, WriterStep, Lock, Build, Write, vars, saved,
     FlagInv

\* Every variable of the write-behind keeps its type: in particular flushers
\* never goes below zero, nor beyond the calls.
THEOREM TypeCorrect == Spec => []TypeOK
<1> DEFINE Inv == KeyInv /\ CallInv /\ FlagInv
<1>1. Init => Inv
  <2>1. Init => CallInv
    <3> SUFFICES ASSUME Init PROVE CallInv
      OBVIOUS
    <3>1. \A t \in Threads : thread[t].pc = "idle"
      BY DEF Init, Idle
    <3>2. Busy = {} /\ \A t \in Threads : ~Flushing(t)
      BY <3>1 DEF Busy, Flushing, Threads
    <3> QED  BY <3>2, FS_EmptySet, CallsAssumption DEF Init, CallInv
  <2>2. Init => FlagInv
    BY DEF Init, FlagInv
  <2> QED  BY <2>1, <2>2, KeyInitially
<1>2. Inv /\ [Next]_vars => Inv'
  BY KeyStep, CallsCounted, FlagStep
<1>3. Inv => TypeOK
  <2> SUFFICES ASSUME Inv PROVE TypeOK
    OBVIOUS
  <2>1. /\ version \in 0..MaxCalls /\ stored \in 0..version /\ accepted \in 0..version
        /\ flushed \in 0..version /\ states \in States \union {NoState} /\ made \in 0..(2 * MaxCalls)
    BY CallsAssumption DEF KeyInv, WriterInv, Typed, ReadInv, CallInv
  <2> DEFINE Counted == [latest : BOOLEAN, terminal : BOOLEAN,
                         future : {"none", "scheduled", "running", "cancelled"},
                         flushers : 0..MaxCalls, writer : Threads \union {None}]
             Placed == [pc : Pcs, state : States \union {NoState}, read : 0..version]
  <2>2. ASSUME NEW s \in States PROVE pending[s] \in Counted
    BY FlushersBounded DEF KeyInv, WriterInv, Typed, Pendings
  <2>3. ASSUME NEW t \in Threads PROVE thread[t] \in Placed
    BY DEF KeyInv, WriterInv, Typed, ReadInv, Places
  <2>4. pending \in [States -> Counted] /\ thread \in [Threads -> Placed]
    BY <2>2, <2>3 DEF KeyInv, WriterInv, Typed
  <2> QED  BY <2>1, <2>4 DEF FlagInv, TypeOK, Pcs
<1> QED  BY <1>1, <1>2, <1>3, PTL DEF Spec

-----------------------------------------------------------------------------
(***************************************************************************)
(* Quiescence. StateInv is about the map's PendingState, of which MapState *)
(* says who will still see to it; SaveInv is about what it holds.          *)
(***************************************************************************)
At(t, s) == AtState(t) /\ thread[t].state = s
Closing == thread[Closer].pc = "closing"
\* The shutdown will look at state s.
CloserComes(s) == Closing \/ (thread[Closer].pc \in {"drainLock", "drainCheck"} /\ thread[Closer].state = s)

\* A terminal state of the map has a flusher. Of another one the drain that runs
\* is known to future, what is queued will be drained, and somebody will see to
\* the state's removal.
MapState(s) ==
    LET p == pending[s] IN
    /\ p.terminal => p.flushers > 0
    /\ ~p.terminal =>
          /\ p.future = "running" <=> \E d \in Drains : At(d, s)
          /\ p.future = "cancelled" => At(Closer, s)
          /\ \A d, e \in Drains : At(d, s) /\ At(e, s) => d = e
    /\ p.latest => IF shuttingDown THEN CloserComes(s) ELSE p.future \in {"scheduled", "running"}
    /\ (\E t \in Threads : At(t, s)) \/ p.future = "scheduled" \/ Closing

Unused(s) ==
    /\ ~pending[s].latest /\ pending[s].future = "none" /\ ~pending[s].terminal
    /\ \A t \in Threads : ~At(t, s)

StateInv ==
    /\ states <= made
    /\ \A s \in States : /\ s > made => Unused(s)
                         /\ pending[s].terminal => ~pending[s].latest
                         /\ pending[s].future = "cancelled" => shuttingDown
    /\ \A s \in States : s = states => MapState(s)

\* What a flushNow promised, or is about to promise, is stored.
FlushedInv ==
    ~abandoned => flushed <= stored
                  /\ \A t \in Threads : thread[t].pc = "flushEnd" => thread[t].read <= stored

\* t is about to save what enqueue accepted last.
ToSave(t) == \/ thread[t].pc \in {"flushLock", "flushBuild", "drainBuild"}
             \/ thread[t].pc \in {"flushWrite", "drainWrite"} /\ thread[t].read >= accepted

\* What is accepted and not stored is queued in the map's state, or on its way.
SaveInv ==
    ~abandoned /\ accepted > stored =>
        \E s \in States : s = states /\ (pending[s].latest \/ \E t \in Threads : At(t, s) /\ ToSave(t))

SavedInv == KeyInv /\ CallInv /\ StateInv /\ FlushedInv /\ SaveInv

\* What MapState says of a state depends on this only.
Same(s) ==
    /\ pending'[s].latest = pending[s].latest /\ pending'[s].future = pending[s].future
    /\ pending'[s].terminal = pending[s].terminal /\ pending'[s].flushers = pending[s].flushers
    /\ \A t \in Threads : At(t, s)' <=> At(t, s)
    /\ (Closing' <=> Closing) /\ (CloserComes(s)' <=> CloserComes(s))

LEMMA SameMapState ==
    ASSUME NEW s \in States, Same(s), shuttingDown' = shuttingDown, MapState(s)
    PROVE  MapState(s)'
<1>1. /\ \A d \in Drains : At(d, s)' <=> At(d, s)
      /\ At(Closer, s)' <=> At(Closer, s)
      /\ (\E t \in Threads : At(t, s)') <=> \E t \in Threads : At(t, s)
  BY DEF Same, Threads
<1> HIDE DEF At, Closing, CloserComes
<1> QED  BY <1>1 DEF Same, MapState

\* At most state s is touched.
LEMMA OneTouched ==
    ASSUME KeyInv, StateInv, NEW s \in States, UNCHANGED <<made, shuttingDown>>,
           \A x \in States \ {s} : Same(x), s <= made,
           pending'[s].terminal => ~pending'[s].latest,
           pending'[s].future = "cancelled" => shuttingDown,
           states' \in {states, NoState}, states' = s => MapState(s)'
    PROVE  StateInv'
<1>1. made \in Nat /\ states \in States \union {NoState}
  BY DEF KeyInv, WriterInv, Typed
<1>2. states' <= made'
  BY <1>1 DEF StateInv, NoState
<1>3. ASSUME NEW x \in States
      PROVE  /\ x > made' => Unused(x)'
             /\ pending'[x].terminal => ~pending'[x].latest
             /\ pending'[x].future = "cancelled" => shuttingDown'
  <2>1. CASE x = s
    BY <1>1, <2>1 DEF States
  <2>2. CASE x # s
    BY <2>2 DEF StateInv, Unused, Same
  <2> QED  BY <2>1, <2>2
<1>4. ASSUME NEW x \in States, x = states' PROVE MapState(x)'
  <2>1. CASE x = s
    BY <1>4, <2>1
  <2>2. CASE x # s
    <3>1. x = states
      BY <1>4, <2>2 DEF States, NoState
    <3> QED  BY <2>2, <3>1, SameMapState DEF StateInv
  <2> QED  BY <2>1, <2>2
<1> QED  BY <1>2, <1>3, <1>4 DEF StateInv

\* No state is.
LEMMA NoneTouched ==
    ASSUME KeyInv, StateInv, UNCHANGED <<states, made, shuttingDown>>, \A x \in States : Same(x)
    PROVE  StateInv'
<1>1. ASSUME NEW s \in States
      PROVE  /\ s > made' => Unused(s)'
             /\ pending'[s].terminal => ~pending'[s].latest
             /\ pending'[s].future = "cancelled" => shuttingDown'
  BY DEF StateInv, Unused, Same
<1>2. ASSUME NEW x \in States, x = states' PROVE MapState(x)'
  BY <1>2, SameMapState DEF StateInv
<1> QED  BY <1>1, <1>2 DEF StateInv

SameQueue(s) ==
    /\ pending'[s].latest = pending[s].latest /\ pending'[s].future = pending[s].future
    /\ pending'[s].terminal = pending[s].terminal /\ pending'[s].flushers = pending[s].flushers

LEMMA WriterChange ==
    ASSUME KeyInv, NEW s \in States, NEW w, pending' = [pending EXCEPT ![s].writer = w]
    PROVE  \A x \in States : SameQueue(x)
<1>1. pending \in [States -> Pendings] /\ pending[s] \in Pendings
  BY DEF KeyInv, WriterInv, Typed
<1>2. pending'[s] = [pending[s] EXCEPT !.writer = w] /\ \A x \in States \ {s} : pending'[x] = pending[x]
  BY <1>1
<1>3. SameQueue(s)
  BY <1>1, <1>2 DEF Pendings, SameQueue
<1> QED  BY <1>2, <1>3 DEF SameQueue

\* Thread t moves and state x does not notice.
LEMMA Unnoticed ==
    ASSUME NEW t \in Threads, NEW pc, NEW state, Moves(t, pc, state), NEW x \in States, SameQueue(x),
           At(t, x)' <=> At(t, x),
           t = Closer => (Closing' <=> Closing) /\ (CloserComes(x)' <=> CloserComes(x))
    PROVE  Same(x)
<1>1. \A u \in Threads \ {t} : At(u, x)' <=> At(u, x)
  BY DEF Moves, At, AtState
<1>2. (Closing' <=> Closing) /\ (CloserComes(x)' <=> CloserComes(x))
  <2>1. CASE t # Closer
    <3>1. thread'[Closer] = thread[Closer]
      BY <2>1 DEF Moves, Threads
    <3> QED  BY <3>1 DEF Closing, CloserComes
  <2> QED  BY <2>1
<1> QED  BY <1>1, <1>2 DEF Same, SameQueue

\* A caller begins a call, or goes back for another state; a writer gets the lock,
\* builds and writes.
LEMMA CallState ==
    ASSUME KeyInv, StateInv, NEW c \in Callers, Enqueue(c) \/ FlushNow(c)
    PROVE  StateInv'
<1>1. PICK pc \in {"enqueue", "flush"} : thread[c].pc = "idle" /\ Goto(c, pc)
  BY DEF Enqueue, FlushNow
<1>2. UNCHANGED <<states, made, shuttingDown, pending>> /\ c \in Threads /\ c # Closer /\ pc \in Pcs
  BY ThreadsAssumption DEF Enqueue, FlushNow, Threads, Pcs
<1>3. Moves(c, pc, thread[c].state)
  BY <1>1, <1>2, GotoMoves DEF KeyInv, WriterInv
<1>4. \A x \in States : Same(x)
  BY <1>1, <1>2, <1>3, Unnoticed DEF Moves, At, AtState, SameQueue
<1> QED  BY <1>2, <1>4, NoneTouched

LEMMA LockState ==
    ASSUME KeyInv, StateInv, NEW t \in Threads, Lock(t)
    PROVE  StateInv'
<1>1. /\ thread[t].pc \in {"flushLock", "drainLock"}
      /\ pending' = [pending EXCEPT ![thread[t].state].writer = t]
      /\ UNCHANGED <<states, made, shuttingDown>>
  BY DEF Lock
<1>2. PICK pc \in {"flushBuild", "drainCheck"} :
         Goto(t, pc) /\ (pc = "flushBuild" <=> thread[t].pc = "flushLock")
  BY DEF Lock
<1>3. pc \in Pcs /\ Moves(t, pc, thread[t].state)
  BY <1>2, GotoMoves DEF KeyInv, WriterInv, Pcs
<1>4. thread[t].state \in States
  BY <1>1, StateTyped DEF KeyInv, AtState
<1>5. \A x \in States : SameQueue(x)
  BY <1>1, <1>4, WriterChange
<1>6. ASSUME NEW x \in States PROVE Same(x)
  <2>1. At(t, x)' <=> At(t, x)
    BY <1>1, <1>3 DEF Moves, At, AtState
  <2>2. t = Closer => (Closing' <=> Closing) /\ (CloserComes(x)' <=> CloserComes(x))
    BY <1>1, <1>2, <1>3 DEF Moves, Closing, CloserComes
  <2> QED  BY <1>3, <1>5, <2>1, <2>2, Unnoticed
<1> QED  BY <1>1, <1>6, NoneTouched

LEMMA SaveState ==
    ASSUME KeyInv, StateInv, NEW t \in Threads, Build(t) \/ Write(t)
    PROVE  StateInv'
<1>1. thread[t].pc \in {"flushBuild", "flushWrite", "drainBuild", "drainWrite"}
      /\ UNCHANGED <<states, made, shuttingDown, pending>>
  BY DEF Build, Write
<1>2. PICK pc \in {"flushWrite", "drainWrite", "flushEnd", "drainEnd"} : Moves(t, pc, thread[t].state)
  <2>1. CASE Build(t)
    BY <2>1 DEF Build, KeyInv, WriterInv, Typed, Places, Moves, Pcs
  <2>2. CASE Write(t)
    <3>1. PICK pc \in {"flushEnd", "drainEnd"} : Goto(t, pc)
      BY <2>2 DEF Write
    <3> QED  BY <3>1, GotoMoves DEF KeyInv, WriterInv, Pcs
  <2> QED  BY <2>1, <2>2
<1>3. \A x \in States : Same(x)
  BY <1>1, <1>2, Unnoticed DEF Moves, At, AtState, SameQueue, Closing, CloserComes
<1> QED  BY <1>1, <1>3, NoneTouched

\* A caller c moves: the drains and the closer stay where they are.
LEMMA CallerMoves ==
    ASSUME NEW c \in Callers, NEW pc, NEW state, Moves(c, pc, state)
    PROVE  /\ \A u \in Threads \ {c} : \A x \in States : At(u, x)' <=> At(u, x)
           /\ \A d \in Drains : d \in Threads /\ d # c
           /\ Closer \in Threads /\ Closer # c
           /\ Closing' <=> Closing
           /\ \A x \in States : CloserComes(x)' <=> CloserComes(x)
<1>1. Closer \in Threads /\ Closer # c /\ \A d \in Drains : d \in Threads /\ d # c
  BY ThreadsAssumption DEF Threads
<1> QED  BY <1>1 DEF Moves, At, AtState, Closing, CloserComes

\* A caller takes the map's state, or a new one that nobody has touched.
LEMMA GetStateState ==
    ASSUME KeyInv, StateInv, NEW c \in Callers, GetState(c)
    PROVE  StateInv'
<1> SUFFICES ASSUME NEW s, s = IF states = NoState THEN made + 1 ELSE states PROVE StateInv'
  OBVIOUS
<1>1. /\ thread[c].pc \in {"enqueue", "flush"} /\ made < 2 * MaxCalls /\ states' = s
      /\ made' = IF states = NoState THEN made + 1 ELSE made
      /\ UNCHANGED <<pending, shuttingDown>> /\ c \in Threads
  BY DEF GetState, Threads
<1>2. s \in States /\ made \in Nat
  BY <1>1, CallsAssumption DEF KeyInv, WriterInv, Typed, States
<1>3. PICK pc \in {"offer", "supersede"} : Moves(c, pc, s)
  BY <1>1, <1>2 DEF GetState, KeyInv, WriterInv, Typed, Moves, Places, Pcs
<1>4. ~AtState(c) /\ At(c, s)' /\ \A x \in States \ {s} : ~At(c, x)'
  BY <1>1, <1>3 DEF Moves, At, AtState
<1>5. \A x \in States \ {s} : Same(x)
  BY <1>1, <1>3, <1>4, CallerMoves DEF Same, At
<1>6. /\ \A d \in Drains : At(d, s)' <=> At(d, s)
      /\ (At(Closer, s)' <=> At(Closer, s)) /\ (CloserComes(s)' <=> CloserComes(s))
      /\ \A d \in Drains : d \in Threads
  BY <1>2, <1>3, CallerMoves
<1>7. CASE states # NoState
  <2>1. s = states /\ MapState(s) /\ s <= made /\ made' = made
    BY <1>1, <1>2, <1>7 DEF StateInv
  <2>2. MapState(s)'
    <3> HIDE DEF At, CloserComes
    <3> QED  BY <1>1, <1>4, <1>6, <2>1 DEF MapState
  <2>3. pending'[s].terminal => ~pending'[s].latest
    BY <1>1, <1>2 DEF StateInv
  <2>4. pending'[s].future = "cancelled" => shuttingDown
    BY <1>1, <1>2 DEF StateInv
  <2>5. states' \in {states, NoState} /\ UNCHANGED <<made, shuttingDown>>
    BY <1>1, <2>1
  <2> QED  BY <1>2, <1>5, <2>1, <2>2, <2>3, <2>4, <2>5, OneTouched
<1>8. CASE states = NoState
  <2>1. s = made + 1 /\ made' = made + 1
    BY <1>1, <1>8
  <2>2. Unused(s)
    BY <1>2, <2>1 DEF StateInv
  <2>3. MapState(s)'
    <3> HIDE DEF At, CloserComes
    <3> QED  BY <1>1, <1>4, <1>6, <2>2 DEF MapState, Unused
  <2>4. \A x \in States : x > made' => x > made /\ x # s
    BY <1>2, <2>1 DEF States
  <2>5. \A x \in States : x > made' => Unused(x)'
    BY <1>1, <1>5, <2>4 DEF StateInv, Unused, Same
  <2>6. states' <= made'
    BY <1>1, <1>2, <2>1
  <2>7. \A x \in States : /\ pending'[x].terminal => ~pending'[x].latest
                          /\ pending'[x].future = "cancelled" => shuttingDown'
    BY <1>1 DEF StateInv
  <2> QED  BY <1>1, <2>3, <2>5, <2>6, <2>7 DEF StateInv
<1> QED  BY <1>7, <1>8

\* enqueue leaves its projection with the drain that is scheduled or runs, or
\* schedules one; on shutdown it removes a state that has none.
LEMMA OfferState ==
    ASSUME KeyInv, StateInv, NEW c \in Callers, Offer(c)
    PROVE  StateInv'
<1> SUFFICES ASSUME NEW s, s = thread[c].state PROVE StateInv'
  OBVIOUS
<1>1. thread[c].pc = "offer" /\ UNCHANGED <<made, shuttingDown>> /\ c \in Threads
  BY DEF Offer, Threads
<1>2. s \in States /\ pending[s] \in Pendings /\ At(c, s) /\ made \in Nat
  BY <1>1, StateTyped DEF KeyInv, AtState, At, WriterInv, Typed
<1>3. s <= made
  BY <1>1, <1>2 DEF StateInv, Unused, States
<1>4. PICK pc, x : pc \in {"idle", "enqueue"} /\ Moves(c, pc, x)
  <2>1. CASE Return(c)
    BY <1>1, <2>1, ReturnMoves DEF KeyInv, WriterInv
  <2>2. CASE Goto(c, "enqueue")
    BY <1>1, <2>2, GotoMoves DEF KeyInv, WriterInv, Pcs
  <2> QED  BY <2>1, <2>2 DEF Offer
<1>5. \A y \in States : ~At(c, y)' /\ (y # s => ~At(c, y))
  BY <1>2, <1>4 DEF Moves, At, AtState
<1>6. ASSUME NEW y \in States \ {s}, SameQueue(y) PROVE Same(y)
  BY <1>4, <1>5, <1>6, CallerMoves DEF Same, SameQueue
<1>7. /\ \A d \in Drains : d \in Threads /\ (At(d, s)' <=> At(d, s))
      /\ (At(Closer, s)' <=> At(Closer, s)) /\ (CloserComes(s)' <=> CloserComes(s))
      /\ Closing' <=> Closing
      /\ \A u \in Threads \ {c} : At(u, s)' <=> At(u, s)
  BY <1>2, <1>4, CallerMoves
<1>8. /\ pending[s].terminal => ~pending[s].latest
      /\ pending[s].future = "cancelled" => shuttingDown
  BY <1>2 DEF StateInv
<1>m. states = s => MapState(s)
  BY <1>2 DEF StateInv
<1>9. CASE pending[s].terminal /\ UNCHANGED <<states, pending>>
  <2>1. states = s => MapState(s)'
    <3> SUFFICES ASSUME states = s PROVE MapState(s)'
      OBVIOUS
    <3>1. pending[s].flushers > 0
      BY <1>9, <1>m DEF MapState
    <3>2. PICK u \in Threads \ {c} : At(u, s)
      <4>1. pending[s].flushers = Cardinality(Flushers(s))
        BY <1>2 DEF KeyInv, WriterInv, CountInv
      <4>2. Flushers(s) # {}
        BY <3>1, <4>1, FS_EmptySet
      <4> QED  BY <1>1, <4>2 DEF Flushers, Flushing, At, AtState
    <3>3. At(u, s)'
      BY <1>7, <3>2
    <3> HIDE DEF At, CloserComes, Closing
    <3> QED  BY <1>1, <1>7, <1>8, <1>9, <1>m, <3>3 DEF MapState
  <2>2. \A y \in States \ {s} : Same(y)
    BY <1>6, <1>9 DEF SameQueue
  <2> QED  BY <1>1, <1>2, <1>3, <1>8, <1>9, <2>1, <2>2, OneTouched
<1>10. CASE states # s /\ UNCHANGED <<states, pending>>
  <2>1. \A y \in States \ {s} : Same(y)
    BY <1>6, <1>10 DEF SameQueue
  <2> QED  BY <1>1, <1>2, <1>3, <1>8, <1>10, <2>1, OneTouched
<1>11. CASE states = s /\ states' = NoState /\ UNCHANGED pending
  <2>1. \A y \in States \ {s} : Same(y)
    BY <1>6, <1>11 DEF SameQueue
  <2>2. states' # s
    BY <1>2, <1>11 DEF States, NoState
  <2> QED  BY <1>1, <1>2, <1>3, <1>8, <1>11, <2>1, <2>2, OneTouched
<1>12. CASE /\ ~pending[s].terminal /\ states = s /\ shuttingDown
            /\ ~(~pending[s].latest /\ pending[s].future = "none") /\ UNCHANGED <<states, pending>>
  <2>1. MapState(s)'
    <3>1. (\E u \in Threads : At(u, s)') \/ pending[s].future = "scheduled" \/ Closing
      <4>1. CASE pending[s].latest
        <5>1. CloserComes(s)
          BY <1>12, <1>m, <4>1 DEF MapState
        <5>2. Closing \/ At(Closer, s)
          BY <5>1 DEF CloserComes, At, AtState
        <5> QED  BY <1>7, <5>2, CallerMoves, <1>4
      <4>2. CASE pending[s].future = "running"
        BY <1>7, <1>12, <1>m, <4>2 DEF MapState
      <4>3. CASE pending[s].future = "cancelled"
        BY <1>4, <1>7, <1>12, <1>m, <4>3, CallerMoves DEF MapState
      <4> QED  BY <1>2, <1>12, <4>1, <4>2, <4>3, PendingFields
    <3> HIDE DEF At, CloserComes, Closing
    <3> QED  BY <1>1, <1>7, <1>12, <1>m, <3>1 DEF MapState
  <2>2. \A y \in States \ {s} : Same(y)
    BY <1>6, <1>12 DEF SameQueue
  <2> QED  BY <1>1, <1>2, <1>3, <1>8, <1>12, <2>1, <2>2, OneTouched
<1>13. CASE /\ ~pending[s].terminal /\ states = s /\ ~shuttingDown /\ states' = states
            /\ pending' = [pending EXCEPT ![s].latest = TRUE,
                              ![s].future = IF @ = "none" THEN "scheduled" ELSE @]
  <2>1. /\ pending'[s].latest = TRUE /\ pending'[s].terminal = pending[s].terminal
        /\ pending'[s].future = IF pending[s].future = "none" THEN "scheduled" ELSE pending[s].future
        /\ pending'[s].flushers = pending[s].flushers
        /\ \A y \in States \ {s} : pending'[y] = pending[y]
    BY <1>2, <1>13 DEF KeyInv, WriterInv, Typed, Pendings
  <2>2. \A y \in States \ {s} : Same(y)
    BY <1>6, <2>1 DEF SameQueue
  <2>3. pending'[s].future \in {"scheduled", "running"}
    BY <1>2, <1>8, <1>13, <2>1, PendingFields
  <2>4. pending'[s].future = "running" <=> pending[s].future = "running"
    BY <2>1
  <2>5. (\E u \in Threads : At(u, s)') \/ pending'[s].future = "scheduled"
    BY <1>7, <1>13, <1>m, <2>3, <2>4 DEF MapState
  <2>6. MapState(s)'
    <3> HIDE DEF At, CloserComes, Closing
    <3> QED  BY <1>1, <1>7, <1>13, <1>m, <2>1, <2>3, <2>4, <2>5 DEF MapState
  <2>7. (pending'[s].terminal => ~pending'[s].latest) /\ pending'[s].future # "cancelled"
    BY <1>13, <2>1, <2>3
  <2> QED  BY <1>1, <1>2, <1>3, <1>13, <2>2, <2>6, <2>7, OneTouched
<1> QED  BY <1>9, <1>10, <1>11, <1>12, <1>13 DEF Offer

\* The flushers of a state, but for one of them.
LEMMA FlusherLeft ==
    ASSUME KeyInv, NEW s \in States, NEW t \in Threads
    PROVE  /\ pending[s].flushers \in Nat
           /\ pending[s].flushers > 0 /\ ~Flushing(t) => \E u \in Threads \ {t} : Flushing(u) /\ At(u, s)
           /\ t \in Flushers(s) =>
                 /\ pending[s].flushers - 1 \in Nat
                 /\ pending[s].flushers - 1 # 0 => \E u \in Threads \ {t} : Flushing(u) /\ At(u, s)
                 /\ pending[s].flushers - 1 = 0 => \A u \in Threads : Flushing(u) /\ At(u, s) => u = t
<1>1. pending[s].flushers = Cardinality(Flushers(s)) /\ IsFiniteSet(Flushers(s))
  BY FlushersFinite DEF KeyInv, WriterInv, CountInv
<1>2. pending[s].flushers \in Nat
  BY <1>1, FS_CardinalityType
<1>3. \A u \in Threads : u \in Flushers(s) <=> Flushing(u) /\ At(u, s)
  BY DEF Flushers, Flushing, At, AtState
<1>4. pending[s].flushers > 0 => \E u \in Threads : Flushing(u) /\ At(u, s)
  <2>1. pending[s].flushers > 0 => Flushers(s) # {}
    BY <1>1, FS_EmptySet
  <2> QED  BY <1>3, <2>1 DEF Flushers
<1>5. ASSUME t \in Flushers(s)
      PROVE  /\ pending[s].flushers - 1 \in Nat
             /\ pending[s].flushers - 1 # 0 => \E u \in Threads \ {t} : Flushing(u) /\ At(u, s)
             /\ pending[s].flushers - 1 = 0 => \A u \in Threads : Flushing(u) /\ At(u, s) => u = t
  <2>1. /\ Cardinality(Flushers(s) \ {t}) = pending[s].flushers - 1 /\ IsFiniteSet(Flushers(s) \ {t})
        /\ Cardinality(Flushers(s) \ {t}) \in Nat
    BY <1>1, <1>5, FS_RemoveElement, FS_CardinalityType
  <2>2. Cardinality(Flushers(s) \ {t}) # 0 <=> Flushers(s) \ {t} # {}
    BY <2>1, FS_EmptySet
  <2>3. Flushers(s) \ {t} # {} => \E u \in Threads \ {t} : Flushing(u) /\ At(u, s)
    BY <1>3 DEF Flushers
  <2>4. Flushers(s) \ {t} = {} => \A u \in Threads : Flushing(u) /\ At(u, s) => u = t
    BY <1>3
  <2> QED  BY <2>1, <2>2, <2>3, <2>4
<1> QED  BY <1>2, <1>4, <1>5

\* flushNow takes the map's state over.
LEMMA SupersedeState ==
    ASSUME KeyInv, StateInv, NEW c \in Callers, Supersede(c)
    PROVE  StateInv'
<1> SUFFICES ASSUME NEW s, s = thread[c].state PROVE StateInv'
  OBVIOUS
<1>1. thread[c].pc = "supersede" /\ UNCHANGED <<states, made, shuttingDown>> /\ c \in Threads
  BY DEF Supersede, Threads
<1>2. s \in States /\ pending[s] \in Pendings /\ At(c, s) /\ made \in Nat
  BY <1>1, StateTyped DEF KeyInv, AtState, At, WriterInv, Typed
<1>3. s <= made
  BY <1>1, <1>2 DEF StateInv, Unused, States
<1>4. PICK pc \in {"flush", "flushLock"} : Goto(c, pc)
  BY DEF Supersede
<1>5. Moves(c, pc, s)
  BY <1>1, <1>4, GotoMoves DEF KeyInv, WriterInv, Pcs
<1>6. \A y \in States \ {s} : ~At(c, y) /\ ~At(c, y)'
  BY <1>2, <1>5 DEF Moves, At
<1>7. ASSUME NEW y \in States \ {s}, SameQueue(y) PROVE Same(y)
  BY <1>5, <1>6, <1>7, CallerMoves DEF Same, SameQueue
<1>8. CASE states # s /\ UNCHANGED pending
  <2>1. \A y \in States \ {s} : Same(y)
    BY <1>7, <1>8 DEF SameQueue
  <2>2. /\ pending'[s].terminal => ~pending'[s].latest
        /\ pending'[s].future = "cancelled" => shuttingDown
    BY <1>2, <1>8 DEF StateInv
  <2> QED  BY <1>1, <1>2, <1>3, <1>8, <2>1, <2>2, OneTouched
<1>9. CASE /\ states = s /\ Goto(c, "flushLock")
           /\ pending' = [pending EXCEPT ![s].terminal = TRUE, ![s].flushers = @ + 1,
                                         ![s].future = "none", ![s].latest = FALSE]
  <2>1. /\ pending'[s].latest = FALSE /\ pending'[s].terminal = TRUE /\ pending'[s].future = "none"
        /\ pending'[s].flushers = pending[s].flushers + 1
        /\ \A y \in States \ {s} : pending'[y] = pending[y]
    BY <1>2, <1>9 DEF KeyInv, WriterInv, Typed, Pendings
  <2>2. \A y \in States \ {s} : Same(y)
    BY <1>7, <2>1 DEF SameQueue
  <2>3. pending'[s].flushers > 0
    BY <1>1, <1>2, <2>1, FlusherLeft
  <2>4. At(c, s)'
    <3>1. Moves(c, "flushLock", s)
      BY <1>1, <1>9, GotoMoves DEF KeyInv, WriterInv, Pcs
    <3> QED  BY <3>1 DEF Moves, At, AtState
  <2>5. MapState(s)'
    <3> HIDE DEF At, CloserComes, Closing
    <3> QED  BY <1>1, <2>1, <2>3, <2>4 DEF MapState
  <2>6. (pending'[s].terminal => ~pending'[s].latest) /\ pending'[s].future # "cancelled"
    BY <2>1
  <2> QED  BY <1>1, <1>2, <1>3, <2>2, <2>5, <2>6, OneTouched
<1> QED  BY <1>8, <1>9 DEF Supersede

\* The last flusher removes the state; otherwise another one is still there.
LEMMA FlushEndState ==
    ASSUME KeyInv, StateInv, NEW c \in Callers, FlushEnd(c)
    PROVE  StateInv'
<1> SUFFICES ASSUME NEW s, s = thread[c].state PROVE StateInv'
  OBVIOUS
<1>1. thread[c].pc = "flushEnd" /\ UNCHANGED <<made, shuttingDown>> /\ c \in Threads
  BY DEF FlushEnd, Threads
<1>2. s \in States /\ pending[s] \in Pendings /\ At(c, s) /\ made \in Nat
  BY <1>1, StateTyped DEF KeyInv, AtState, At, WriterInv, Typed
<1>3. s <= made
  BY <1>1, <1>2 DEF StateInv, Unused, States
<1>4. Moves(c, "idle", NoState)
  BY <1>1, ReturnMoves DEF FlushEnd, KeyInv, WriterInv
<1>5. \A y \in States : ~At(c, y)' /\ (y # s => ~At(c, y))
  BY <1>2, <1>4 DEF Moves, At, AtState
<1>6. /\ pending'[s].latest = pending[s].latest /\ pending'[s].terminal = pending[s].terminal
      /\ pending'[s].future = pending[s].future /\ pending'[s].flushers = pending[s].flushers - 1
      /\ \A y \in States \ {s} : pending'[y] = pending[y]
  BY <1>2 DEF FlushEnd, KeyInv, WriterInv, Typed, Pendings
<1>7. \A y \in States \ {s} : Same(y)
  BY <1>4, <1>5, <1>6, CallerMoves DEF Same
<1>8. pending[s].terminal /\ ~pending[s].latest /\ c \in Flushers(s)
  BY <1>1, <1>2 DEF KeyInv, WriterInv, TerminalInv, Flushing, Flushers, StateInv
<1>9. states' = IF pending[s].flushers - 1 = 0 /\ states = s THEN NoState ELSE states
  BY DEF FlushEnd
<1>10. states' = s => MapState(s)'
  <2> SUFFICES ASSUME states' = s PROVE MapState(s)'
    OBVIOUS
  <2>1. pending[s].flushers - 1 # 0
    BY <1>2, <1>9 DEF States, NoState
  <2>2. pending'[s].flushers > 0 /\ \E u \in Threads \ {c} : At(u, s)
    BY <1>1, <1>2, <1>6, <1>8, <2>1, FlusherLeft
  <2>3. \E u \in Threads : At(u, s)'
    BY <1>2, <1>4, <2>2, CallerMoves
  <2> HIDE DEF At, CloserComes, Closing
  <2> QED  BY <1>6, <1>8, <2>2, <2>3 DEF MapState
<1>11. /\ states' \in {states, NoState} /\ (pending'[s].terminal => ~pending'[s].latest)
       /\ pending'[s].future = "cancelled" => shuttingDown
  BY <1>2, <1>6, <1>8, <1>9 DEF StateInv
<1> QED  BY <1>1, <1>2, <1>3, <1>7, <1>10, <1>11, OneTouched

\* The scheduled drain begins to run: no other drain is at its state.
LEMMA RunState ==
    ASSUME KeyInv, StateInv, NEW d \in Drains, Run(d)
    PROVE  StateInv'
<1>1. PICK s \in States :
         /\ pending[s].future = "scheduled" /\ pending' = [pending EXCEPT ![s].future = "running"]
         /\ thread' = [thread EXCEPT ![d] = [pc |-> "drainLock", state |-> s, read |-> 0]]
  BY DEF Run
<1>2. /\ thread[d].pc = "idle" /\ UNCHANGED <<states, made, shuttingDown>> /\ d \in Threads
      /\ d # Closer /\ Closer \in Threads /\ made \in Nat
  BY ThreadsAssumption DEF Run, Threads, KeyInv, WriterInv, Typed
<1>3. Moves(d, "drainLock", s)
  BY <1>1, <1>2 DEF KeyInv, WriterInv, Typed, Moves, Places, Pcs
<1>4. s <= made
  BY <1>1, <1>2 DEF StateInv, Unused, States
<1>5. /\ pending'[s].latest = pending[s].latest /\ pending'[s].terminal = pending[s].terminal
      /\ pending'[s].future = "running" /\ pending'[s].flushers = pending[s].flushers
      /\ \A y \in States \ {s} : pending'[y] = pending[y]
  BY <1>1 DEF KeyInv, WriterInv, Typed, Pendings
<1>6. At(d, s)' /\ \A y \in States : ~At(d, y) /\ (y # s => ~At(d, y)')
  BY <1>2, <1>3 DEF Moves, At, AtState
<1>7. \A y \in States \ {s} : Same(y)
  BY <1>2, <1>3, <1>5, <1>6, Unnoticed DEF SameQueue
<1>8. /\ \A u \in Threads \ {d} : At(u, s)' <=> At(u, s)
      /\ CloserComes(s)' <=> CloserComes(s)
  BY <1>2, <1>3 DEF Moves, At, AtState, CloserComes, Closing
<1>9. states = s => MapState(s)'
  <2> SUFFICES ASSUME states = s PROVE MapState(s)'
    OBVIOUS
  <2>1. MapState(s)
    BY StateInv DEF StateInv
  <2>2. pending[s].terminal => ~pending[s].latest
    BY DEF StateInv
  <2>3. ~pending[s].terminal => \A e \in Drains : ~At(e, s)
    <3> HIDE DEF At
    <3> QED  BY <1>1, <2>1 DEF MapState
  <2>4. ~pending[s].terminal => \A e \in Drains : At(e, s)' => e = d
    BY <1>8, <2>3 DEF Threads
  <2> HIDE DEF At, CloserComes, Closing
  <2> QED  BY <1>2, <1>5, <1>6, <1>8, <2>1, <2>2, <2>4 DEF MapState
<1>10. /\ pending'[s].terminal => ~pending'[s].latest
       /\ pending'[s].future # "cancelled"
  BY <1>5 DEF StateInv
<1> QED  BY <1>2, <1>4, <1>7, <1>9, <1>10, OneTouched

\* A drain moves, within its state or away from it.
LEMMA DrainMoves ==
    ASSUME KeyInv, NEW d \in Threads, thread[d].pc \in {"drainCheck", "drainEnd"},
           NEW s \in States, s = thread[d].state, NEW pc \in {"idle", "drainBuild", "drainEnd"},
           NEW state, Moves(d, pc, state), pc # "idle" => state = s
    PROVE  /\ \A x \in States \ {s} : SameQueue(x) => Same(x)
           /\ \A u \in Threads \ {d} : At(u, s)' <=> At(u, s)
           /\ At(d, s)' <=> pc # "idle"
           /\ Closing' <=> Closing
           /\ d # Closer =>
                 \A x \in States : CloserComes(x)' <=> CloserComes(x)
<1>1. \A x \in States \ {s} : ~At(d, x) /\ ~At(d, x)'
  BY DEF Moves, At, AtState
<1>2. d = Closer => ~Closing /\ ~Closing'
  BY DEF Moves, Closing
<1>3. d = Closer => \A x \in States \ {s} : ~CloserComes(x) /\ ~CloserComes(x)'
  BY <1>2 DEF Moves, CloserComes, Closing
<1>4. \A x \in States \ {s} : SameQueue(x) => Same(x)
  BY <1>1, <1>2, <1>3, Unnoticed
<1>5. d # Closer => thread'[Closer] = thread[Closer]
  BY DEF Moves, Threads
<1>6. (Closing' <=> Closing) /\ (d # Closer => \A x \in States : CloserComes(x)' <=> CloserComes(x))
  BY <1>2, <1>5 DEF Closing, CloserComes
<1>7. /\ \A u \in Threads \ {d} : At(u, s)' <=> At(u, s)
      /\ At(d, s)' <=> pc # "idle"
  BY DEF Moves, At, AtState
<1> QED  BY <1>4, <1>6, <1>7

\* A drain gives up on a state that is gone or terminal, or takes what is queued.
LEMMA DrainCheckState ==
    ASSUME KeyInv, StateInv, NEW d \in Drains \union {Closer}, DrainCheck(d)
    PROVE  StateInv'
<1> SUFFICES ASSUME NEW s, s = thread[d].state PROVE StateInv'
  OBVIOUS
<1>1. thread[d].pc = "drainCheck" /\ UNCHANGED <<states, made, shuttingDown>> /\ d \in Threads
  BY DEF DrainCheck, Threads
<1>2. s \in States /\ pending[s] \in Pendings /\ At(d, s) /\ made \in Nat
  BY <1>1, StateTyped DEF KeyInv, AtState, At, WriterInv, Typed
<1>3. s <= made
  BY <1>1, <1>2 DEF StateInv, Unused, States
<1>4. CASE /\ states # s \/ pending[s].terminal
           /\ pending' = [pending EXCEPT ![s].writer = None] /\ Return(d)
  <2>1. Moves(d, "idle", NoState)
    BY <1>1, <1>4, ReturnMoves DEF KeyInv, WriterInv
  <2>2. \A x \in States : SameQueue(x)
    BY <1>2, <1>4, WriterChange
  <2>3. /\ \A x \in States \ {s} : Same(x)
        /\ \A u \in Threads \ {d} : At(u, s)' <=> At(u, s)
        /\ Closing' <=> Closing
    BY <1>1, <1>2, <2>1, <2>2, DrainMoves
  <2>4. /\ pending'[s].terminal => ~pending'[s].latest
        /\ pending'[s].future = "cancelled" => shuttingDown
    BY <1>2, <2>2 DEF StateInv, SameQueue
  <2>5. states' = s => MapState(s)'
    <3> SUFFICES ASSUME states' = s PROVE MapState(s)'
      OBVIOUS
    <3>1. pending[s].terminal /\ MapState(s)
      BY <1>1, <1>2, <1>4 DEF StateInv
    <3>2. pending[s].flushers > 0
      BY <3>1 DEF MapState
    <3>3. ~Flushing(d)
      BY <1>1 DEF Flushing
    <3>4. \E u \in Threads : At(u, s)'
      BY <1>1, <1>2, <2>3, <3>2, <3>3, FlusherLeft
    <3> HIDE DEF At, CloserComes, Closing
    <3> QED  BY <1>2, <2>2, <2>4, <3>1, <3>2, <3>4 DEF MapState, SameQueue
  <2> QED  BY <1>1, <1>2, <1>3, <2>3, <2>4, <2>5, OneTouched
<1>5. CASE /\ states = s /\ ~pending[s].terminal
           /\ pending' = [pending EXCEPT ![s].latest = FALSE]
           /\ Goto(d, IF pending[s].latest THEN "drainBuild" ELSE "drainEnd")
  <2>1. PICK pc \in {"drainBuild", "drainEnd"} : Moves(d, pc, s)
    BY <1>1, <1>5, GotoMoves DEF KeyInv, WriterInv, Pcs
  <2>2. /\ pending'[s].latest = FALSE /\ pending'[s].terminal = FALSE
        /\ pending'[s].future = pending[s].future /\ pending'[s].flushers = pending[s].flushers
        /\ \A y \in States \ {s} : pending'[y] = pending[y]
    BY <1>2, <1>5 DEF KeyInv, WriterInv, Typed, Pendings
  <2>3. /\ \A x \in States \ {s} : Same(x)
        /\ \A u \in Threads : At(u, s)' <=> At(u, s)
    BY <1>1, <1>2, <2>1, <2>2, DrainMoves DEF SameQueue
  <2>4. pending'[s].future = "cancelled" => shuttingDown
    BY <1>2, <2>2 DEF StateInv
  <2>5. MapState(s)'
    <3>1. MapState(s)
      BY <1>2, <1>5 DEF StateInv
    <3> HIDE DEF At, CloserComes, Closing
    <3> QED  BY <1>1, <1>2, <1>5, <2>2, <2>3, <3>1 DEF MapState, Threads
  <2> QED  BY <1>1, <1>2, <1>3, <2>2, <2>3, <2>4, <2>5, OneTouched
<1> QED  BY <1>4, <1>5 DEF DrainCheck

\* What came while a drain was saving is scheduled again, or left to the shutdown.
LEMMA DrainEndState ==
    ASSUME KeyInv, StateInv, NEW d \in Drains \union {Closer}, DrainEnd(d)
    PROVE  StateInv'
<1> SUFFICES ASSUME NEW s, s = thread[d].state PROVE StateInv'
  OBVIOUS
<1> DEFINE over == ~pending[s].latest /\ pending[s].flushers = 0
           again == ~over /\ ~pending[s].terminal /\ ~shuttingDown
<1>1. /\ thread[d].pc = "drainEnd" /\ UNCHANGED <<made, shuttingDown>> /\ d \in Threads
      /\ states' = IF over /\ states = s THEN NoState ELSE states
  BY DEF DrainEnd, Threads
<1>2. s \in States /\ pending[s] \in Pendings /\ At(d, s) /\ made \in Nat
  BY <1>1, StateTyped DEF KeyInv, AtState, At, WriterInv, Typed
<1>3. s <= made
  BY <1>1, <1>2 DEF StateInv, Unused, States
<1>4. Moves(d, "idle", NoState)
  BY <1>1, ReturnMoves DEF DrainEnd, KeyInv, WriterInv
<1>5. /\ pending'[s].latest = pending[s].latest /\ pending'[s].terminal = pending[s].terminal
      /\ pending'[s].future = (IF again THEN "scheduled" ELSE "none")
      /\ pending'[s].flushers = pending[s].flushers
      /\ \A y \in States \ {s} : pending'[y] = pending[y]
  BY <1>2 DEF DrainEnd, KeyInv, WriterInv, Typed, Pendings
<1>6. /\ \A x \in States \ {s} : Same(x)
      /\ \A u \in Threads \ {d} : At(u, s)' <=> At(u, s)
      /\ ~At(d, s)' /\ (Closing' <=> Closing)
      /\ d # Closer => (CloserComes(s)' <=> CloserComes(s))
  BY <1>1, <1>2, <1>4, <1>5, DrainMoves DEF SameQueue
<1>7. /\ pending[s].terminal => ~pending[s].latest
      /\ pending'[s].future # "cancelled"
  BY <1>2, <1>5 DEF StateInv
<1>8. ~Flushing(d) /\ ~(d = Closer /\ CloserComes(s)) /\ (d = Closer => shuttingDown)
  BY <1>1 DEF Flushing, CloserComes, Closing, KeyInv, CloserInv
<1>9. states' = s => MapState(s)'
  <2> SUFFICES ASSUME states' = s PROVE MapState(s)'
    OBVIOUS
  <2>1. states = s /\ ~over /\ MapState(s)
    BY <1>1, <1>2 DEF StateInv, States, NoState
  <2>2. CASE pending[s].terminal
    <3>1. pending[s].flushers > 0
      BY <2>1, <2>2 DEF MapState
    <3>2. \E u \in Threads : At(u, s)'
      BY <1>1, <1>2, <1>6, <1>8, <3>1, FlusherLeft
    <3> HIDE DEF At, CloserComes, Closing
    <3> QED  BY <1>5, <1>7, <2>2, <3>1, <3>2 DEF MapState
  <2>3. CASE ~pending[s].terminal
    <3>1. pending[s].latest
      <4>1. \A u \in Threads : ~(Flushing(u) /\ At(u, s))
        BY <2>3 DEF KeyInv, WriterInv, TerminalInv, At
      <4>2. pending[s].flushers = 0
        BY <1>1, <1>2, <1>8, <4>1, FlusherLeft
      <4> QED  BY <2>1, <4>2
    <3>2. \A e \in Drains : At(e, s) => (d \in Drains /\ e = d) \/ d = Closer
      <4>1. \A e, f \in Drains : At(e, s) /\ At(f, s) => e = f
        <5> HIDE DEF At
        <5> QED  BY <2>1, <2>3 DEF MapState
      <4> QED  BY <1>2, <4>1
    <3>3. IF shuttingDown THEN CloserComes(s) ELSE pending[s].future \in {"scheduled", "running"}
      BY <2>1, <3>1 DEF MapState
    <3>4. d # Closer
      BY <1>8, <3>3
    <3>5. \A e \in Drains : ~At(e, s)'
      BY <1>6, <3>2, <3>4 DEF Threads
    <3>6. CASE shuttingDown
      <4>1. CloserComes(s)' /\ pending'[s].future = "none"
        BY <1>5, <1>6, <3>3, <3>4, <3>6
      <4>2. (\E u \in Threads : At(u, s)') \/ Closing'
        <5>1. Closing' \/ At(Closer, s)'
          BY <4>1 DEF CloserComes, At, AtState
        <5> QED  BY <5>1 DEF Threads
      <4> HIDE DEF At, CloserComes, Closing
      <4> QED  BY <1>1, <1>5, <2>3, <3>5, <3>6, <4>1, <4>2 DEF MapState
    <3>7. CASE ~shuttingDown
      <4>1. pending'[s].future = "scheduled"
        BY <1>5, <2>1, <2>3, <3>7
      <4> HIDE DEF At, CloserComes, Closing
      <4> QED  BY <1>1, <1>5, <2>3, <3>5, <3>7, <4>1 DEF MapState
    <3> QED  BY <3>6, <3>7
  <2> QED  BY <2>2, <2>3
<1>10. states' \in {states, NoState} /\ (pending'[s].terminal => ~pending'[s].latest)
  BY <1>1, <1>5, <1>7
<1> QED  BY <1>1, <1>2, <1>3, <1>6, <1>7, <1>9, <1>10, OneTouched

\* Shutdown: from here on the closer will see to the map's state ...
LEMMA ShutdownBegins ==
    ASSUME KeyInv, StateInv, Shutdown
    PROVE  StateInv'
<1>1. /\ ~shuttingDown /\ shuttingDown' = TRUE /\ Goto(Closer, "closing") /\ Closer \in Threads
      /\ UNCHANGED <<states, made, pending>> /\ thread[Closer].pc = "idle" /\ "closing" \in Pcs
  BY DEF Shutdown, Threads, KeyInv, CloserInv, Pcs
<1>2. Moves(Closer, "closing", thread[Closer].state)
  BY <1>1, GotoMoves DEF KeyInv, WriterInv
<1>3. \A x \in States : \A u \in Threads : At(u, x)' <=> At(u, x)
  BY <1>1, <1>2 DEF Moves, At, AtState
<1>4. Closing' /\ \A x \in States : CloserComes(x)'
  BY <1>2 DEF Moves, Closing, CloserComes
<1>5. ASSUME NEW x \in States, x = states' PROVE MapState(x)'
  <2>1. MapState(x)
    BY <1>1, <1>5 DEF StateInv
  <2> HIDE DEF At, CloserComes, Closing
  <2> QED  BY <1>1, <1>3, <1>4, <2>1 DEF MapState, Threads
<1>6. ASSUME NEW x \in States, x > made' PROVE Unused(x)'
  BY <1>1, <1>3, <1>6 DEF StateInv, Unused
<1> QED  BY <1>1, <1>5, <1>6 DEF StateInv

\* ... and the closer comes to it.
LEMMA ShutdownComes ==
    ASSUME KeyInv, StateInv, ShutdownState
    PROVE  StateInv'
<1>1. /\ thread[Closer].pc = "closing" /\ Closer \in Threads /\ Closer \notin Drains
      /\ UNCHANGED <<states, made, shuttingDown>> /\ states \in States \union {NoState}
      /\ shuttingDown
  BY ThreadsAssumption DEF ShutdownState, Threads, KeyInv, CloserInv, WriterInv, Typed
<1>2. CASE states = NoState /\ Return(Closer) /\ UNCHANGED pending
  <2>1. Moves(Closer, "idle", NoState)
    BY <1>1, <1>2, ReturnMoves DEF KeyInv, WriterInv
  <2>2. \A x \in States : \A u \in Threads : At(u, x)' <=> At(u, x)
    BY <1>1, <2>1 DEF Moves, At, AtState
  <2>3. \A x \in States : x # states'
    BY <1>1, <1>2 DEF States, NoState
  <2>4. ASSUME NEW x \in States, x > made' PROVE Unused(x)'
    BY <1>1, <1>2, <2>2, <2>4 DEF StateInv, Unused
  <2> QED  BY <1>1, <1>2, <2>3, <2>4 DEF StateInv
<1>3. ASSUME NEW s \in States, s = states,
             pending' = [pending EXCEPT ![s].future = IF @ = "scheduled" THEN "cancelled" ELSE @],
             thread' = [thread EXCEPT ![Closer] = [pc |-> "drainLock", state |-> s, read |-> 0]]
      PROVE  StateInv'
  <2>1. Moves(Closer, "drainLock", s)
    BY <1>1, <1>3 DEF KeyInv, WriterInv, Typed, Moves, Places, Pcs
  <2>2. /\ \A u \in Threads \ {Closer} : \A x \in States : At(u, x)' <=> At(u, x)
        /\ At(Closer, s)' /\ CloserComes(s)' /\ \A x \in States \ {s} : ~At(Closer, x)'
    BY <1>1, <2>1 DEF Moves, At, AtState, CloserComes, Closing
  <2>3. /\ pending'[s].latest = pending[s].latest /\ pending'[s].terminal = pending[s].terminal
        /\ pending'[s].future = IF pending[s].future = "scheduled" THEN "cancelled" ELSE pending[s].future
        /\ pending'[s].flushers = pending[s].flushers
        /\ \A y \in States \ {s} : pending'[y] = pending[y]
    BY <1>3 DEF KeyInv, WriterInv, Typed, Pendings
  <2>4. \A d \in Drains : At(d, s)' <=> At(d, s)
    BY <1>1, <2>2 DEF Threads
  <2>5. MapState(s) /\ s <= made /\ made \in Nat
    BY <1>3 DEF StateInv, KeyInv, WriterInv, Typed
  <2>6. MapState(s)'
    <3> HIDE DEF At, CloserComes, Closing
    <3> QED  BY <1>1, <2>2, <2>3, <2>4, <2>5 DEF MapState
  <2>7. ASSUME NEW x \in States, x > made' PROVE Unused(x)'
    <3>1. x # s /\ Unused(x)
      BY <1>1, <2>5, <2>7 DEF StateInv, States
    <3> QED  BY <2>2, <2>3, <3>1 DEF Unused
  <2>8. \A x \in States : /\ pending'[x].terminal => ~pending'[x].latest
                          /\ pending'[x].future = "cancelled" => shuttingDown'
    BY <1>1, <2>3 DEF StateInv
  <2>9. states' <= made' /\ \A x \in States : x = states' => MapState(x)'
    BY <1>1, <1>3, <2>5, <2>6
  <2> QED  BY <2>7, <2>8, <2>9 DEF StateInv
<1> QED  BY <1>1, <1>2, <1>3 DEF ShutdownState

LEMMA StateStep ==
    ASSUME KeyInv, StateInv, [Next]_vars
    PROVE  StateInv'
<1>1. CASE UNCHANGED vars
  <2>1. \A x \in States : Same(x)
    BY <1>1 DEF vars, Same, At, AtState, Closing, CloserComes
  <2> QED  BY <1>1, <2>1, NoneTouched DEF vars
<1> QED
  BY <1>1, CallState, GetStateState, OfferState, SupersedeState, FlushEndState, RunState,
     DrainCheckState, DrainEndState, LockState, SaveState, ShutdownBegins, ShutdownComes
  DEF Next, CallerStep, DrainStep, WriterStep

\* A flushNow promises what it has written itself, and nothing older comes after it.
LEMMA FlushedStep ==
    ASSUME KeyInv, CallInv, FlushedInv, [Next]_vars
    PROVE  FlushedInv'
<1> SUFFICES ASSUME ~abandoned'
             PROVE  /\ flushed' <= stored'
                    /\ \A t \in Threads : thread'[t].pc = "flushEnd" => thread'[t].read <= stored'
  BY DEF FlushedInv
<1>1. ~abandoned
  BY DEF Next, Shutdown, ShutdownState, Enqueue, FlushNow, CallerStep, GetState, Offer, Supersede,
     FlushEnd, Run, DrainStep, DrainCheck, DrainEnd, WriterStep, Lock, Build, Write, vars, saved
<1>2. stored <= stored' /\ stored \in Nat /\ stored' \in Nat /\ flushed \in Nat
  <2>1. KeyInv' /\ stored <= stored'
    BY <1>1, KeyStep
  <2>2. stored \in Nat /\ stored' \in Nat /\ version \in Nat
    BY <2>1 DEF KeyInv, ReadInv, WriterInv, Typed
  <2> QED  BY <2>1, <2>2 DEF CallInv
<1>3. thread \in [Threads -> Places] /\ \A c \in Callers : c \in Threads
  BY DEF KeyInv, WriterInv, Typed, Threads
<1>4. flushed' = flushed \/ \E c \in Callers : FlushEnd(c)
  BY DEF Next, Shutdown, ShutdownState, Enqueue, FlushNow, CallerStep, GetState, Offer, Supersede,
     Run, DrainStep, DrainCheck, DrainEnd, WriterStep, Lock, Build, Write, vars, saved
<1>5. flushed' <= stored'
  <2>1. CASE flushed' = flushed
    BY <1>1, <1>2, <2>1 DEF FlushedInv
  <2>2. ASSUME NEW c \in Callers, FlushEnd(c) PROVE flushed' <= stored'
    BY <1>1, <1>3, <2>2 DEF FlushEnd, FlushedInv
  <2> QED  BY <1>4, <2>1, <2>2
<1>6. ASSUME NEW t \in Threads, thread'[t].pc = "flushEnd"
      PROVE  thread'[t] = thread[t] \/ Write(t)
  <2>1. ASSUME NEW u \in Threads, Lock(u) \/ Build(u) PROVE thread'[t] = thread[t]
    BY <1>3, <1>6, <2>1 DEF Lock, Build, Goto, Places
  <2>2. ASSUME NEW u \in Threads, Write(u) PROVE thread'[t] = thread[t] \/ Write(t)
    BY <1>3, <2>2 DEF Write, Goto
  <2>3. ASSUME NEW c \in Callers, Enqueue(c) \/ FlushNow(c) \/ CallerStep(c) PROVE thread'[t] = thread[t]
    <3>1. \A u \in Threads \ {c} : thread'[u] = thread[u]
      BY <1>3, <2>3
      DEF Enqueue, FlushNow, CallerStep, GetState, Offer, Supersede, FlushEnd, Goto, Return
    <3>2. CASE GetState(c)
      BY <1>3, <1>6, <3>1, <3>2 DEF GetState, Places
    <3>3. CASE Enqueue(c) \/ FlushNow(c) \/ Offer(c) \/ Supersede(c) \/ FlushEnd(c)
      <4>1. Return(c) \/ \E pc \in {"enqueue", "flush", "flushLock"} : Goto(c, pc)
        BY <3>3 DEF Enqueue, FlushNow, Offer, Supersede, FlushEnd
      <4> QED  BY <1>3, <1>6, <3>1, <4>1 DEF Goto, Return, Idle, Places
    <3> QED  BY <2>3, <3>2, <3>3 DEF CallerStep
  <2>4. ASSUME NEW d \in Drains \union {Closer}, Run(d) \/ DrainStep(d) PROVE thread'[t] = thread[t]
    BY <1>3, <1>6, <2>4 DEF Run, DrainStep, DrainCheck, DrainEnd, Goto, Return, Idle, Places, Threads
  <2>5. CASE Shutdown \/ ShutdownState
    BY <1>3, <1>6, <2>5 DEF Shutdown, ShutdownState, Goto, Return, Idle, Places, Threads
  <2>6. CASE UNCHANGED vars
    BY <2>6 DEF vars
  <2> QED  BY <2>1, <2>2, <2>3, <2>4, <2>5, <2>6 DEF Next, WriterStep
<1>7. ASSUME NEW t \in Threads, thread'[t].pc = "flushEnd" PROVE thread'[t].read <= stored'
  <2>1. CASE thread'[t] = thread[t]
    <3>1. thread[t].read <= stored /\ thread[t].read \in Nat
      BY <1>1, <1>3, <1>7, <2>1 DEF FlushedInv, Places
    <3> QED  BY <1>2, <2>1, <3>1
  <2>2. CASE Write(t)
    BY <1>2, <1>3, <2>2 DEF Write, Goto, Places
  <2> QED  BY <1>6, <1>7, <2>1, <2>2
<1> QED  BY <1>5, <1>7

\* Thread t moves: what is queued stays so or t takes it on itself, and t loses
\* nothing it was about to save.
LEMMA SaveKept ==
    ASSUME KeyInv, CallInv, SaveInv, NEW t \in Threads, \A u \in Threads \ {t} : thread'[u] = thread[u],
           UNCHANGED <<states, accepted, abandoned>>, stored' \in Nat, ~abandoned => stored <= stored',
           \A s \in States : s = states /\ pending[s].latest =>
               pending'[s].latest \/ (At(t, s)' /\ ToSave(t)'),
           \A s \in States : At(t, s) /\ ToSave(t) =>
               accepted <= stored' \/ (At(t, s)' /\ ToSave(t)')
    PROVE  SaveInv'
<1> SUFFICES ASSUME ~abandoned', accepted' > stored'
             PROVE  \E s \in States : s = states' /\ (pending'[s].latest
                                         \/ \E u \in Threads : At(u, s)' /\ ToSave(u)')
  BY DEF SaveInv
<1>1. stored \in Nat /\ accepted \in Nat
  BY DEF KeyInv, ReadInv, CallInv, WriterInv, Typed
<1>2. accepted > stored
  BY <1>1
<1>3. PICK s \in States : s = states /\ (pending[s].latest \/ \E u \in Threads : At(u, s) /\ ToSave(u))
  BY <1>2 DEF SaveInv
<1>4. \A u \in Threads \ {t} : At(u, s) /\ ToSave(u) => At(u, s)' /\ ToSave(u)'
  BY DEF At, AtState, ToSave
<1>5. pending'[s].latest \/ \E u \in Threads : At(u, s)' /\ ToSave(u)'
  <2>1. CASE pending[s].latest
    BY <1>3, <2>1
  <2>2. ASSUME NEW u \in Threads, At(u, s), ToSave(u) PROVE At(u, s)' /\ ToSave(u)'
    BY <1>1, <1>4, <2>2
  <2> QED  BY <1>3, <2>1, <2>2
<1> QED  BY <1>3, <1>5

\* Nobody else is about to save while t holds the lock of state s, but for flushers.
LEMMA HolderAlone ==
    ASSUME KeyInv, NEW t \in Threads, Holding(t), NEW s, At(t, s), ~ToSave(t),
           \A u \in Threads : Flushing(u) /\ At(u, s) => u = t
    PROVE  \A u \in Threads : At(u, s) => ~ToSave(u)
<1> SUFFICES ASSUME NEW u \in Threads, At(u, s), ToSave(u) PROVE FALSE
  OBVIOUS
<1>1. Flushing(u) \/ Holding(u)
  BY DEF ToSave, Flushing, Holding
<1>2. Holding(u) => u = t
  BY DEF KeyInv, WriterInv, LockInv, At
<1> QED  BY <1>1, <1>2

LEMMA OfferSaves ==
    ASSUME SavedInv, NEW c \in Callers, Offer(c)
    PROVE  SaveInv'
<1> SUFFICES ASSUME NEW s, s = thread[c].state PROVE SaveInv'
  OBVIOUS
<1>1. thread[c].pc = "offer" /\ UNCHANGED <<stored, shuttingDown>> /\ c \in Threads
  BY DEF Offer, Threads
<1>2. s \in States /\ At(c, s) /\ ~ToSave(c) /\ stored \in Nat
  BY <1>1, StateTyped DEF SavedInv, KeyInv, AtState, At, ToSave, ReadInv
<1>3. \A u \in Threads \ {c} : thread'[u] = thread[u]
  BY DEF Offer, Return, Goto, SavedInv, KeyInv, WriterInv, Typed
<1>4. CASE UNCHANGED <<states, pending, accepted, abandoned>>
  <2>1. \A x \in States : At(c, x) => ~ToSave(c)
    BY <1>2
  <2> QED  BY <1>1, <1>2, <1>3, <1>4, <2>1, SaveKept DEF SavedInv
<1>5. CASE /\ ~pending[s].terminal /\ states = s /\ ~pending[s].latest /\ accepted' = accepted
           /\ abandoned' = (abandoned \/ Written(s))
  <2> SUFFICES ASSUME ~abandoned', accepted > stored PROVE FALSE
    BY <1>1, <1>5 DEF SaveInv
  <2>1. ~abandoned /\ ~Written(s)
    BY <1>5
  <2>2. PICK u \in Threads : At(u, s) /\ ToSave(u)
    BY <1>5, <2>1 DEF SavedInv, SaveInv
  <2>3. Flushing(u) \/ Writing(u)
    BY <2>2 DEF ToSave, Flushing, Writing
  <2> QED  BY <1>5, <2>1, <2>2, <2>3 DEF SavedInv, KeyInv, WriterInv, TerminalInv, Written, At
<1>6. CASE /\ states' = states /\ states = s
           /\ pending' = [pending EXCEPT ![s].latest = TRUE,
                              ![s].future = IF @ = "none" THEN "scheduled" ELSE @]
  <2>1. pending'[s].latest
    BY <1>2, <1>6 DEF SavedInv, KeyInv, WriterInv, Typed, Pendings
  <2> QED  BY <1>2, <1>6, <2>1 DEF SaveInv
<1> QED  BY <1>4, <1>5, <1>6 DEF Offer

LEMMA FlushEndSaves ==
    ASSUME SavedInv, NEW c \in Callers, FlushEnd(c)
    PROVE  SaveInv'
<1> SUFFICES ASSUME NEW s, s = thread[c].state PROVE SaveInv'
  OBVIOUS
<1>1. /\ thread[c].pc = "flushEnd" /\ UNCHANGED <<stored, accepted, abandoned>> /\ c \in Threads
      /\ states' = IF pending[s].flushers - 1 = 0 /\ states = s THEN NoState ELSE states
      /\ pending' = [pending EXCEPT ![s].flushers = pending[s].flushers - 1, ![s].writer = None]
  BY DEF FlushEnd, Threads
<1>2. s \in States /\ At(c, s) /\ ~ToSave(c) /\ stored \in Nat /\ Holding(c) /\ c \in Flushers(s)
  BY <1>1, StateTyped
  DEF SavedInv, KeyInv, AtState, At, ToSave, ReadInv, Holding, Flushers, Flushing
<1>3. /\ \A u \in Threads \ {c} : thread'[u] = thread[u]
      /\ \A x \in States : pending'[x].latest = pending[x].latest
  BY <1>1, <1>2 DEF FlushEnd, Return, SavedInv, KeyInv, WriterInv, Typed, Pendings
<1>4. CASE states' = states
  <2>1. KeyInv /\ CallInv /\ SaveInv /\ stored' \in Nat /\ stored <= stored'
    BY <1>1, <1>2 DEF SavedInv
  <2> QED  BY <1>1, <1>2, <1>3, <1>4, <2>1, SaveKept
<1>5. CASE pending[s].flushers - 1 = 0 /\ states = s
  <2>1. \A u \in Threads : Flushing(u) /\ At(u, s) => u = c
    BY <1>1, <1>2, <1>5, FlusherLeft DEF SavedInv
  <2>2. \A u \in Threads : At(u, s) => ~ToSave(u)
    BY <1>1, <1>2, <2>1, HolderAlone DEF SavedInv
  <2>3. ~pending[s].latest
    BY <1>1, <1>2 DEF SavedInv, KeyInv, WriterInv, TerminalInv, Flushing, StateInv
  <2> QED  BY <1>1, <1>5, <2>2, <2>3 DEF SavedInv, SaveInv
<1> QED  BY <1>1, <1>4, <1>5

LEMMA DrainEndSaves ==
    ASSUME SavedInv, NEW d \in Drains \union {Closer}, DrainEnd(d)
    PROVE  SaveInv'
<1> SUFFICES ASSUME NEW s, s = thread[d].state PROVE SaveInv'
  OBVIOUS
<1> DEFINE over == ~pending[s].latest /\ pending[s].flushers = 0
<1>1. /\ thread[d].pc = "drainEnd" /\ UNCHANGED <<stored, accepted, abandoned>> /\ d \in Threads
      /\ states' = IF over /\ states = s THEN NoState ELSE states
  BY DEF DrainEnd, Threads, saved
<1>2. s \in States /\ At(d, s) /\ ~ToSave(d) /\ stored \in Nat /\ Holding(d)
  BY <1>1, StateTyped DEF SavedInv, KeyInv, AtState, At, ToSave, ReadInv, Holding
<1>3. /\ \A u \in Threads \ {d} : thread'[u] = thread[u]
      /\ \A x \in States : pending'[x].latest = pending[x].latest
  BY <1>1, <1>2 DEF DrainEnd, Return, SavedInv, KeyInv, WriterInv, Typed, Pendings
<1>4. CASE states' = states
  BY <1>1, <1>2, <1>3, <1>4, SaveKept DEF SavedInv, At
<1>5. CASE over /\ states = s
  <2>1. Flushers(s) = {}
    <3>1. Cardinality(Flushers(s)) = 0 /\ IsFiniteSet(Flushers(s))
      BY <1>2, <1>5, FlushersFinite DEF SavedInv, KeyInv, WriterInv, CountInv
    <3> QED  BY <3>1, FS_EmptySet
  <2>2. \A u \in Threads : ~(Flushing(u) /\ At(u, s))
    BY <2>1 DEF Flushers, At
  <2>3. \A u \in Threads : At(u, s) => ~ToSave(u)
    BY <1>1, <1>2, <2>2, HolderAlone DEF SavedInv
  <2> QED  BY <1>1, <1>5, <2>3 DEF SavedInv, SaveInv
<1> QED  BY <1>1, <1>4, <1>5

LEMMA SaveStep ==
    ASSUME SavedInv, [Next]_vars
    PROVE  SaveInv'
<1>0. /\ KeyInv /\ CallInv /\ SaveInv /\ stored \in Nat /\ stored' \in Nat
      /\ ~abandoned => stored <= stored'
      /\ thread \in [Threads -> Places] /\ pending \in [States -> Pendings]
      /\ \A t \in Threads : AtState(t) => thread[t].state \in States
      /\ \A x \in Callers \union Drains \union {Closer} : x \in Threads
  BY KeyStep DEF SavedInv, KeyInv, ReadInv, WriterInv, Typed, Threads
<1>1. ASSUME NEW c \in Callers, Enqueue(c) \/ FlushNow(c) PROVE SaveInv'
  <2>1. UNCHANGED <<states, accepted, abandoned, pending>> /\ thread[c].pc = "idle"
        /\ \A u \in Threads \ {c} : thread'[u] = thread[u]
    BY <1>0, <1>1 DEF Enqueue, FlushNow, Goto, saved
  <2> QED  BY <1>0, <2>1, SaveKept DEF At, AtState
<1>2. ASSUME NEW c \in Callers, GetState(c) PROVE SaveInv'
  <2>1. /\ UNCHANGED <<accepted, abandoned, pending, stored>> /\ thread[c].pc \in {"enqueue", "flush"}
        /\ \A u \in Threads \ {c} : thread'[u] = thread[u]
    BY <1>0, <1>2 DEF GetState, saved
  <2>2. CASE states # NoState
    <3>1. states' = states
      BY <1>2, <2>2 DEF GetState
    <3> QED  BY <1>0, <2>1, <3>1, SaveKept DEF At, AtState
  <2>3. CASE states = NoState
    <3>1. \A s \in States : s # states
      BY <2>3 DEF States, NoState
    <3> QED  BY <1>0, <2>1, <3>1 DEF SaveInv
  <2> QED  BY <2>2, <2>3
<1>3. ASSUME NEW c \in Callers, Supersede(c) PROVE SaveInv'
  <2>1. /\ UNCHANGED <<states, accepted, abandoned, stored>> /\ thread[c].pc = "supersede"
        /\ \A u \in Threads \ {c} : thread'[u] = thread[u]
    BY <1>0, <1>3 DEF Supersede, Goto, saved
  <2>2. CASE UNCHANGED pending
    BY <1>0, <2>1, <2>2, SaveKept DEF At, ToSave
  <2>3. ASSUME NEW s, s = thread[c].state, states = s, Goto(c, "flushLock") PROVE SaveInv'
    <3>1. At(c, s)' /\ ToSave(c)' /\ ~ToSave(c)
      BY <1>0, <2>1, <2>3 DEF Goto, At, AtState, ToSave, Places
    <3> QED  BY <1>0, <2>1, <2>3, <3>1, SaveKept
  <2> QED  BY <1>3, <2>2, <2>3 DEF Supersede
<1>4. ASSUME NEW d \in Drains, Run(d) PROVE SaveInv'
  <2>1. /\ UNCHANGED <<states, accepted, abandoned, stored>> /\ thread[d].pc = "idle"
        /\ \A u \in Threads \ {d} : thread'[u] = thread[u]
        /\ \A x \in States : pending'[x].latest = pending[x].latest
    BY <1>0, <1>4 DEF Run, saved, Pendings
  <2> QED  BY <1>0, <2>1, SaveKept DEF At, AtState
<1>5. ASSUME NEW d \in Drains \union {Closer}, DrainCheck(d) PROVE SaveInv'
  <2> SUFFICES ASSUME NEW s, s = thread[d].state PROVE SaveInv'
    OBVIOUS
  <2>1. /\ UNCHANGED <<states, accepted, abandoned, stored>> /\ thread[d].pc = "drainCheck"
        /\ \A u \in Threads \ {d} : thread'[u] = thread[u]
    BY <1>0, <1>5 DEF DrainCheck, Goto, Return, saved
  <2>2. ~ToSave(d) /\ s \in States
    BY <1>0, <2>1 DEF ToSave, AtState
  <2>3. \A x \in States : pending[x].latest =>
            pending'[x].latest \/ (x = s /\ Goto(d, "drainBuild"))
    <3>1. CASE pending' = [pending EXCEPT ![s].writer = None]
      BY <1>0, <2>2, <3>1 DEF Pendings
    <3>2. CASE pending' = [pending EXCEPT ![s].latest = FALSE] /\ (pending[s].latest => Goto(d, "drainBuild"))
      BY <1>0, <2>2, <3>2 DEF Pendings
    <3> QED  BY <1>5, <3>1, <3>2 DEF DrainCheck
  <2>4. Goto(d, "drainBuild") => At(d, s)' /\ ToSave(d)'
    BY <1>0, <2>1 DEF Goto, At, AtState, ToSave, Places
  <2> QED  BY <1>0, <2>1, <2>2, <2>3, <2>4, SaveKept
<1>6. ASSUME NEW t \in Threads, Lock(t) PROVE SaveInv'
  <2>1. /\ UNCHANGED <<states, accepted, abandoned, stored>> /\ thread[t].pc \in {"flushLock", "drainLock"}
        /\ \A u \in Threads \ {t} : thread'[u] = thread[u]
    BY <1>0, <1>6 DEF Lock, Goto, saved
  <2>2. \A x \in States : pending'[x].latest = pending[x].latest
    <3>1. thread[t].state \in States /\ pending' = [pending EXCEPT ![thread[t].state].writer = t]
      BY <1>0, <1>6, <2>1 DEF Lock, AtState
    <3> QED  BY <1>0, <3>1, WriterChange DEF SameQueue
  <2>3. \A x \in States : At(t, x) /\ ToSave(t) => At(t, x)' /\ ToSave(t)'
    BY <1>0, <1>6, <2>1 DEF Lock, Goto, At, AtState, ToSave, Places
  <2> QED  BY <1>0, <2>1, <2>2, <2>3, SaveKept
<1>7. ASSUME NEW t \in Threads, Build(t) PROVE SaveInv'
  <2>1. /\ UNCHANGED <<states, accepted, abandoned, stored, pending>>
        /\ \A u \in Threads \ {t} : thread'[u] = thread[u]
    BY <1>0, <1>7 DEF Build, saved
  <2>2. thread'[t].pc \in {"flushWrite", "drainWrite"} /\ thread'[t].read = version
        /\ thread'[t].state = thread[t].state /\ thread[t].pc \in {"flushBuild", "drainBuild"}
    BY <1>0, <1>7 DEF Build, Places
  <2>3. version >= accepted /\ accepted' = accepted
    BY <1>0, <2>1 DEF CallInv, KeyInv, WriterInv, Typed
  <2>4. \A x \in States : At(t, x) => At(t, x)' /\ ToSave(t)'
    BY <2>2, <2>3 DEF At, AtState, ToSave
  <2> QED  BY <1>0, <2>1, <2>4, SaveKept
<1>8. ASSUME NEW t \in Threads, Write(t) PROVE SaveInv'
  <2>1. /\ UNCHANGED <<states, accepted, abandoned, pending>> /\ stored' = thread[t].read
        /\ \A u \in Threads \ {t} : thread'[u] = thread[u]
        /\ thread[t].pc \in {"flushWrite", "drainWrite"}
    BY <1>0, <1>8 DEF Write, Goto
  <2>2. ToSave(t) => accepted <= stored'
    BY <1>0, <2>1 DEF ToSave, CallInv, KeyInv, WriterInv, Typed
  <2> QED  BY <1>0, <2>1, <2>2, SaveKept
<1>9. CASE Shutdown \/ ShutdownState
  <2>1. /\ UNCHANGED <<states, accepted, abandoned, stored>> /\ Closer \in Threads
        /\ \A u \in Threads \ {Closer} : thread'[u] = thread[u]
        /\ thread[Closer].pc \in {"idle", "closing"}
    BY <1>0, <1>9 DEF Shutdown, ShutdownState, Goto, Return, saved, KeyInv, CloserInv
  <2>2. \A x \in States : pending'[x].latest = pending[x].latest
    BY <1>0, <1>9 DEF Shutdown, ShutdownState, Pendings
  <2> QED  BY <1>0, <2>1, <2>2, SaveKept DEF At, AtState
<1>10. CASE UNCHANGED vars
  <2>1. UNCHANGED <<states, thread, pending, accepted, abandoned, stored>> /\ Closer \in Threads
    BY <1>0, <1>10 DEF vars, saved
  <2>2. \A x \in States : At(Closer, x) /\ ToSave(Closer) => At(Closer, x)' /\ ToSave(Closer)'
    BY <2>1 DEF At, AtState, ToSave
  <2> QED  BY <1>0, <2>1, <2>2, SaveKept
<1> QED
  BY <1>1, <1>2, <1>3, <1>4, <1>5, <1>6, <1>7, <1>8, <1>9, <1>10,
     OfferSaves, FlushEndSaves, DrainEndSaves
  DEF Next, CallerStep, DrainStep, WriterStep

\* When no thread is at work and no drain is scheduled, Redis has the projection
\* accepted last and whatever a flushNow promised, across a shutdown too, and the
\* key's state has left the map: no enqueue is forgotten between two drains.
THEOREM QuiescentSaved == Spec => []QuiescentIsSaved
<1>1. Init => SavedInv
  <2> SUFFICES ASSUME Init PROVE SavedInv
    OBVIOUS
  <2>1. \A t \in Threads : thread[t].pc = "idle" /\ \A s \in States : ~At(t, s)
    BY DEF Init, Idle, At, AtState
  <2>2. CallInv
    <3>1. Busy = {} /\ \A t \in Threads : ~Flushing(t)
      BY <2>1 DEF Busy, Flushing, Threads
    <3> QED  BY <3>1, FS_EmptySet, CallsAssumption DEF Init, CallInv
  <2>3. StateInv
    BY <2>1 DEF Init, StateInv, Unused, Fresh, States, NoState
  <2>4. FlushedInv /\ SaveInv
    BY <2>1 DEF Init, FlushedInv, SaveInv
  <2> QED  BY <2>2, <2>3, <2>4, KeyInitially DEF SavedInv
<1>2. SavedInv /\ [Next]_vars => SavedInv'
  BY KeyStep, CallsCounted, StateStep, FlushedStep, SaveStep DEF SavedInv
<1>3. SavedInv => QuiescentIsSaved
  <2> SUFFICES ASSUME SavedInv, ~abandoned, \A t \in Threads : thread[t].pc = "idle",
                      \A s \in States : pending[s].future # "scheduled"
               PROVE  stored >= accepted /\ stored >= flushed /\ states = NoState
    BY DEF QuiescentIsSaved
  <2>1. \A t \in Threads : \A s \in States : ~At(t, s)
    BY DEF At, AtState
  <2>2. ~Closing /\ states \in States \union {NoState}
    BY DEF Closing, Threads, SavedInv, KeyInv, WriterInv, Typed
  <2>3. states = NoState
    BY <2>1, <2>2 DEF SavedInv, StateInv, MapState
  <2>4. \A s \in States : s # states
    BY <2>3 DEF States, NoState
  <2>5. stored \in Nat /\ accepted \in Nat /\ flushed \in Nat
    BY DEF SavedInv, KeyInv, ReadInv, CallInv, WriterInv, Typed
  <2>6. stored >= accepted /\ stored >= flushed
    BY <2>4, <2>5 DEF SavedInv, SaveInv, FlushedInv
  <2> QED  BY <2>3, <2>6
<1> QED  BY <1>1, <1>2, <1>3, PTL DEF Spec
=============================================================================

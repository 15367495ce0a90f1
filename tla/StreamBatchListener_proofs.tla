--------------------- MODULE StreamBatchListener_proofs ---------------------
(***************************************************************************)
(* StreamBatchListener for any number of records, any batch and queue size *)
(* and any number of failures.                                             *)
(***************************************************************************)
EXTENDS StreamBatchListener, TLAPS

Slots == [pc : {"off", "take", "process", "ack"}, batch : Seq(Records), good : Nat, next : Nat]

TimerTyped ==
    generation \in Nat /\ timers \subseteq 0..generation /\ scheduled \in BOOLEAN

DrainTyped ==
    /\ drain \in [Drains -> Slots] /\ draining \in BOOLEAN
    /\ \A d \in Drains : drain[d].good <= Len(drain[d].batch) /\ drain[d].next >= 1

QueueTyped ==
    /\ read \in 0..M /\ waiting \in {"no", "parked", "signalled"} /\ closed \in BOOLEAN
    /\ waiting # "no" => read >= 1
    /\ pending \in Seq(Records) /\ retry \in Seq(Records) /\ processed \in Seq(Records)

AcksTyped ==
    /\ ackTimers \in [Records -> 0..AckRetryLimit]
    /\ acked \subseteq Records /\ registry \subseteq Records

ListenerTyped == TimerTyped /\ DrainTyped /\ QueueTyped /\ AcksTyped

LEMMA TypedElements ==
    ASSUME NEW s \in Seq(Records) PROVE Elements(s) \subseteq Records
BY DEF Elements

LEMMA TypedIsTypeOK == ListenerTyped => TypeOK
BY TypedElements
DEF ListenerTyped, TimerTyped, DrainTyped, QueueTyped, AcksTyped, TypeOK, Slots

(***************************************************************************)
(* One drain: draining is set exactly while a slot is in use, and then the *)
(* timer of the current generation is not to come.                         *)
(***************************************************************************)
DrainsIn(D) == {d \in Drains : D[d].pc # "off"}
Alone(D) == \A d, e \in DrainsIn(D) : d = e

DrainInv ==
    /\ draining => generation \notin timers
    /\ draining <=> DrainsIn(drain) # {}
    /\ Alone(drain)

\* What scheduleDrain may do to the slots: start one where there was none.
Starts(D) ==
    \A d \in Drains :
        /\ drain'[d].batch = D[d].batch /\ drain'[d].good = D[d].good /\ drain'[d].next = D[d].next
        /\ drain'[d].pc = D[d].pc \/ (D[d].pc = "off" /\ drain'[d].pc = "take")

LEMMA StartTyped ==
    ASSUME NEW D \in [Drains -> Slots], DrainsIn(D) = {}, Start(D)
    PROVE  drain' \in [Drains -> Slots] /\ Starts(D) /\ Alone(drain') /\ DrainsIn(drain') # {}
<1>1. PICK d \in Drains : D[d].pc = "off" /\ drain' = [D EXCEPT ![d].pc = "take"]
  BY DEF Start
<1>2. /\ drain' \in [Drains -> Slots] /\ drain'[d].pc = "take"
      /\ drain'[d].batch = D[d].batch /\ drain'[d].good = D[d].good /\ drain'[d].next = D[d].next
      /\ \A e \in Drains \ {d} : drain'[e] = D[e]
  BY <1>1 DEF Slots
<1> QED  BY <1>1, <1>2 DEF Starts, Alone, DrainsIn

LEMMA ScheduleKeeps ==
    ASSUME TimerTyped, NEW q, NEW s, NEW busy \in BOOLEAN, NEW D \in [Drains -> Slots],
           busy => generation \notin timers, busy <=> DrainsIn(D) # {}, Alone(D),
           ScheduleDrain(q, s, busy, D)
    PROVE  /\ TimerTyped' /\ drain' \in [Drains -> Slots] /\ draining' \in BOOLEAN
           /\ Starts(D) /\ DrainInv'
<1>1. CASE draining' = busy /\ drain' = D /\ UNCHANGED timer
  BY <1>1 DEF timer, TimerTyped, DrainInv, Starts, Alone, DrainsIn
<1>2. CASE /\ ~busy /\ CancelTimer
           /\ scheduled' = FALSE /\ generation' = generation + 1
           /\ draining' = TRUE /\ Start(D)
  <2>1. timers' \subseteq 0..generation
    BY <1>2 DEF CancelTimer, TimerTyped
  <2>2. generation' \in Nat /\ timers' \subseteq 0..generation' /\ generation' \notin timers'
    <3>1. generation \in Nat /\ generation' = generation + 1
      BY <1>2 DEF TimerTyped
    <3> QED  BY <2>1, <3>1
  <2>3. TimerTyped'
    BY <1>2, <2>2 DEF TimerTyped
  <2> QED  BY <1>2, <2>2, <2>3, StartTyped DEF DrainInv
<1>3. CASE /\ ~busy /\ draining' = FALSE /\ drain' = D
           /\ IF scheduled THEN UNCHANGED timer
              ELSE /\ generation' = generation + 1 /\ scheduled' = TRUE
                   /\ timers' = timers \union {generation + 1}
  <2>1. TimerTyped'
    <3>1. CASE UNCHANGED timer
      BY <3>1 DEF TimerTyped, timer
    <3>2. CASE generation' = generation + 1 /\ timers' = timers \union {generation + 1}
               /\ scheduled' = TRUE
      <4>1. generation' \in Nat /\ timers' \subseteq 0..generation'
        BY <3>2 DEF TimerTyped
      <4> QED  BY <3>2, <4>1 DEF TimerTyped
    <3> QED  BY <1>3, <3>1, <3>2
  <2> QED  BY <1>3, <2>1 DEF DrainInv, Starts, Alone, DrainsIn
<1> QED  BY <1>1, <1>2, <1>3 DEF ScheduleDrain

(***************************************************************************)
(* Sequences: what is cut off, and what is put behind.                     *)
(***************************************************************************)
LEMMA CutTyped ==
    ASSUME NEW s \in Seq(Records), NEW m \in Nat, NEW n \in Nat, m <= n + 1, 1 <= m, n <= Len(s)
    PROVE  /\ SubSeq(s, m, n) \in Seq(Records)
           /\ Len(SubSeq(s, m, n)) = n - m + 1
           /\ \A i \in 1..(n - m + 1) : SubSeq(s, m, n)[i] = s[m + i - 1]
<1>1. \A i \in m..n : s[i] \in Records
  OBVIOUS
<1> QED  BY <1>1

LEMMA JoinTyped ==
    ASSUME NEW s \in Seq(Records), NEW t \in Seq(Records)
    PROVE  /\ s \o t \in Seq(Records) /\ Len(s \o t) = Len(s) + Len(t)
           /\ \A i \in 1..Len(s) : (s \o t)[i] = s[i]
           /\ \A i \in 1..Len(t) : (s \o t)[Len(s) + i] = t[i]
OBVIOUS

LEMMA AppendTyped ==
    ASSUME NEW s \in Seq(Records), NEW e \in Records
    PROVE  /\ Append(s, e) \in Seq(Records) /\ Len(Append(s, e)) = Len(s) + 1
           /\ \A i \in 1..Len(s) : Append(s, e)[i] = s[i]
           /\ Append(s, e)[Len(s) + 1] = e
OBVIOUS

LEMMA EmptyTyped == << >> \in Seq(Records) /\ Len(<< >>) = 0
OBVIOUS

LEMMA OffTyped ==
    /\ Off \in Slots /\ Off.pc = "off" /\ Off.batch = << >> /\ Off.good = 0 /\ Off.next = 1
BY EmptyTyped DEF Off, Slots

LEMMA SlotTyped ==
    ASSUME NEW x \in Slots
    PROVE  /\ x.batch \in Seq(Records) /\ Len(x.batch) \in Nat /\ x.good \in Nat /\ x.next \in Nat
           /\ x = [pc |-> x.pc, batch |-> x.batch, good |-> x.good, next |-> x.next]
<1>1. /\ x.batch \in Seq(Records) /\ x.good \in Nat /\ x.next \in Nat
      /\ x = [pc |-> x.pc, batch |-> x.batch, good |-> x.good, next |-> x.next]
  BY DEF Slots
<1> QED  BY <1>1

\* What is left of a slot whose fields change.
LEMMA SlotChanges ==
    ASSUME NEW x \in Slots, NEW p \in {"off", "take", "process", "ack"}, NEW g \in Nat, NEW n \in Nat
    PROVE  /\ [x EXCEPT !.pc = p] = [pc |-> p, batch |-> x.batch, good |-> x.good, next |-> x.next]
           /\ [x EXCEPT !.pc = p, !.good = g] = [pc |-> p, batch |-> x.batch, good |-> g, next |-> x.next]
           /\ [x EXCEPT !.next = n] = [pc |-> x.pc, batch |-> x.batch, good |-> x.good, next |-> n]
           /\ [pc |-> p, batch |-> x.batch, good |-> g, next |-> n] \in Slots
<1> DEFINE b == x.batch
           o == x.pc
           h == x.good
           m == x.next
<1>1. x = [pc |-> o, batch |-> b, good |-> h, next |-> m]
  BY SlotTyped
<1>2. b \in Seq(Records)
  BY SlotTyped
<1> HIDE DEF b, o, h, m
<1>3. [x EXCEPT !.pc = p] = [pc |-> p, batch |-> b, good |-> h, next |-> m]
  BY <1>1
<1>4. [x EXCEPT !.pc = p, !.good = g] = [pc |-> p, batch |-> b, good |-> g, next |-> m]
  <2>1. [x EXCEPT !.pc = p, !.good = g] = [[x EXCEPT !.pc = p] EXCEPT !.good = g]
    BY Zenon
  <2>2. [[pc |-> p, batch |-> b, good |-> h, next |-> m] EXCEPT !.good = g]
          = [pc |-> p, batch |-> b, good |-> g, next |-> m]
    OBVIOUS
  <2> QED  BY <1>3, <2>1, <2>2, Zenon
<1>5. [x EXCEPT !.next = n] = [pc |-> o, batch |-> b, good |-> h, next |-> n]
  BY <1>1
<1>6. [pc |-> p, batch |-> b, good |-> g, next |-> n] \in Slots
  BY <1>2 DEF Slots
<1> QED  BY <1>3, <1>4, <1>5, <1>6 DEF b, o, h, m

\* A slot whose drain ends.
LEMMA EndTyped ==
    ASSUME NEW d \in Drains, DrainTyped, Alone(drain), drain[d].pc # "off",
           NEW D, D = [drain EXCEPT ![d] = Off]
    PROVE  /\ D \in [Drains -> Slots] /\ DrainsIn(D) = {} /\ Alone(D)
           /\ D[d] = Off /\ \A e \in Drains \ {d} : D[e] = drain[e]
BY OffTyped DEF DrainTyped, Alone, DrainsIn

\* A drain at work goes on: no other slot is in use, before or after.
LEMMA GoOn ==
    ASSUME NEW d \in Drains, drain \in [Drains -> Slots], DrainInv, drain[d].pc # "off",
           NEW slot \in Slots, slot.pc # "off", drain' = [drain EXCEPT ![d] = slot],
           draining' = draining, timers' \subseteq timers, generation' = generation
    PROVE  drain' \in [Drains -> Slots] /\ DrainInv'
           /\ drain'[d] = slot /\ \A e \in Drains \ {d} : drain'[e] = drain[e] /\ drain[e].pc = "off"
<1>1. /\ drain' \in [Drains -> Slots] /\ drain'[d] = slot
      /\ \A e \in Drains \ {d} : drain'[e] = drain[e]
  OBVIOUS
<1>2. \A e \in Drains \ {d} : drain[e].pc = "off"
  <2>1. \A e \in Drains : drain[e].pc \in {"off", "take", "process", "ack"}
    BY DEF Slots
  <2> QED  BY <2>1 DEF DrainInv, Alone, DrainsIn
<1>3. Alone(drain') /\ DrainsIn(drain') # {} /\ DrainsIn(drain) # {}
  BY <1>1, <1>2 DEF Alone, DrainsIn
<1> QED  BY <1>1, <1>2, <1>3 DEF DrainInv

LEMMA RetryTyped ==
    ASSUME AcksTyped, NEW r \in Records, NEW a \in Nat \ {0}, RetryAck(r, a), acked' = acked
    PROVE  AcksTyped'
<1>1. NoTimer \in 0..AckRetryLimit
  BY SizesAssumption DEF NoTimer
<1>2. CASE registry' = registry \union {r} /\ ackTimers' = [ackTimers EXCEPT ![r] = NoTimer]
  BY <1>1, <1>2 DEF AcksTyped
<1>3. CASE a <= AckRetryLimit /\ ackTimers' = [ackTimers EXCEPT ![r] = a] /\ UNCHANGED registry
  BY <1>3, SizesAssumption DEF AcksTyped
<1>4. ~(a > AckRetryLimit) => a <= AckRetryLimit
  BY SizesAssumption
<1> QED  BY <1>2, <1>3, <1>4 DEF RetryAck

LEMMA AcknowledgeTyped ==
    ASSUME AcksTyped, NEW r \in Records, NEW a \in Nat \ {0}, Acknowledge(r, a)
    PROVE  AcksTyped'
<1>1. NoTimer \in 0..AckRetryLimit
  BY SizesAssumption DEF NoTimer
<1>2. CASE /\ acked' = acked \union {r} /\ registry' = registry \ {r}
           /\ ackTimers' = [ackTimers EXCEPT ![r] = NoTimer]
  BY <1>1, <1>2 DEF AcksTyped
<1>3. CASE RetryAck(r, a) /\ UNCHANGED acked
  BY <1>3, RetryTyped
<1> QED  BY <1>2, <1>3 DEF Acknowledge

\* scheduleDrain from the slots as they are.
LEMMA ScheduleNow ==
    ASSUME ListenerTyped, DrainInv, NEW q, NEW s, ScheduleDrain(q, s, draining, drain)
    PROVE  TimerTyped' /\ DrainTyped' /\ DrainInv' /\ Starts(drain)
<1>1. /\ TimerTyped' /\ drain' \in [Drains -> Slots] /\ draining' \in BOOLEAN
      /\ Starts(drain) /\ DrainInv'
  BY ScheduleKeeps DEF ListenerTyped, DrainTyped, DrainInv
<1>2. \A d \in Drains : drain'[d].good <= Len(drain'[d].batch) /\ drain'[d].next >= 1
  BY <1>1 DEF ListenerTyped, DrainTyped, Starts
<1> QED  BY <1>1, <1>2 DEF DrainTyped

LEMMA SignalTyped ==
    ASSUME QueueTyped, Signal
    PROVE  waiting' \in {"no", "parked", "signalled"} /\ (waiting' # "no" <=> waiting # "no")
BY DEF QueueTyped, Signal

\* Every action keeps the types, and one drain.
LEMMA DrainStepKeeps ==
    ASSUME ListenerTyped, DrainInv, [Next]_vars
    PROVE  ListenerTyped' /\ DrainInv'
<1> DEFINE Same == UNCHANGED <<timer, draining, drain>>
           G == ListenerTyped' /\ DrainInv'
<1> SUFFICES G
  OBVIOUS
<1>0. TimerTyped /\ DrainTyped /\ QueueTyped /\ AcksTyped
  BY DEF ListenerTyped
<1>1. ASSUME Same PROVE TimerTyped' /\ DrainTyped' /\ DrainInv'
  BY <1>0, <1>1 DEF timer, TimerTyped, DrainTyped, DrainInv, Alone, DrainsIn
<1>2. ASSUME UNCHANGED acks PROVE AcksTyped'
  BY <1>0, <1>2 DEF acks, AcksTyped
<1>3. ASSUME OnMessage PROVE G
  <2>1. read' = read + 1 /\ read' \in 0..M /\ read' \in Records /\ UNCHANGED <<closed, acks, processed>>
    BY <1>0, <1>3, SizesAssumption DEF OnMessage, QueueTyped, Records
  <2>2. CASE UNCHANGED <<queue, timer, draining, drain>> /\ waiting' \in {waiting, "parked"}
    <3>1. QueueTyped'
      BY <1>0, <2>1, <2>2 DEF QueueTyped, queue, Records
    <3> QED  BY <1>1, <1>2, <2>1, <2>2, <3>1 DEF ListenerTyped
  <2>3. CASE /\ pending' = Append(pending, read + 1)
             /\ ScheduleDrain(pending', retry, draining, drain) /\ UNCHANGED <<waiting, retry>>
    <3>1. pending' \in Seq(Records)
      BY <1>0, <2>1, <2>3, AppendTyped DEF QueueTyped
    <3>2. QueueTyped'
      BY <1>0, <2>1, <2>3, <3>1 DEF QueueTyped, Records
    <3> QED  BY <1>2, <2>1, <2>3, <3>2, ScheduleNow DEF ListenerTyped
  <2> QED  BY <1>3, <2>2, <2>3 DEF OnMessage
<1>4. ASSUME EnqueueAfterWait PROVE G
  <2>1. read \in Records /\ UNCHANGED <<read, closed, acks, processed>>
    BY <1>0, <1>4, SizesAssumption DEF EnqueueAfterWait, QueueTyped, Records
  <2>2. CASE UNCHANGED <<queue, timer, draining, drain>> /\ waiting' \in {"no", "parked"}
    <3>1. QueueTyped'
      BY <1>0, <2>1, <2>2 DEF QueueTyped, queue, Records
    <3> QED  BY <1>1, <1>2, <2>1, <2>2, <3>1 DEF ListenerTyped
  <2>3. CASE /\ pending' = Append(pending, read) /\ waiting' = "no"
             /\ ScheduleDrain(pending', retry, draining, drain) /\ UNCHANGED retry
    <3>1. pending' \in Seq(Records)
      BY <1>0, <2>1, <2>3, AppendTyped DEF QueueTyped
    <3>2. QueueTyped'
      BY <1>0, <2>1, <2>3, <3>1 DEF QueueTyped
    <3> QED  BY <1>2, <2>1, <2>3, <3>2, ScheduleNow DEF ListenerTyped
  <2> QED  BY <1>4, <2>2, <2>3 DEF EnqueueAfterWait
<1>5. ASSUME TimerFires PROVE G
  <2>1. QueueTyped' /\ AcksTyped'
    BY <1>0, <1>2, <1>5 DEF TimerFires, QueueTyped, reader, queue
  <2>2. PICK g \in timers :
           /\ timers' = timers \ {g} /\ generation' = generation
           /\ IF closed \/ g # generation
              THEN UNCHANGED <<scheduled, draining, drain>>
              ELSE scheduled' = FALSE /\ draining' = TRUE /\ Start(drain)
    BY <1>5 DEF TimerFires
  <2>3. timers' \subseteq 0..generation'
    BY <1>0, <2>2 DEF TimerTyped
  <2>4. CASE UNCHANGED <<scheduled, draining, drain>>
    <3>1. TimerTyped'
      BY <1>0, <2>2, <2>3, <2>4 DEF TimerTyped
    <3>2. DrainTyped' /\ DrainInv'
      BY <1>0, <2>2, <2>4 DEF DrainTyped, DrainInv, Alone, DrainsIn
    <3> QED  BY <2>1, <3>1, <3>2 DEF ListenerTyped
  <2>5. CASE g = generation /\ scheduled' = FALSE /\ draining' = TRUE /\ Start(drain)
    <3>1. TimerTyped'
      BY <1>0, <2>2, <2>3, <2>5 DEF TimerTyped
    <3>2. DrainsIn(drain) = {} /\ drain \in [Drains -> Slots]
      BY <1>0, <2>5 DEF DrainInv, DrainTyped
    <3>3. drain' \in [Drains -> Slots] /\ Starts(drain) /\ Alone(drain') /\ DrainsIn(drain') # {}
      BY <2>5, <3>2, StartTyped
    <3>4. DrainTyped'
      BY <1>0, <2>5, <3>3 DEF DrainTyped, Starts
    <3>5. DrainInv'
      BY <2>2, <2>5, <3>3 DEF DrainInv
    <3> QED  BY <2>1, <3>1, <3>4, <3>5 DEF ListenerTyped
  <2> QED  BY <2>2, <2>4, <2>5
<1>6. ASSUME Close PROVE G
  <2>1. generation \in Nat /\ generation' = generation + 1
        /\ timers \subseteq 0..generation /\ timers' \subseteq timers
    BY <1>0, <1>6 DEF Close, CancelTimer, TimerTyped
  <2>2. generation' \in Nat /\ timers' \subseteq 0..generation' /\ generation' \notin timers'
    BY <2>1
  <2>3. TimerTyped'
    BY <1>6, <2>2 DEF Close, TimerTyped
  <2>4. DrainTyped' /\ DrainInv'
    BY <1>0, <1>6, <2>2 DEF Close, DrainTyped, DrainInv, Alone, DrainsIn
  <2>5. QueueTyped'
    BY <1>0, <1>6, SignalTyped, EmptyTyped DEF Close, QueueTyped
  <2> QED  BY <1>2, <1>6, <2>3, <2>4, <2>5 DEF Close, ListenerTyped
<1>7. ASSUME NEW d \in Drains, TakeBatch(d) PROVE G
  <2>1. /\ UNCHANGED <<read, timer, closed, acks, processed>>
        /\ drain[d].pc = "take" /\ drain \in [Drains -> Slots]
    BY <1>0, <1>7 DEF TakeBatch, DrainTyped
  <2>2. TimerTyped' /\ AcksTyped'
    BY <1>0, <1>2, <2>1 DEF TimerTyped, timer
  <2>3. CASE draining' = FALSE /\ drain' = [drain EXCEPT ![d] = Off] /\ UNCHANGED <<queue, waiting>>
    <3>1. drain' \in [Drains -> Slots] /\ DrainsIn(drain') = {} /\ Alone(drain')
          /\ drain'[d] = Off /\ \A e \in Drains \ {d} : drain'[e] = drain[e]
      BY <1>0, <2>1, <2>3, EndTyped DEF DrainInv
    <3>2. DrainTyped'
      <4>1. \A e \in Drains : drain'[e].good <= Len(drain'[e].batch) /\ drain'[e].next >= 1
        BY <1>0, <3>1, OffTyped, EmptyTyped DEF DrainTyped
      <4> QED  BY <2>3, <3>1, <4>1 DEF DrainTyped
    <3>3. DrainInv'
      BY <2>3, <3>1 DEF DrainInv
    <3>4. QueueTyped'
      BY <1>0, <2>1, <2>3 DEF QueueTyped, queue
    <3> QED  BY <2>2, <3>2, <3>3, <3>4 DEF ListenerTyped
  <2>4. CASE ~closed
    <3> DEFINE k == IF Len(pending) < MaxBatchSize THEN Len(pending) ELSE MaxBatchSize
               batch == IF retry # << >> THEN retry ELSE SubSeq(pending, 1, k)
               slot == [pc |-> "process", batch |-> batch, good |-> 0, next |-> 1]
    <3>1. /\ retry' = << >>
          /\ pending' = IF retry # << >> THEN pending ELSE SubSeq(pending, k + 1, Len(pending))
          /\ drain' = [drain EXCEPT ![d] = slot] /\ Signal /\ UNCHANGED draining
      BY <1>7, <2>4 DEF TakeBatch
    <3>2. k \in Nat /\ k <= Len(pending)
      BY <1>0, SizesAssumption DEF QueueTyped
    <3>3. SubSeq(pending, 1, k) \in Seq(Records) /\ SubSeq(pending, k + 1, Len(pending)) \in Seq(Records)
      <4>1. Len(pending) \in Nat /\ pending \in Seq(Records)
        BY <1>0 DEF QueueTyped
      <4> HIDE DEF k
      <4> QED  BY <3>2, <4>1, CutTyped
    <3>4. batch \in Seq(Records) /\ pending' \in Seq(Records)
      BY <1>0, <3>1, <3>3 DEF QueueTyped
    <3>5. QueueTyped'
      BY <1>0, <2>1, <3>1, <3>4, SignalTyped, EmptyTyped DEF QueueTyped
    <3>6. slot \in Slots /\ slot.pc = "process" /\ slot.good = 0 /\ slot.next = 1 /\ Len(slot.batch) >= 0
      BY <3>4 DEF Slots
    <3> HIDE DEF slot
    <3>7. timers' \subseteq timers /\ generation' = generation
      BY <2>1 DEF timer
    <3>8. drain' \in [Drains -> Slots] /\ DrainInv'
          /\ drain'[d] = slot /\ \A e \in Drains \ {d} : drain'[e] = drain[e]
      BY <2>1, <3>1, <3>6, <3>7, GoOn
    <3>9. draining' \in BOOLEAN
      BY <1>0, <3>1 DEF DrainTyped
    <3>10. \A e \in Drains : drain'[e].good <= Len(drain'[e].batch) /\ drain'[e].next >= 1
      BY <1>0, <3>6, <3>8 DEF DrainTyped
    <3> QED  BY <2>2, <3>5, <3>8, <3>9, <3>10 DEF ListenerTyped, DrainTyped
  <2> QED  BY <1>7, <2>3, <2>4 DEF TakeBatch
<1>8. ASSUME NEW d \in Drains, ProcessBatch(d) PROVE G
  <2>1. PICK k \in 0..Len(drain[d].batch) :
           /\ processed' = processed \o SubSeq(drain[d].batch, 1, k)
           /\ drain' = [drain EXCEPT ![d].pc = "ack", ![d].good = k]
    BY <1>8 DEF ProcessBatch
  <2>2. /\ UNCHANGED <<reader, queue, timer, draining, closed, acks>>
        /\ drain[d].pc = "process" /\ drain \in [Drains -> Slots] /\ drain[d] \in Slots
    BY <1>0, <1>8 DEF ProcessBatch, DrainTyped
  <2> DEFINE slot == [pc |-> "ack", batch |-> drain[d].batch, good |-> k, next |-> drain[d].next]
  <2>3. slot \in Slots /\ drain' = [drain EXCEPT ![d] = slot]
    <3>1. k \in Nat /\ drain[d].next \in Nat
      BY <2>2, SlotTyped
    <3>2. slot \in Slots /\ [drain[d] EXCEPT !.pc = "ack", !.good = k] = slot
      BY <2>2, <3>1, SlotChanges
    <3>3. drain' = [drain EXCEPT ![d] = [drain[d] EXCEPT !.pc = "ack", !.good = k]]
      BY <2>1
    <3> QED  BY <3>2, <3>3
  <2>4. slot.pc = "ack" /\ slot.batch = drain[d].batch /\ slot.good = k /\ slot.next = drain[d].next
    OBVIOUS
  <2> HIDE DEF slot
  <2>5. timers' \subseteq timers /\ generation' = generation /\ TimerTyped' /\ AcksTyped'
    BY <1>0, <1>2, <2>2 DEF timer, TimerTyped
  <2>6. drain' \in [Drains -> Slots] /\ DrainInv'
        /\ drain'[d] = slot /\ \A e \in Drains \ {d} : drain'[e] = drain[e]
    BY <2>2, <2>3, <2>4, <2>5, GoOn
  <2>7. draining' \in BOOLEAN
    BY <1>0, <2>2 DEF DrainTyped
  <2>8. \A e \in Drains : drain'[e].good <= Len(drain'[e].batch) /\ drain'[e].next >= 1
    BY <1>0, <2>4, <2>6 DEF DrainTyped
  <2>9. processed' \in Seq(Records)
    <3>1. drain[d].batch \in Seq(Records) /\ k \in Nat /\ k <= Len(drain[d].batch)
      BY <2>2 DEF Slots
    <3>2. SubSeq(drain[d].batch, 1, k) \in Seq(Records)
      BY <3>1, CutTyped
    <3> QED  BY <1>0, <2>1, <3>2, JoinTyped DEF QueueTyped
  <2>10. QueueTyped'
    BY <1>0, <2>2, <2>9 DEF QueueTyped, reader, queue
  <2> QED  BY <2>5, <2>6, <2>7, <2>8, <2>10 DEF ListenerTyped, DrainTyped
<1>9. ASSUME NEW d \in Drains, HandleResult(d) PROVE G
  <2>1. /\ UNCHANGED <<reader, queue, timer, draining, closed, processed>>
        /\ drain[d].pc = "ack" /\ drain \in [Drains -> Slots] /\ drain[d] \in Slots
        /\ drain[d].next <= drain[d].good
        /\ drain[d].good <= Len(drain[d].batch) /\ drain[d].next >= 1
    BY <1>0, <1>9 DEF HandleResult, DrainTyped
  <2> DEFINE slot == [pc |-> "ack", batch |-> drain[d].batch, good |-> drain[d].good,
                      next |-> drain[d].next + 1]
  <2>2. drain' = [drain EXCEPT ![d].next = drain[d].next + 1]
    BY <1>9 DEF HandleResult
  <2>3. slot \in Slots /\ drain' = [drain EXCEPT ![d] = slot]
    <3>1. drain[d].next + 1 \in Nat /\ drain[d].good \in Nat
      BY <2>1, SlotTyped
    <3>2. slot \in Slots /\ [drain[d] EXCEPT !.next = drain[d].next + 1] = slot
      <4>1. slot = [pc |-> drain[d].pc, batch |-> drain[d].batch, good |-> drain[d].good,
                    next |-> drain[d].next + 1]
        BY <2>1
      <4> HIDE DEF slot
      <4>2. [pc |-> "ack", batch |-> drain[d].batch, good |-> drain[d].good,
             next |-> drain[d].next + 1] \in Slots
        BY <2>1, <3>1, SlotChanges
      <4>3. [drain[d] EXCEPT !.next = drain[d].next + 1]
              = [pc |-> drain[d].pc, batch |-> drain[d].batch, good |-> drain[d].good,
                 next |-> drain[d].next + 1]
        BY <2>1, <3>1, SlotChanges
      <4> QED  BY <2>1, <4>1, <4>2, <4>3
    <3>3. drain' = [drain EXCEPT ![d] = [drain[d] EXCEPT !.next = drain[d].next + 1]]
      BY <2>2
    <3> QED  BY <3>2, <3>3
  <2>4. slot.pc = "ack" /\ slot.batch = drain[d].batch /\ slot.good = drain[d].good
        /\ slot.next = drain[d].next + 1
    OBVIOUS
  <2> HIDE DEF slot
  <2>5. timers' \subseteq timers /\ generation' = generation /\ TimerTyped'
    BY <1>0, <2>1 DEF timer, TimerTyped
  <2>6. drain' \in [Drains -> Slots] /\ DrainInv'
        /\ drain'[d] = slot /\ \A e \in Drains \ {d} : drain'[e] = drain[e]
    BY <2>1, <2>3, <2>4, <2>5, GoOn
  <2>7. draining' \in BOOLEAN
    BY <1>0, <2>1 DEF DrainTyped
  <2>8. \A e \in Drains : drain'[e].good <= Len(drain'[e].batch) /\ drain'[e].next >= 1
    <3>1. drain[d].next \in Nat
      BY <2>1 DEF Slots
    <3> QED  BY <1>0, <2>1, <2>4, <2>6, <3>1 DEF DrainTyped
  <2>9. AcksTyped'
    <3>1. drain[d].batch[drain[d].next] \in Records
      BY <2>1 DEF Slots
    <3>2. Acknowledge(drain[d].batch[drain[d].next], 1)
      BY <1>9 DEF HandleResult
    <3> QED  BY <1>0, <3>1, <3>2, AcknowledgeTyped
  <2>10. QueueTyped'
    BY <1>0, <2>1 DEF QueueTyped, reader, queue
  <2> QED  BY <2>5, <2>6, <2>7, <2>8, <2>9, <2>10 DEF ListenerTyped, DrainTyped
<1>10. ASSUME NEW d \in Drains, SettleBatch(d) PROVE G
  <2> DEFINE suffix == SubSeq(drain[d].batch, drain[d].good + 1, Len(drain[d].batch))
             ended == [drain EXCEPT ![d] = Off]
  <2>1. /\ UNCHANGED <<reader, pending, closed, acks, processed>>
        /\ drain[d].pc = "ack" /\ drain \in [Drains -> Slots] /\ drain[d] \in Slots
        /\ drain[d].good <= Len(drain[d].batch)
        /\ retry' = IF closed \/ suffix = << >> THEN retry ELSE suffix
    BY <1>0, <1>10 DEF SettleBatch, DrainTyped
  <2>2. suffix \in Seq(Records)
    <3>1. drain[d].batch \in Seq(Records) /\ drain[d].good + 1 \in Nat /\ Len(drain[d].batch) \in Nat
          /\ drain[d].good + 1 <= Len(drain[d].batch) + 1 /\ 1 <= drain[d].good + 1
      BY <2>1 DEF Slots
    <3> QED  BY <3>1, CutTyped
  <2>3. QueueTyped' /\ AcksTyped'
    BY <1>0, <1>2, <2>1, <2>2 DEF QueueTyped, reader
  <2>4. /\ ended \in [Drains -> Slots] /\ DrainsIn(ended) = {} /\ Alone(ended)
        /\ ended[d] = Off /\ \A e \in Drains \ {d} : ended[e] = drain[e]
    BY <1>0, <2>1, EndTyped DEF DrainInv
  <2>5. \A e \in Drains : ended[e].good <= Len(ended[e].batch) /\ ended[e].next >= 1
    BY <1>0, <2>4, OffTyped, EmptyTyped DEF DrainTyped
  <2> HIDE DEF suffix, ended
  <2>6. CASE draining' = FALSE /\ drain' = ended /\ UNCHANGED timer
    <3>1. TimerTyped'
      BY <1>0, <2>6 DEF TimerTyped, timer
    <3>2. DrainInv'
      BY <2>4, <2>6 DEF DrainInv
    <3> QED  BY <2>3, <2>4, <2>5, <2>6, <3>1, <3>2 DEF ListenerTyped, DrainTyped
  <2>7. CASE ScheduleDrain(pending, retry', FALSE, ended)
    <3>1. /\ TimerTyped' /\ drain' \in [Drains -> Slots] /\ draining' \in BOOLEAN
          /\ Starts(ended) /\ DrainInv'
      BY <1>0, <2>4, <2>7, ScheduleKeeps
    <3>2. \A e \in Drains : drain'[e].good <= Len(drain'[e].batch) /\ drain'[e].next >= 1
      BY <2>5, <3>1 DEF Starts
    <3> QED  BY <2>3, <3>1, <3>2 DEF ListenerTyped, DrainTyped
  <2>8. CASE drain' = [drain EXCEPT ![d].pc = "take"] /\ UNCHANGED <<draining, timer>>
    <3> DEFINE slot == [pc |-> "take", batch |-> drain[d].batch, good |-> drain[d].good,
                        next |-> drain[d].next]
    <3>1. slot \in Slots /\ drain' = [drain EXCEPT ![d] = slot]
      <4>1. slot \in Slots /\ [drain[d] EXCEPT !.pc = "take"] = slot
        BY <2>1, SlotTyped, SlotChanges
      <4>2. drain' = [drain EXCEPT ![d] = [drain[d] EXCEPT !.pc = "take"]]
        BY <2>8
      <4> QED  BY <4>1, <4>2
    <3>2. slot.pc = "take" /\ slot.batch = drain[d].batch /\ slot.good = drain[d].good
          /\ slot.next = drain[d].next
      OBVIOUS
    <3> HIDE DEF slot
    <3>3. timers' \subseteq timers /\ generation' = generation /\ TimerTyped'
      BY <1>0, <2>8 DEF timer, TimerTyped
    <3>4. drain' \in [Drains -> Slots] /\ DrainInv'
          /\ drain'[d] = slot /\ \A e \in Drains \ {d} : drain'[e] = drain[e]
      BY <2>1, <2>8, <3>1, <3>2, <3>3, GoOn
    <3>5. draining' \in BOOLEAN
      BY <1>0, <2>8 DEF DrainTyped
    <3>6. \A e \in Drains : drain'[e].good <= Len(drain'[e].batch) /\ drain'[e].next >= 1
      BY <1>0, <3>2, <3>4 DEF DrainTyped
    <3> QED  BY <2>3, <3>3, <3>4, <3>5, <3>6 DEF ListenerTyped, DrainTyped
  <2> QED  BY <1>10, <2>6, <2>7, <2>8 DEF SettleBatch, suffix, ended
<1>11. ASSUME NEW r \in Records, AckTimerFires(r) PROVE G
  <2>1. UNCHANGED <<reader, queue, timer, draining, closed, drain, processed>>
    BY <1>11 DEF AckTimerFires
  <2>2. QueueTyped'
    BY <1>0, <2>1 DEF QueueTyped, reader, queue
  <2>3. AcksTyped'
    <3>1. CASE registry' = registry \union {r} /\ ackTimers' = [ackTimers EXCEPT ![r] = NoTimer]
               /\ UNCHANGED acked
      BY <1>0, <3>1, SizesAssumption DEF AcksTyped, NoTimer
    <3>2. CASE Acknowledge(r, ackTimers[r] + 1)
      <4>1. ackTimers[r] + 1 \in Nat \ {0}
        BY <1>0, SizesAssumption DEF AcksTyped
      <4> QED  BY <1>0, <3>2, <4>1, AcknowledgeTyped
    <3> QED  BY <1>11, <3>1, <3>2 DEF AckTimerFires
  <2> QED  BY <1>1, <2>1, <2>2, <2>3 DEF ListenerTyped
<1>12. ASSUME UNCHANGED vars PROVE G
  BY <1>0, <1>1, <1>2, <1>12 DEF vars, reader, queue, ListenerTyped, QueueTyped
<1> HIDE DEF G
<1> QED
  BY <1>3, <1>4, <1>5, <1>6, <1>7, <1>8, <1>9, <1>10, <1>11, <1>12 DEF Next, DrainStep

(***************************************************************************)
(* Order: processed, the batch in hand, the retry batch, the queue and the *)
(* record the reader waits with are one stretch of the stream.             *)
(***************************************************************************)
Consecutive(s, n) == \A k \in 1..Len(s) : s[k] = n + k

InHand(d) == drain[d].pc \in {"process", "ack"}
Unfinished(d) == Len(drain[d].batch) - drain[d].good
Held == Unfinished(1) + Unfinished(2)
WaitedWith == IF waiting = "no" THEN 0 ELSE 1

BatchInv(d) ==
    /\ drain[d].pc = "process" => drain[d].good = 0
    /\ InHand(d) => /\ retry = << >>
                    /\ Consecutive(drain[d].batch, Len(processed) - drain[d].good)
    /\ ~InHand(d) => Unfinished(d) = 0

QueueInv ==
    /\ closed => pending = << >> /\ retry = << >>
    /\ ~closed => /\ Consecutive(retry, Len(processed))
                  /\ Consecutive(pending, Len(processed) + Held + Len(retry))
                  /\ read = Len(processed) + Held + Len(retry) + Len(pending) + WaitedWith

OrderInv ==
    /\ Consecutive(processed, 0)
    /\ \A d \in Drains : BatchInv(d)
    /\ QueueInv

LEMMA ConsecutiveCut ==
    ASSUME NEW s \in Seq(Records), NEW n \in Int, Consecutive(s, n),
           NEW a \in Nat, NEW b \in Nat, a <= b + 1, 1 <= a, b <= Len(s)
    PROVE  Consecutive(SubSeq(s, a, b), n + a - 1)
<1>1. /\ Len(SubSeq(s, a, b)) = b - a + 1
      /\ \A i \in 1..(b - a + 1) : SubSeq(s, a, b)[i] = s[a + i - 1]
  BY CutTyped
<1>2. \A i \in 1..(b - a + 1) : s[a + i - 1] = n + (a + i - 1)
  BY DEF Consecutive
<1>3. ASSUME NEW i \in 1..Len(SubSeq(s, a, b)) PROVE SubSeq(s, a, b)[i] = (n + a - 1) + i
  BY <1>1, <1>2
<1> QED  BY <1>3 DEF Consecutive

LEMMA ConsecutiveJoin ==
    ASSUME NEW s \in Seq(Records), NEW t \in Seq(Records), NEW n \in Int,
           Consecutive(s, n), Consecutive(t, n + Len(s))
    PROVE  Consecutive(s \o t, n)
<1> SUFFICES ASSUME NEW i \in 1..Len(s \o t) PROVE (s \o t)[i] = n + i
  BY DEF Consecutive
<1>1. /\ Len(s \o t) = Len(s) + Len(t) /\ Len(s) \in Nat /\ Len(t) \in Nat
      /\ \A j \in 1..Len(s) : (s \o t)[j] = s[j]
      /\ \A j \in 1..Len(t) : (s \o t)[Len(s) + j] = t[j]
  BY JoinTyped
<1>2. CASE i \in 1..Len(s)
  BY <1>1, <1>2 DEF Consecutive
<1>3. CASE i > Len(s)
  <2> DEFINE j == i - Len(s)
  <2>1. j \in 1..Len(t) /\ i = Len(s) + j
    BY <1>1, <1>3
  <2>2. t[j] = n + Len(s) + j
    BY <2>1 DEF Consecutive
  <2> QED  BY <1>1, <2>1, <2>2
<1> QED  BY <1>1, <1>2, <1>3

LEMMA ConsecutiveAppend ==
    ASSUME NEW s \in Seq(Records), NEW n \in Int, NEW e \in Records, Consecutive(s, n),
           e = n + Len(s) + 1
    PROVE  Consecutive(Append(s, e), n)
BY AppendTyped DEF Consecutive

LEMMA ConsecutiveEmpty ==
    ASSUME NEW n PROVE Consecutive(<< >>, n)
BY EmptyTyped DEF Consecutive

\* What a consecutive sequence holds.
LEMMA ConsecutiveElements ==
    ASSUME NEW s \in Seq(Records), NEW n \in Int, Consecutive(s, n)
    PROVE  Elements(s) = (n + 1)..(n + Len(s))
<1>1. ASSUME NEW k \in 1..Len(s) PROVE s[k] \in (n + 1)..(n + Len(s))
  BY DEF Consecutive
<1>2. ASSUME NEW e \in (n + 1)..(n + Len(s)) PROVE \E k \in 1..Len(s) : s[k] = e
  <2>1. e - n \in 1..Len(s) /\ s[e - n] = e
    BY DEF Consecutive
  <2> QED  BY <2>1
<1> QED  BY <1>1, <1>2 DEF Elements

\* The slots as they were, but for one that starts.
LEMMA StartsKeeps ==
    ASSUME \A d \in Drains : BatchInv(d), Starts(drain),
           retry' = retry, processed' = processed
    PROVE  (\A d \in Drains : BatchInv(d)') /\ Held' = Held
<1>1. \A d \in Drains :
        /\ drain'[d].batch = drain[d].batch /\ drain'[d].good = drain[d].good
        /\ drain'[d].pc = drain[d].pc \/ (drain[d].pc = "off" /\ drain'[d].pc = "take")
  BY DEF Starts
<1>2. Held' = Held
  BY <1>1 DEF Held, Unfinished, Drains
<1>3. ASSUME NEW d \in Drains PROVE BatchInv(d)'
  <2>1. (InHand(d) <=> InHand(d)') /\ Unfinished(d)' = Unfinished(d)
    BY <1>1 DEF InHand, Unfinished
  <2>2. drain'[d].pc = "process" <=> drain[d].pc = "process"
    BY <1>1
  <2> QED  BY <1>1, <2>1, <2>2 DEF BatchInv
<1> QED  BY <1>2, <1>3

LEMMA SameStarts ==
    ASSUME drain' = drain PROVE Starts(drain)
BY DEF Starts

\* A drain at work is alone.
LEMMA OthersOff ==
    ASSUME NEW d \in Drains, drain \in [Drains -> Slots], DrainInv, drain[d].pc # "off"
    PROVE  \A e \in Drains \ {d} : drain[e].pc = "off"
BY DEF DrainInv, Alone, DrainsIn

\* Slot d changes, and the other one is off or starts.
LEMMA OneSlot ==
    ASSUME NEW d \in Drains,
           \A e \in Drains \ {d} :
               /\ drain[e].pc = "off" /\ drain'[e].pc \in {"off", "take"}
               /\ drain'[e].batch = drain[e].batch /\ drain'[e].good = drain[e].good,
           DrainTyped, DrainTyped', \A e \in Drains : BatchInv(e), BatchInv(d)'
    PROVE  (\A e \in Drains : BatchInv(e)') /\ Held = Unfinished(d) /\ Held' = Unfinished(d)'
           /\ Held \in Nat /\ Held' \in Nat
<1>1. ASSUME NEW e \in Drains \ {d} PROVE BatchInv(e)' /\ Unfinished(e) = 0 /\ Unfinished(e)' = 0
  BY <1>1 DEF BatchInv, InHand, Unfinished
<1>2. Unfinished(d) \in Nat /\ Unfinished(d)' \in Nat
  <2>1. ASSUME NEW D \in [Drains -> Slots], D[d].good <= Len(D[d].batch)
        PROVE  Len(D[d].batch) - D[d].good \in Nat
    <3>1. D[d] \in Slots
      OBVIOUS
    <3> QED  BY <2>1, <3>1, SlotTyped
  <2> QED  BY <2>1 DEF DrainTyped, Unfinished
<1>3. d = 1 \/ d = 2
  BY DEF Drains
<1>4. CASE d = 1
  <2>1. Unfinished(2) = 0 /\ Unfinished(2)' = 0
    BY <1>1, <1>4 DEF Drains
  <2>2. Unfinished(1) \in Nat /\ Unfinished(1)' \in Nat
    BY <1>2, <1>4
  <2>3. Held = Unfinished(1) /\ Held' = Unfinished(1)'
    BY <2>1, <2>2 DEF Held
  <2> QED  BY <1>1, <1>4, <2>2, <2>3
<1>5. CASE d = 2
  <2>1. Unfinished(1) = 0 /\ Unfinished(1)' = 0
    BY <1>1, <1>5 DEF Drains
  <2>2. Unfinished(2) \in Nat /\ Unfinished(2)' \in Nat
    BY <1>2, <1>5
  <2>3. Held = Unfinished(2) /\ Held' = Unfinished(2)'
    BY <2>1, <2>2 DEF Held
  <2> QED  BY <1>1, <1>5, <2>2, <2>3
<1> QED  BY <1>3, <1>4, <1>5

LEMMA HeldTyped == DrainTyped => Held \in Nat
<1>1. ASSUME DrainTyped, NEW d \in Drains PROVE Unfinished(d) \in Nat
  <2>1. drain[d] \in Slots /\ drain[d].good <= Len(drain[d].batch)
    BY <1>1 DEF DrainTyped
  <2> QED  BY <2>1, SlotTyped DEF Unfinished
<1> QED  BY <1>1 DEF Held, Drains

\* Every action keeps the order.
LEMMA OrderStepKeeps ==
    ASSUME ListenerTyped, DrainInv, OrderInv, ListenerTyped', [Next]_vars
    PROVE  OrderInv'
<1>0. /\ QueueTyped /\ DrainTyped /\ QueueTyped' /\ DrainTyped'
      /\ pending \in Seq(Records) /\ retry \in Seq(Records) /\ processed \in Seq(Records)
      /\ read \in Nat /\ drain \in [Drains -> Slots] /\ waiting \in {"no", "parked", "signalled"}
  BY SizesAssumption DEF ListenerTyped, QueueTyped, DrainTyped
<1>1. /\ Held \in Nat /\ Len(pending) \in Nat /\ Len(retry) \in Nat /\ Len(processed) \in Nat
      /\ WaitedWith \in Nat
  BY <1>0, HeldTyped DEF WaitedWith
<1>2. Consecutive(processed, 0) /\ (\A d \in Drains : BatchInv(d)) /\ QueueInv
  BY DEF OrderInv
<1>3. ASSUME Starts(drain), UNCHANGED <<processed, retry, pending, read, waiting, closed>>
      PROVE  OrderInv'
  <2>1. (\A d \in Drains : BatchInv(d)') /\ Held' = Held
    BY <1>2, <1>3, StartsKeeps
  <2>2. QueueInv'
    BY <1>2, <1>3, <2>1 DEF QueueInv, Consecutive, WaitedWith
  <2> QED  BY <1>2, <1>3, <2>1, <2>2 DEF OrderInv, Consecutive
<1>4. ASSUME Starts(drain), UNCHANGED <<processed, retry, closed>>, ~closed,
             NEW e \in Records, e = Len(processed) + Held + Len(retry) + Len(pending) + 1,
             read' = e, waiting' = "no", pending' = Append(pending, e)
      PROVE  OrderInv'
  <2>1. (\A d \in Drains : BatchInv(d)') /\ Held' = Held
    BY <1>2, <1>4, StartsKeeps
  <2>2. Consecutive(pending', Len(processed) + Held + Len(retry))
    BY <1>0, <1>1, <1>2, <1>4, ConsecutiveAppend DEF QueueInv
  <2>3. Len(pending') = Len(pending) + 1 /\ WaitedWith' = 0
    BY <1>0, <1>4, AppendTyped DEF WaitedWith
  <2>4. QueueInv'
    <3>1. Consecutive(retry', Len(processed'))
      BY <1>2, <1>4 DEF QueueInv
    <3>2. Consecutive(pending', Len(processed') + Held' + Len(retry'))
      BY <1>4, <2>1, <2>2
    <3>3. read' = Len(processed') + Held' + Len(retry') + Len(pending') + WaitedWith'
      BY <1>1, <1>4, <2>1, <2>3
    <3> QED  BY <1>4, <3>1, <3>2, <3>3 DEF QueueInv
  <2> QED  BY <1>2, <1>4, <2>1, <2>4 DEF OrderInv
<1>5. ASSUME UNCHANGED <<drain, processed, retry, pending, closed>>,
             closed \/ read' = Len(processed) + Held + Len(retry) + Len(pending) + WaitedWith'
      PROVE  OrderInv'
  <2>1. (\A d \in Drains : BatchInv(d)') /\ Held' = Held
    BY <1>2, <1>5, SameStarts, StartsKeeps
  <2>2. QueueInv'
    BY <1>2, <1>5, <2>1 DEF QueueInv, Consecutive
  <2> QED  BY <1>2, <1>5, <2>1, <2>2 DEF OrderInv, Consecutive
<1>6. ASSUME OnMessage PROVE OrderInv'
  <2>1. /\ read' = read + 1 /\ waiting = "no" /\ UNCHANGED <<closed, processed>>
        /\ read + 1 \in Records
    BY <1>0, <1>6, SizesAssumption DEF OnMessage, Records
  <2>2. CASE closed /\ UNCHANGED <<waiting, queue, drain>>
    BY <1>5, <2>1, <2>2 DEF queue
  <2>3. ~closed => read = Len(processed) + Held + Len(retry) + Len(pending)
    BY <1>1, <1>2, <2>1 DEF QueueInv, WaitedWith
  <2>4. CASE ~closed /\ waiting' = "parked" /\ UNCHANGED <<queue, drain>>
    <3>1. WaitedWith' = 1
      BY <2>4 DEF WaitedWith
    <3>2. read' = Len(processed) + Held + Len(retry) + Len(pending) + WaitedWith'
      BY <1>1, <2>1, <2>3, <2>4, <3>1
    <3> QED  BY <1>5, <2>1, <2>4, <3>2 DEF queue
  <2>5. CASE /\ ~closed /\ pending' = Append(pending, read + 1)
             /\ ScheduleDrain(pending', retry, draining, drain) /\ UNCHANGED <<waiting, retry>>
    <3>1. Starts(drain)
      BY <2>5, ScheduleNow
    <3>2. read + 1 = Len(processed) + Held + Len(retry) + Len(pending) + 1
      BY <2>3, <2>5
    <3> QED  BY <1>4, <2>1, <2>5, <3>1, <3>2
  <2> QED  BY <1>6, <2>2, <2>4, <2>5 DEF OnMessage
<1>7. ASSUME EnqueueAfterWait PROVE OrderInv'
  <2>1. waiting = "signalled" /\ UNCHANGED <<read, closed, processed>>
    BY <1>7 DEF EnqueueAfterWait
  <2>2. CASE closed /\ UNCHANGED <<queue, drain>>
    BY <1>5, <2>1, <2>2 DEF queue
  <2>3. ~closed => read = Len(processed) + Held + Len(retry) + Len(pending) + 1
    BY <1>1, <1>2, <2>1 DEF QueueInv, WaitedWith
  <2>4. CASE ~closed /\ waiting' = "parked" /\ UNCHANGED <<queue, drain>>
    <3>1. read' = Len(processed) + Held + Len(retry) + Len(pending) + WaitedWith'
      BY <2>1, <2>3, <2>4 DEF WaitedWith
    <3> QED  BY <1>5, <2>1, <2>4, <3>1 DEF queue
  <2>5. CASE /\ ~closed /\ waiting' = "no" /\ pending' = Append(pending, read)
             /\ ScheduleDrain(pending', retry, draining, drain) /\ UNCHANGED retry
    <3>1. Starts(drain)
      BY <2>5, ScheduleNow
    <3>2. read \in Records
      <4>1. read >= 1 /\ read \in 0..M
        BY <1>0, <2>1 DEF QueueTyped
      <4> QED  BY <4>1, SizesAssumption DEF Records
    <3> QED  BY <1>4, <2>1, <2>3, <2>5, <3>1, <3>2
  <2> QED  BY <1>7, <2>2, <2>4, <2>5 DEF EnqueueAfterWait
<1>8. ASSUME TimerFires PROVE OrderInv'
  <2>1. UNCHANGED <<reader, queue, closed, processed>>
    BY <1>8 DEF TimerFires
  <2>2. Starts(drain)
    <3>1. CASE UNCHANGED drain
      BY <3>1, SameStarts
    <3>2. CASE generation \in timers /\ Start(drain)
      <4>1. DrainsIn(drain) = {}
        BY <3>2 DEF DrainInv
      <4> QED  BY <1>0, <3>2, <4>1, StartTyped
    <3> QED  BY <1>8, <3>1, <3>2 DEF TimerFires
  <2> QED  BY <1>3, <2>1, <2>2 DEF reader, queue
<1>9. ASSUME Close PROVE OrderInv'
  <2>1. closed' = TRUE /\ pending' = << >> /\ retry' = << >> /\ UNCHANGED <<drain, processed>>
    BY <1>9 DEF Close
  <2>2. \A d \in Drains : BatchInv(d)'
    BY <1>2, <2>1 DEF BatchInv, InHand, Unfinished, Consecutive
  <2> QED  BY <1>2, <2>1, <2>2 DEF OrderInv, QueueInv
<1>10. ASSUME NEW d \in Drains, TakeBatch(d) PROVE OrderInv'
  <2>1. /\ drain[d].pc = "take" /\ UNCHANGED <<read, closed, processed>>
    BY <1>10 DEF TakeBatch
  <2>2. \A e \in Drains \ {d} : drain[e].pc = "off"
    BY <1>0, <2>1, OthersOff
  <2>3. Unfinished(d) = 0
    BY <1>2, <2>1 DEF BatchInv, InHand
  <2>4. CASE closed /\ drain' = [drain EXCEPT ![d] = Off] /\ UNCHANGED <<queue, waiting>>
    <3>1. drain'[d] = Off /\ \A e \in Drains \ {d} : drain'[e] = drain[e]
      BY <1>0, <2>4
    <3>2. BatchInv(d)'
      BY <3>1, OffTyped, EmptyTyped DEF BatchInv, InHand, Unfinished
    <3>3. \A e \in Drains : BatchInv(e)'
      BY <1>0, <1>2, <2>2, <3>1, <3>2, OneSlot
    <3> QED  BY <1>2, <2>1, <2>4, <3>3 DEF OrderInv, QueueInv, queue, Consecutive
  <2>5. CASE ~closed
    <3> DEFINE k == IF Len(pending) < MaxBatchSize THEN Len(pending) ELSE MaxBatchSize
               batch == IF retry # << >> THEN retry ELSE SubSeq(pending, 1, k)
               slot == [pc |-> "process", batch |-> batch, good |-> 0, next |-> 1]
               left == IF retry # << >> THEN pending ELSE SubSeq(pending, k + 1, Len(pending))
    <3>1. retry' = << >> /\ pending' = left /\ drain' = [drain EXCEPT ![d] = slot] /\ Signal
      BY <1>10, <2>5 DEF TakeBatch
    <3>2. k \in Nat /\ k <= Len(pending)
      BY <1>1, SizesAssumption
    <3>3. Held = 0 /\ Consecutive(retry, Len(processed)) /\ Consecutive(pending, Len(processed) + Len(retry))
          /\ read = Len(processed) + Len(retry) + Len(pending) + WaitedWith
      <4>1. Held = 0
        <5>1. \A e \in Drains : Unfinished(e) = 0
          BY <1>2, <2>2, <2>3 DEF BatchInv, InHand
        <5> QED  BY <5>1 DEF Held, Drains
      <4> QED  BY <1>1, <1>2, <2>5, <4>1 DEF QueueInv
    <3>4. /\ Consecutive(batch, Len(processed)) /\ Consecutive(left, Len(processed) + Len(batch))
          /\ Len(batch) + Len(left) = Len(retry) + Len(pending) /\ Len(batch) \in Nat /\ Len(left) \in Nat
      <4>1. CASE retry # << >>
        BY <1>1, <3>3, <4>1
      <4>2. CASE retry = << >>
        <5>1. batch = SubSeq(pending, 1, k) /\ left = SubSeq(pending, k + 1, Len(pending))
          BY <4>2
        <5> HIDE DEF batch, left, k
        <5>2. Len(retry) = 0 /\ Consecutive(pending, Len(processed))
          BY <1>1, <3>3, <4>2, EmptyTyped
        <5>3. Len(batch) = k /\ Len(left) = Len(pending) - k
          BY <1>0, <1>1, <3>2, <5>1, CutTyped
        <5>4. Consecutive(batch, Len(processed) + 1 - 1)
          BY <1>0, <1>1, <3>2, <5>1, <5>2, ConsecutiveCut
        <5>5. Consecutive(left, Len(processed) + (k + 1) - 1)
          BY <1>0, <1>1, <3>2, <5>1, <5>2, ConsecutiveCut
        <5>6. Len(processed) + 1 - 1 = Len(processed) /\ Len(processed) + (k + 1) - 1 = Len(processed) + k
          BY <1>1, <3>2
        <5>7. Consecutive(batch, Len(processed)) /\ Consecutive(left, Len(processed) + Len(batch))
          BY <5>3, <5>4, <5>5, <5>6
        <5> QED  BY <1>1, <3>2, <5>2, <5>3, <5>7
      <4> QED  BY <4>1, <4>2
    <3>5. slot.pc = "process" /\ slot.batch = batch /\ slot.good = 0
      OBVIOUS
    <3> HIDE DEF slot, batch, left, k
    <3>6. drain'[d] = slot /\ \A e \in Drains \ {d} : drain'[e] = drain[e]
      BY <1>0, <3>1
    <3>7. BatchInv(d)' /\ Unfinished(d)' = Len(batch)
      <4>1. drain'[d].pc = "process" /\ drain'[d].batch = batch /\ drain'[d].good = 0
        BY <3>5, <3>6
      <4>2. Len(processed') - 0 = Len(processed) /\ Len(batch) - 0 = Len(batch)
        BY <1>1, <2>1, <3>4
      <4> QED  BY <3>1, <3>4, <4>1, <4>2 DEF BatchInv, InHand, Unfinished
    <3>8. (\A e \in Drains : BatchInv(e)') /\ Held' = Len(batch)
      BY <1>0, <1>2, <2>2, <3>6, <3>7, OneSlot
    <3>9. WaitedWith' = WaitedWith
      BY <1>0, <3>1, SignalTyped DEF WaitedWith
    <3>10. QueueInv'
      <4>1. Consecutive(retry', Len(processed')) /\ Len(retry') = 0
        BY <3>1, ConsecutiveEmpty, EmptyTyped
      <4>2. Len(processed') + Held' + Len(retry') = Len(processed) + Len(batch)
        BY <1>1, <2>1, <3>4, <3>8, <4>1
      <4>3. Consecutive(pending', Len(processed') + Held' + Len(retry'))
        BY <3>1, <3>4, <4>2
      <4>4. read' = Len(processed') + Held' + Len(retry') + Len(pending') + WaitedWith'
        BY <1>1, <2>1, <3>1, <3>3, <3>4, <3>9, <4>2
      <4> QED  BY <2>1, <2>5, <4>1, <4>3, <4>4 DEF QueueInv
    <3> QED  BY <1>2, <2>1, <3>8, <3>10 DEF OrderInv, Consecutive
  <2> QED  BY <1>10, <2>4, <2>5 DEF TakeBatch
<1>11. ASSUME NEW d \in Drains, ProcessBatch(d) PROVE OrderInv'
  <2>1. PICK k \in 0..Len(drain[d].batch) :
           /\ processed' = processed \o SubSeq(drain[d].batch, 1, k)
           /\ drain' = [drain EXCEPT ![d].pc = "ack", ![d].good = k]
    BY <1>11 DEF ProcessBatch
  <2>2. drain[d].pc = "process" /\ UNCHANGED <<reader, queue, closed>> /\ drain[d] \in Slots
    BY <1>0, <1>11 DEF ProcessBatch
  <2>3. \A e \in Drains \ {d} : drain[e].pc = "off"
    BY <1>0, <2>2, OthersOff
  <2> DEFINE batch == drain[d].batch
             done == SubSeq(batch, 1, k)
  <2>4. batch \in Seq(Records) /\ Len(batch) \in Nat /\ k \in Nat /\ k <= Len(batch)
    BY <2>2, SlotTyped
  <2>5. drain'[d].pc = "ack" /\ drain'[d].batch = batch /\ drain'[d].good = k
        /\ \A e \in Drains \ {d} : drain'[e] = drain[e]
    BY <1>0, <2>1, <2>2 DEF Slots
  <2>6. drain[d].good = 0 /\ retry = << >> /\ Consecutive(batch, Len(processed))
    <3>1. drain[d].good = 0 /\ retry = << >> /\ Consecutive(batch, Len(processed) - drain[d].good)
      BY <1>2, <2>2 DEF BatchInv, InHand
    <3>2. Len(processed) - 0 = Len(processed)
      BY <1>1
    <3> QED  BY <3>1, <3>2
  <2>7. done \in Seq(Records) /\ Len(done) = k /\ Consecutive(done, Len(processed))
    <3>1. Consecutive(done, Len(processed) + 1 - 1)
      BY <1>1, <2>4, <2>6, ConsecutiveCut
    <3>2. Len(processed) + 1 - 1 = Len(processed)
      BY <1>1
    <3>3. done \in Seq(Records) /\ Len(done) = k - 1 + 1
      BY <2>4, CutTyped
    <3> QED  BY <2>4, <3>1, <3>2, <3>3
  <2>8. processed' = processed \o done
    BY <2>1
  <2> HIDE DEF batch, done
  <2>9. Len(processed') = Len(processed) + k /\ Consecutive(processed', 0)
    <3>1. Len(processed') = Len(processed) + k
      BY <1>0, <2>7, <2>8, JoinTyped
    <3>2. 0 + Len(processed) = Len(processed)
      BY <1>1
    <3> QED  BY <1>0, <1>2, <2>7, <2>8, <3>1, <3>2, ConsecutiveJoin
  <2>10. BatchInv(d)' /\ Unfinished(d)' = Len(batch) - k /\ Unfinished(d) = Len(batch)
    <3>1. Len(processed') - k = Len(processed) /\ Len(batch) - 0 = Len(batch)
      BY <1>1, <2>4, <2>9
    <3> QED  BY <2>2, <2>5, <2>6, <3>1 DEF BatchInv, InHand, Unfinished, queue, batch
  <2>11. (\A e \in Drains : BatchInv(e)') /\ Held' = Len(batch) - k /\ Held = Len(batch)
    BY <1>0, <1>2, <2>3, <2>5, <2>10, OneSlot
  <2>12. QueueInv'
    <3>1. Len(processed') + Held' + Len(retry') = Len(processed) + Held + Len(retry)
      BY <1>1, <2>2, <2>4, <2>9, <2>11 DEF queue
    <3>2. Consecutive(retry', Len(processed'))
      BY <2>2, <2>6, ConsecutiveEmpty DEF queue
    <3>3. WaitedWith' = WaitedWith
      BY <2>2 DEF reader, WaitedWith
    <3> QED  BY <1>2, <2>2, <3>1, <3>2, <3>3 DEF QueueInv, queue, reader
  <2> QED  BY <2>9, <2>11, <2>12 DEF OrderInv
<1>12. ASSUME NEW d \in Drains, HandleResult(d) PROVE OrderInv'
  <2>1. /\ drain[d].pc = "ack" /\ UNCHANGED <<reader, queue, closed, processed>>
        /\ drain' = [drain EXCEPT ![d].next = drain[d].next + 1] /\ drain[d] \in Slots
    BY <1>0, <1>12 DEF HandleResult
  <2>2. \A e \in Drains \ {d} : drain[e].pc = "off"
    BY <1>0, <2>1, OthersOff
  <2>3. drain'[d].pc = "ack" /\ drain'[d].batch = drain[d].batch /\ drain'[d].good = drain[d].good
        /\ \A e \in Drains \ {d} : drain'[e] = drain[e]
    BY <1>0, <2>1 DEF Slots
  <2>4. BatchInv(d)' /\ Unfinished(d)' = Unfinished(d)
    BY <1>2, <2>1, <2>3 DEF BatchInv, InHand, Unfinished, queue
  <2>5. (\A e \in Drains : BatchInv(e)') /\ Held' = Held
    BY <1>0, <1>2, <2>2, <2>3, <2>4, OneSlot
  <2>6. QueueInv'
    BY <1>2, <2>1, <2>5 DEF QueueInv, queue, reader, WaitedWith, Consecutive
  <2> QED  BY <1>2, <2>1, <2>5, <2>6 DEF OrderInv, Consecutive
<1>13. ASSUME NEW d \in Drains, SettleBatch(d) PROVE OrderInv'
  <2> DEFINE batch == drain[d].batch
             good == drain[d].good
             suffix == SubSeq(batch, good + 1, Len(batch))
             ended == [drain EXCEPT ![d] = Off]
  <2>1. /\ drain[d].pc = "ack" /\ UNCHANGED <<reader, pending, closed, processed>>
        /\ drain[d] \in Slots /\ good <= Len(batch)
        /\ retry' = IF closed \/ suffix = << >> THEN retry ELSE suffix
    BY <1>0, <1>13 DEF SettleBatch, DrainTyped
  <2>2. batch \in Seq(Records) /\ Len(batch) \in Nat /\ good \in Nat
    BY <2>1, SlotTyped
  <2>3. \A e \in Drains \ {d} : drain[e].pc = "off"
    BY <1>0, <2>1, OthersOff
  <2>4. retry = << >> /\ Consecutive(batch, Len(processed) - good)
    BY <1>2, <2>1 DEF BatchInv, InHand
  <2>5. /\ Consecutive(suffix, Len(processed)) /\ Len(suffix) = Len(batch) - good
        /\ suffix \in Seq(Records)
    <3> HIDE DEF batch, good
    <3>1. Consecutive(suffix, (Len(processed) - good) + (good + 1) - 1)
      BY <1>1, <2>1, <2>2, <2>4, ConsecutiveCut
    <3>2. (Len(processed) - good) + (good + 1) - 1 = Len(processed)
          /\ Len(batch) - (good + 1) + 1 = Len(batch) - good
      BY <1>1, <2>2
    <3>3. suffix \in Seq(Records) /\ Len(suffix) = Len(batch) - (good + 1) + 1
      BY <2>1, <2>2, CutTyped
    <3> QED  BY <3>1, <3>2, <3>3
  <2>6. retry' = IF closed THEN << >> ELSE suffix
    BY <2>1, <2>4
  <2>7. /\ \A e \in Drains \ {d} :
              /\ drain'[e].pc \in {"off", "take"}
              /\ drain'[e].batch = drain[e].batch /\ drain'[e].good = drain[e].good
        /\ drain'[d].pc \in {"off", "take"}
        /\ Len(drain'[d].batch) - drain'[d].good = 0
    <3>1. /\ ended \in [Drains -> Slots] /\ DrainsIn(ended) = {} /\ Alone(ended)
          /\ ended[d] = Off /\ \A e \in Drains \ {d} : ended[e] = drain[e]
      BY <1>0, <2>1, EndTyped DEF DrainInv
    <3>2. Len(ended[d].batch) - ended[d].good = 0 /\ ended[d].pc = "off"
      BY <3>1, OffTyped, EmptyTyped
    <3>3. CASE drain' = ended
      BY <2>3, <3>1, <3>2, <3>3
    <3>4. CASE ScheduleDrain(pending, retry', FALSE, ended)
      <4> HIDE DEF ended
      <4>1. Starts(ended)
        BY <3>1, <3>4, ScheduleKeeps DEF ListenerTyped
      <4> QED  BY <2>3, <3>1, <3>2, <4>1 DEF Starts
    <3>5. CASE /\ ~closed /\ retry' = << >> /\ drain' = [drain EXCEPT ![d].pc = "take"]
      <4>1. Len(batch) - good = 0
        BY <2>5, <2>6, <3>5, EmptyTyped
      <4>2. drain'[d].pc = "take" /\ drain'[d].batch = drain[d].batch /\ drain'[d].good = drain[d].good
            /\ \A e \in Drains \ {d} : drain'[e] = drain[e]
        BY <1>0, <2>1, <3>5 DEF Slots
      <4> QED  BY <2>3, <4>1, <4>2
    <3> QED  BY <1>13, <3>3, <3>4, <3>5 DEF SettleBatch
  <2>8. BatchInv(d)' /\ Unfinished(d)' = 0 /\ Unfinished(d) = Len(batch) - good
    BY <2>7 DEF BatchInv, InHand, Unfinished
  <2>9. (\A e \in Drains : BatchInv(e)') /\ Held' = 0 /\ Held = Len(batch) - good
    BY <1>0, <1>2, <2>3, <2>7, <2>8, OneSlot
  <2> HIDE DEF batch, good, suffix, ended
  <2>10. QueueInv'
    <3>1. CASE closed
      BY <1>2, <2>1, <2>6, <3>1 DEF QueueInv
    <3>2. CASE ~closed
      <4>1. Len(processed') + Held' + Len(retry') = Len(processed) + Held + Len(retry)
        BY <1>1, <2>1, <2>2, <2>4, <2>5, <2>6, <2>9, <3>2, EmptyTyped
      <4>2. Consecutive(retry', Len(processed'))
        BY <2>1, <2>5, <2>6, <3>2
      <4>3. WaitedWith' = WaitedWith
        BY <2>1 DEF reader, WaitedWith
      <4> QED  BY <1>2, <2>1, <3>2, <4>1, <4>2, <4>3 DEF QueueInv, reader
    <3> QED  BY <3>1, <3>2
  <2> QED  BY <1>2, <2>1, <2>9, <2>10 DEF OrderInv, Consecutive
<1>14. ASSUME NEW r \in Records, AckTimerFires(r) PROVE OrderInv'
  <2>1. UNCHANGED <<reader, queue, closed, drain, processed>>
    BY <1>14 DEF AckTimerFires
  <2> QED  BY <1>3, <2>1, SameStarts DEF reader, queue
<1>15. ASSUME UNCHANGED vars PROVE OrderInv'
  BY <1>3, <1>15, SameStarts DEF vars, reader, queue
<1> QED
  BY <1>6, <1>7, <1>8, <1>9, <1>10, <1>11, <1>12, <1>13, <1>14, <1>15 DEF Next, DrainStep

(***************************************************************************)
(* The specification.                                                      *)
(***************************************************************************)
ListenerInv == ListenerTyped /\ DrainInv /\ OrderInv

LEMMA ListenerInitially == Init => ListenerInv
<1> SUFFICES ASSUME Init PROVE ListenerInv
  OBVIOUS
<1> USE DEF Init
<1>0. /\ << >> \in Seq(Records) /\ 0 \in 0..M
  BY EmptyTyped, SizesAssumption
<1>1. TimerTyped /\ QueueTyped
  <2>1. TimerTyped
    BY DEF TimerTyped
  <2>2. QueueTyped
    BY <1>0 DEF QueueTyped
  <2> QED  BY <2>1, <2>2
<1>2. AcksTyped
  BY SizesAssumption DEF AcksTyped, NoTimer
<1>3. \A d \in Drains : drain[d] = Off
  OBVIOUS
<1>4. DrainTyped
  <2>1. drain \in [Drains -> Slots]
    BY OffTyped
  <2>2. \A d \in Drains : drain[d].good <= Len(drain[d].batch) /\ drain[d].next >= 1
    BY <1>3, OffTyped, EmptyTyped
  <2>3. draining \in BOOLEAN
    OBVIOUS
  <2> QED  BY <2>1, <2>2, <2>3 DEF DrainTyped
<1>5. DrainInv
  BY <1>3, OffTyped DEF DrainInv, DrainsIn, Alone
<1>6. \A d \in Drains : Unfinished(d) = 0 /\ ~InHand(d) /\ drain[d].pc # "process"
  BY <1>3, OffTyped, EmptyTyped DEF Unfinished, InHand
<1>7. Held = 0
  BY <1>6 DEF Held, Drains
<1>8. QueueInv
  <2>1. Consecutive(retry, Len(processed)) /\ Consecutive(pending, Len(processed) + Held + Len(retry))
    BY ConsecutiveEmpty
  <2>2. read = Len(processed) + Held + Len(retry) + Len(pending) + WaitedWith
    BY <1>7, EmptyTyped DEF WaitedWith
  <2> QED  BY <2>1, <2>2 DEF QueueInv
<1>9. OrderInv
  BY <1>6, <1>8, ConsecutiveEmpty DEF OrderInv, BatchInv
<1> QED  BY <1>1, <1>2, <1>4, <1>5, <1>9 DEF ListenerInv, ListenerTyped

LEMMA ListenerStep == ListenerInv /\ [Next]_vars => ListenerInv'
BY DrainStepKeeps, OrderStepKeeps DEF ListenerInv

LEMMA ListenerAlways == Spec => []ListenerInv
BY ListenerInitially, ListenerStep, PTL DEF Spec

\* The listener's variables keep their types.
THEOREM ListenerTypes == Spec => []TypeOK
<1>1. ListenerInv => TypeOK
  BY TypedIsTypeOK DEF ListenerInv
<1> QED  BY <1>1, ListenerAlways, PTL

\* However timers, full batches, retries, late cancellations and the closing
\* follow each other, one drain works at a time, and draining says so.
THEOREM SingleDrain == Spec => []OneDrain
<1>1. ListenerInv => OneDrain
  BY DEF ListenerInv, DrainInv, Alone, DrainsIn, OneDrain, Working
<1> QED  BY <1>1, ListenerAlways, PTL

\* Records are processed in the order of the stream, whatever fails and is
\* retried, with any batch size and any capacity of the queue.
THEOREM InStreamOrder == Spec => []ProcessedInOrder
<1>1. ASSUME ListenerInv PROVE ProcessedInOrder
  <2>1. processed \in Seq(Records) /\ \A k \in 1..Len(processed) : processed[k] = 0 + k
    BY <1>1 DEF ListenerInv, ListenerTyped, QueueTyped, OrderInv, Consecutive
  <2>2. processed = [k \in 1..Len(processed) |-> processed[k]]
    BY <2>1
  <2>3. \A k \in 1..Len(processed) : processed[k] = k
    BY <2>1
  <2> QED  BY <2>2, <2>3 DEF ProcessedInOrder
<1> QED  BY <1>1, ListenerAlways, PTL

\* A slot's unfinished records.
LEMMA UnfinishedIs ==
    ASSUME NEW d \in Drains, DrainTyped, BatchInv(d), processed \in Seq(Records)
    PROVE  /\ Unfinished(d) \in Nat
           /\ {drain[d].batch[k] : k \in drain[d].good + 1..Len(drain[d].batch)}
                = (Len(processed) + 1)..(Len(processed) + Unfinished(d))
<1> DEFINE batch == drain[d].batch
           good == drain[d].good
           n == Len(processed)
<1>1. /\ batch \in Seq(Records) /\ Len(batch) \in Nat /\ good \in Nat /\ good <= Len(batch)
      /\ n \in Nat
  <2>1. drain[d] \in Slots
    BY DEF DrainTyped
  <2> QED  BY <2>1, SlotTyped DEF DrainTyped
<1>2. Unfinished(d) = Len(batch) - good
  BY DEF Unfinished
<1>3. CASE Unfinished(d) = 0
  <2> HIDE DEF batch, good, n
  <2>1. {batch[k] : k \in good + 1..Len(batch)} = {}
    BY <1>1, <1>2, <1>3
  <2>2. (n + 1)..(n + Unfinished(d)) = {}
    BY <1>1, <1>3
  <2>3. {batch[k] : k \in good + 1..Len(batch)} = (n + 1)..(n + Unfinished(d))
    BY <2>1, <2>2
  <2>4. Unfinished(d) \in Nat
    BY <1>3
  <2> QED  BY <2>3, <2>4 DEF batch, good, n
<1>4. CASE InHand(d)
  <2>1. \A k \in 1..Len(batch) : batch[k] = (n - good) + k
    BY <1>4 DEF BatchInv, Consecutive
  <2> HIDE DEF batch, good, n
  <2>2. ASSUME NEW k \in good + 1..Len(batch) PROVE batch[k] \in (n + 1)..(n + Unfinished(d))
    BY <1>1, <1>2, <2>1
  <2>3. ASSUME NEW e \in (n + 1)..(n + Unfinished(d))
        PROVE  \E k \in good + 1..Len(batch) : batch[k] = e
    <3>1. e - n + good \in good + 1..Len(batch) /\ batch[e - n + good] = e
      BY <1>1, <1>2, <2>1
    <3> QED  BY <3>1
  <2>4. {batch[k] : k \in good + 1..Len(batch)} = (n + 1)..(n + Unfinished(d))
    BY <2>2, <2>3
  <2> QED  BY <1>1, <1>2, <2>4 DEF batch, good, n
<1> QED  BY <1>3, <1>4 DEF BatchInv

\* An open listener still has every record it was given and has not processed.
THEOREM NoneDropped == Spec => []NothingDropped
<1>1. ASSUME ListenerInv, ~closed
      PROVE  1..read = Elements(processed) \union Batched \union Elements(retry)
                       \union Elements(pending) \union (IF waiting # "no" THEN {read} ELSE {})
  <2> DEFINE n == Len(processed)
             r == Len(retry)
             p == Len(pending)
  <2>1. /\ processed \in Seq(Records) /\ retry \in Seq(Records) /\ pending \in Seq(Records)
        /\ n \in Nat /\ r \in Nat /\ p \in Nat /\ DrainTyped /\ Held \in Nat /\ read \in Nat
    BY <1>1, HeldTyped, SizesAssumption DEF ListenerInv, ListenerTyped, QueueTyped
  <2>2. /\ Consecutive(processed, 0) /\ Consecutive(retry, n) /\ Consecutive(pending, n + Held + r)
        /\ read = n + Held + r + p + WaitedWith /\ \A d \in Drains : BatchInv(d)
    BY <1>1 DEF ListenerInv, OrderInv, QueueInv
  <2>3. Elements(processed) = (0 + 1)..(0 + n) /\ Elements(retry) = (n + 1)..(n + r)
        /\ Elements(pending) = (n + Held + r + 1)..(n + Held + r + p)
    BY <2>1, <2>2, ConsecutiveElements
  <2>4. Batched = (n + 1)..(n + Held) /\ (Held = 0 \/ r = 0)
    <3>1. \A d \in Drains : /\ Unfinished(d) \in Nat
                           /\ {drain[d].batch[k] : k \in drain[d].good + 1..Len(drain[d].batch)}
                                = (n + 1)..(n + Unfinished(d))
      BY <2>1, <2>2, UnfinishedIs
    <3>2. Batched = (n + 1)..(n + Unfinished(1)) \union (n + 1)..(n + Unfinished(2))
      BY <3>1 DEF Batched, Drains
    <3>3. Unfinished(1) = 0 \/ Unfinished(2) = 0
      <4>1. Alone(drain)
        BY <1>1 DEF ListenerInv, DrainInv
      <4>2. ~(InHand(1) /\ InHand(2))
        BY <4>1 DEF Alone, DrainsIn, InHand, Drains
      <4> QED  BY <2>2, <4>2 DEF BatchInv, Drains
    <3>4. Unfinished(1) \in Nat /\ Unfinished(2) \in Nat /\ Held = Unfinished(1) + Unfinished(2)
      BY <3>1 DEF Held, Drains
    <3> HIDE DEF n
    <3>5. Batched = (n + 1)..(n + Held)
      <4>1. ASSUME NEW a \in Nat, NEW b \in Nat, a = 0 \/ b = 0
            PROVE  (n + 1)..(n + a) \union (n + 1)..(n + b) = (n + 1)..(n + (a + b))
        BY <2>1, <4>1
      <4> QED  BY <3>2, <3>3, <3>4, <4>1
    <3>6. Held = 0 \/ r = 0
      <4>1. (InHand(1) \/ InHand(2)) => r = 0
        BY <2>2, EmptyTyped DEF BatchInv, Drains
      <4>2. ~InHand(1) /\ ~InHand(2) => Held = 0
        BY <2>2 DEF BatchInv, Drains, Held
      <4> QED  BY <4>1, <4>2
    <3> QED  BY <3>5, <3>6
  <2> HIDE DEF n, r, p
  <2>5. 1..(n + Held + r + p)
          = (0 + 1)..(0 + n) \union (n + 1)..(n + Held) \union (n + 1)..(n + r)
            \union (n + Held + r + 1)..(n + Held + r + p)
    BY <2>1, <2>4
  <2>6. CASE waiting = "no"
    <3>1. read = n + Held + r + p
      BY <2>1, <2>2, <2>6 DEF WaitedWith
    <3> QED  BY <2>3, <2>4, <2>5, <2>6, <3>1
  <2>7. CASE waiting # "no"
    <3>1. read = n + Held + r + p + 1
      BY <2>1, <2>2, <2>7 DEF WaitedWith
    <3>2. 1..read = 1..(n + Held + r + p) \union {read}
      BY <2>1, <3>1
    <3> QED  BY <2>3, <2>4, <2>5, <2>7, <3>2
  <2> QED  BY <2>6, <2>7
<1>2. ListenerInv => NothingDropped
  BY <1>1 DEF NothingDropped
<1> QED  BY <1>2, ListenerAlways, PTL
=============================================================================

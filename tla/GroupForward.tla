--------------------------- MODULE GroupForward ---------------------------
(***************************************************************************)
(* A user forwards messages of one group to others. The tenant node keeps  *)
(* the request and one row per target group; workers of the back end (and, *)
(* for messages without files, the request's own handler) drive the rows   *)
(* under fenced leases: resolve the sources once, copy the attachments of  *)
(* one target after the other, post, and announce what was posted.         *)
(*                                                                         *)
(* Every call of the store is one transaction under the request's lock,    *)
(* held to its end, and is one action. A ticket is the lease a worker was  *)
(* last given; what it does with it is checked against the row.            *)
(***************************************************************************)
EXTENDS Naturals, FiniteSets

CONSTANTS
    Targets,            \* the target groups
    NumMessages,        \* the messages a target gets
    Workers,            \* threads of the back end's instances
    Revocable,          \* what the user may lose: target groups, "source", "message"
    None,               \* no target
    MaxMishaps,         \* bound on lapsed leases, crashed workers, denied commits
    MaxRetries,         \* bound on retries by the user
    MaxRevocations      \* bound on accesses lost and messages recalled

ASSUME SetsAssumption == Targets # {} /\ None \notin Targets \cup Workers
ASSUME MessagesAssumption == NumMessages \in Nat \ {0}
ASSUME RevocableAssumption == Revocable \subseteq Targets \cup {"source", "message"}
ASSUME BoundsAssumption == {MaxMishaps, MaxRetries, MaxRevocations} \subseteq Nat

VARIABLES
    request,    \* the request's row
    target,     \* the targets' rows
    bound,      \* the targets with an attachment in the frozen manifest
    attempt,    \* each target's upload attempt, in its checkpoint
    journal,    \* the messages of each target whose announcement is recorded
    posted,     \* how many times the messages were inserted in each target
    carried,    \* the targets whose posted message has its attachment
    sent,       \* the messages announced to each target's members
    suppressed, \* the messages found gone when they were to be announced
    revoked,    \* target groups and sources the user cannot reach any more
    ticket,     \* what each worker is doing, and under which lease
    refusing,   \* targets whose text completion was denied, before that is recorded
    mishaps, retries

rows == <<request, target, bound, attempt, journal>>
history == <<posted, carried, sent, suppressed>>
budget == <<mishaps, retries>>
vars == <<rows, history, revoked, ticket, refusing, budget>>

Messages == 1..NumMessages
Open == {"PENDING", "COPYING", "READY"}
Leased == {"COPYING", "READY"}

\* lease_owner and fencing_version are one column here, "holder": the worker
\* whose ticket carries the row's current owner and version. An owner is made
\* for its claim and every write makes a new version, so a ticket the row has
\* moved past never matches again, and holder is None from then on.
NoRequest == [state |-> "NONE", frozen |-> FALSE, hasFile |-> FALSE,
              holder |-> None, live |-> FALSE]
NewTarget == [state |-> "PENDING", holder |-> None, live |-> FALSE,
              retryable |-> FALSE, pending |-> FALSE]
Idle == [step |-> "idle", of |-> None, msg |-> 0]

Init ==
    /\ request = NoRequest /\ target = [t \in Targets |-> NewTarget]
    /\ bound = {} /\ attempt = [t \in Targets |-> "NONE"]
    /\ journal = [t \in Targets |-> {}]
    /\ posted = [t \in Targets |-> 0] /\ carried = {}
    /\ sent = [t \in Targets |-> {}] /\ suppressed = [t \in Targets |-> {}]
    /\ revoked = {} /\ ticket = [w \in Workers |-> Idle] /\ refusing = {}
    /\ mishaps = 0 /\ retries = 0

---------------------------------------------------------------------------
\* operation, recompute: the request's state follows from its targets'.
Summary(tg) ==
    IF \E t \in Targets : tg[t].state \in Open THEN "RUNNING"
    ELSE IF \A t \in Targets : tg[t].state = "SUCCEEDED" THEN "SUCCEEDED"
    ELSE IF \E t \in Targets : tg[t].state = "SUCCEEDED" THEN "PARTIAL_FAILED"
    ELSE "FAILED"

\* Mutant: only a running request is recomputed.
RecomputeRunning(tg) ==
    request' = [request EXCEPT !.state = IF @ = "RUNNING" THEN Summary(tg) ELSE @]

\* updateRequestState leaves a request that has succeeded alone.
Recompute(tg) ==
    request' = [request EXCEPT !.state = IF @ = "SUCCEEDED" THEN @ ELSE Summary(tg)]

\* requireSource, requireTarget of the targets in S.
Accessible(S) == "source" \notin revoked /\ S \cap revoked = {}
Readable == "message" \notin revoked

\* Mutant: the end of the lease is not cleared with its owner.
UnleasedOwner(row) == [row EXCEPT !.holder = None]

Unleased(row) == [row EXCEPT !.holder = None, !.live = FALSE]
Claimed(row, w) == [row EXCEPT !.holder = w, !.live = TRUE]
Expired(row) == [row EXCEPT !.live = FALSE]

\* What the statements on a target's row make of it.
InState(row, s) == [row EXCEPT !.state = s]
Copying(row, w) == InState(Claimed(row, w), IF row.state = "READY" THEN "READY" ELSE "COPYING")
Succeeded(row) ==
    [Unleased(row) EXCEPT !.state = "SUCCEEDED", !.pending = TRUE, !.retryable = FALSE]
Failed(row, retryable) ==
    [row EXCEPT !.state = "FAILED", !.retryable = retryable, !.holder = None]
Requeued(row) ==
    [Unleased(row) EXCEPT !.retryable = FALSE,
                          !.state = IF row.state = "READY" THEN "READY" ELSE "PENDING"]
Delivered(row) == [Unleased(row) EXCEPT !.pending = FALSE]
SetTarget(t, row) == target' = [target EXCEPT ![t] = row]
Matches(row, w) == row.live /\ row.holder = w

\* checkedRequest of the worker's ticket; failRequest leaves the state out.
Resolves(w) ==
    ticket[w].step = "resolving" /\ Matches(request, w) /\ ~request.frozen
\* checkedTarget, failTarget, commitForward and checkDelivery of the worker's ticket.
Works(w, t) ==
    ticket[w].of = t /\ ticket[w].step \in {"copying", "ready"} /\ Matches(target[t], w)
Delivers(w, t) ==
    ticket[w].of = t /\ ticket[w].step \in {"delivering", "publishing", "marking"}
    /\ Matches(target[t], w)
Valid(w) == Resolves(w) \/ \E t \in Targets : Works(w, t) \/ Delivers(w, t)

\* Mutant: only the target's own lease is looked at.
OtherLiveNever(t) == FALSE

OtherLive(t) ==
    \E u \in Targets \ {t} : target[u].state \in Leased /\ target[u].live

\* Mutant: an attempt that was reserved counts as uploaded.
AssertReadyReserved(t) ==
    (t \in bound) <=> (attempt[t] # "NONE")

\* Every binding has its verified copy, and there is no attempt without a binding.
AssertReady(t) ==
    /\ t \in bound => attempt[t] = "VERIFIED"
    /\ attempt[t] # "NONE" => t \in bound

---------------------------------------------------------------------------
\* prepare: groups the user cannot forward to are refused for good.
Prepare(hasFile) ==
    /\ request.state = "NONE" /\ Accessible({}) /\ Readable
    /\ target' = [t \in Targets |->
                    IF t \in revoked THEN [NewTarget EXCEPT !.state = "FAILED"] ELSE NewTarget]
    /\ request' = [NoRequest EXCEPT !.hasFile = hasFile, !.state = Summary(target')]
    /\ UNCHANGED <<bound, attempt, journal, history, revoked, ticket, refusing, budget>>

\* commitForward's inserts and succeedTarget.
Posted(t) ==
    /\ SetTarget(t, Succeeded(target[t]))
    /\ posted' = [posted EXCEPT ![t] = @ + 1]
    /\ carried' = IF t \in bound THEN carried \cup {t} ELSE carried
    /\ UNCHANGED <<bound, attempt, journal, sent, suppressed>>

TextCompletable(t) ==
    /\ request.state = "RUNNING" /\ ~request.hasFile
    /\ target[t].state = "PENDING" /\ ~request.live /\ ~target[t].live /\ ~OtherLive(t)

\* completeText, one target: freeze, claim, checkpoint and commit in one transaction.
CompleteText(t) ==
    /\ TextCompletable(t) /\ AssertReady(t) /\ Accessible({t}) /\ Readable
    /\ Posted(t)
    /\ request' = [Unleased(request) EXCEPT !.frozen = TRUE, !.state = Summary(target')]
    /\ UNCHANGED <<revoked, ticket, refusing, budget>>

\* Its denial rolls that transaction back, and a second one records it.
DenyText(t) ==
    /\ TextCompletable(t) /\ ~(Accessible({t}) /\ Readable) /\ t \notin refusing
    /\ refusing' = refusing \cup {t}
    /\ UNCHANGED <<rows, history, revoked, ticket, budget>>

RejectText(t) ==
    /\ t \in refusing /\ refusing' = refusing \ {t}
    /\ IF target[t].state = "PENDING" /\ ~target[t].live
       THEN SetTarget(t, Failed(target[t], FALSE))
       ELSE UNCHANGED target
    /\ Recompute(target')
    /\ UNCHANGED <<bound, attempt, journal, history, revoked, ticket, budget>>

---------------------------------------------------------------------------
\* A worker resolves the sources.
Take(w, step, of) == ticket' = [ticket EXCEPT ![w] = [step |-> step, of |-> of, msg |-> 0]]
Drop(w) == ticket' = [ticket EXCEPT ![w] = Idle]

ClaimRequest(w) ==
    /\ ticket[w].step = "idle" /\ Accessible({})
    /\ request.state = "RUNNING" /\ ~request.frozen /\ ~request.live
    /\ request' = Claimed(request, w)
    /\ Take(w, "resolving", None)
    /\ UNCHANGED <<target, bound, attempt, journal, history, revoked, refusing, budget>>

\* The manifest gets the attachments of the targets that have not failed.
FreezeSources(w) ==
    /\ Resolves(w) /\ request.state = "RUNNING" /\ Accessible({})
    /\ bound' = IF request.hasFile THEN {t \in Targets : target[t].state # "FAILED"} ELSE {}
    /\ request' = [Unleased(request) EXCEPT !.frozen = TRUE]
    /\ Drop(w)
    /\ UNCHANGED <<target, attempt, journal, history, revoked, refusing, budget>>

FailRequest(w, retryable) ==
    /\ Resolves(w)
    /\ target' = [t \in Targets |->
                    IF target[t].state = "PENDING" THEN Failed(target[t], retryable)
                    ELSE target[t]]
    /\ request' = [Unleased(request) EXCEPT !.state = "FAILED"]
    /\ Drop(w)
    /\ UNCHANGED <<bound, attempt, journal, history, revoked, refusing, budget>>

---------------------------------------------------------------------------
\* A worker copies a target's attachment and posts. With the claim's new owner,
\* a reservation that was not verified is a former owner's.
\* Mutant: a target that is being copied is not taken over.
ClaimTargetQueued(w, t) ==
    /\ ticket[w].step = "idle" /\ Accessible({t})
    /\ request.state = "RUNNING" /\ request.frozen
    /\ target[t].state \in {"PENDING", "READY"} /\ ~target[t].live /\ ~OtherLive(t)
    /\ SetTarget(t, Copying(target[t], w))
    /\ attempt' = [attempt EXCEPT ![t] = IF @ = "RESERVED" THEN "FORMER" ELSE @]
    /\ Take(w, IF target[t].state = "READY" THEN "ready" ELSE "copying", t)
    /\ UNCHANGED <<request, bound, journal, history, revoked, refusing, budget>>

ClaimTarget(w, t) ==
    /\ ticket[w].step = "idle" /\ Accessible({t})
    /\ request.state = "RUNNING" /\ request.frozen
    /\ target[t].state \in Open /\ ~target[t].live /\ ~OtherLive(t)
    /\ SetTarget(t, Copying(target[t], w))
    /\ attempt' = [attempt EXCEPT ![t] = IF @ = "RESERVED" THEN "FORMER" ELSE @]
    /\ Take(w, IF target[t].state = "READY" THEN "ready" ELSE "copying", t)
    /\ UNCHANGED <<request, bound, journal, history, revoked, refusing, budget>>

\* A fenced checkpoint: the ticket's version moves on with the row's.
Checkpoint(w, t, state, step) ==
    /\ Works(w, t) /\ ticket[w].step = "copying"
    /\ request.state = "RUNNING" /\ request.frozen /\ Accessible({t})
    /\ SetTarget(t, InState(target[t], state))
    /\ Take(w, step, t)
    /\ UNCHANGED <<request, bound, journal, history, revoked, refusing, budget>>

\* Another owner's reservation is superseded.
Reserve(w, t) ==
    /\ t \in bound /\ attempt[t] \in {"NONE", "FORMER"}
    /\ Checkpoint(w, t, "COPYING", "copying")
    /\ attempt' = [attempt EXCEPT ![t] = "RESERVED"]

Verify(w, t) ==
    /\ t \in bound /\ attempt[t] = "RESERVED"
    /\ Checkpoint(w, t, "COPYING", "copying")
    /\ attempt' = [attempt EXCEPT ![t] = "VERIFIED"]

MarkReady(w, t) ==
    /\ AssertReady(t)
    /\ Checkpoint(w, t, "READY", "ready")
    /\ UNCHANGED attempt

Committable(w, t) ==
    /\ Works(w, t) /\ ticket[w].step = "ready" /\ target[t].state = "READY"
    /\ request.state = "RUNNING" /\ request.frozen

\* Mutant: the commit checks the target's state, not the version of its lease.
CommitUnfenced(w, t) ==
    /\ ticket[w].of = t /\ ticket[w].step = "ready"
    /\ target[t].state \in {"READY", "SUCCEEDED"} /\ Accessible({t}) /\ Readable
    /\ Posted(t)
    /\ Recompute(target')
    /\ Drop(w)
    /\ UNCHANGED <<revoked, refusing, budget>>

Commit(w, t) ==
    /\ Committable(w, t) /\ AssertReady(t) /\ Accessible({t}) /\ Readable
    /\ Posted(t)
    /\ Recompute(target')
    /\ Drop(w)
    /\ UNCHANGED <<revoked, refusing, budget>>

\* A denied commit rolls back; the row stays READY until its lease expires.
CommitDenied(w, t) ==
    /\ Committable(w, t) /\ ~(Accessible({t}) /\ Readable)
    /\ mishaps < MaxMishaps /\ mishaps' = mishaps + 1
    /\ Drop(w)
    /\ UNCHANGED <<rows, history, revoked, refusing, retries>>

\* Whatever went wrong on the way, short of the commit itself.
FailTarget(w, t, retryable) ==
    /\ Works(w, t)
    /\ SetTarget(t, Failed(Unleased(target[t]), retryable))
    /\ Recompute(target')
    /\ Drop(w)
    /\ UNCHANGED <<bound, attempt, journal, history, revoked, refusing, budget>>

---------------------------------------------------------------------------
\* A worker announces what was posted.
\* Mutant: a delivery is claimed only while its row has no owner.
ClaimDeliveryUnowned(w, t) ==
    /\ ticket[w].step = "idle"
    /\ target[t].state = "SUCCEEDED" /\ target[t].pending /\ target[t].holder = None
    /\ SetTarget(t, Claimed(target[t], w))
    /\ Take(w, "delivering", t)
    /\ UNCHANGED <<request, bound, attempt, journal, history, revoked, refusing, budget>>

ClaimDelivery(w, t) ==
    /\ ticket[w].step = "idle"
    /\ target[t].state = "SUCCEEDED" /\ target[t].pending /\ ~target[t].live
    /\ SetTarget(t, Claimed(target[t], w))
    /\ Take(w, "delivering", t)
    /\ UNCHANGED <<request, bound, attempt, journal, history, revoked, refusing, budget>>

Announcing(w, step, t, m) ==
    ticket' = [ticket EXCEPT ![w] = [step |-> step, of |-> t, msg |-> m]]

\* renewDelivery, delivery: a message or a group that is gone is not announced.
ReadDelivery(w, t, m) ==
    /\ Delivers(w, t) /\ ticket[w].step = "delivering"
    /\ m \notin journal[t] /\ \A k \in 1..(m - 1) : k \in journal[t]
    /\ \/ Announcing(w, "publishing", t, m) /\ UNCHANGED suppressed
       \/ /\ t \in revoked
          /\ Announcing(w, "marking", t, m)
          /\ suppressed' = [suppressed EXCEPT ![t] = @ \cup {m}]
    /\ UNCHANGED <<rows, posted, carried, sent, revoked, refusing, budget>>

\* publisher.publish, whatever has become of the lease.
Publish(w) ==
    /\ ticket[w].step = "publishing"
    /\ sent' = [sent EXCEPT ![ticket[w].of] = @ \cup {ticket[w].msg}]
    /\ Announcing(w, "marking", ticket[w].of, ticket[w].msg)
    /\ UNCHANGED <<rows, posted, carried, suppressed, revoked, refusing, budget>>

MarkDelivered(w, t) ==
    /\ Delivers(w, t) /\ ticket[w].step = "marking"
    /\ journal' = [journal EXCEPT ![t] = @ \cup {ticket[w].msg}]
    /\ IF journal'[t] = Messages
       THEN SetTarget(t, Delivered(target[t])) /\ Drop(w)
       ELSE UNCHANGED target /\ Take(w, "delivering", t)
    /\ UNCHANGED <<request, bound, attempt, history, revoked, refusing, budget>>

---------------------------------------------------------------------------
\* FORWARD_LEASE_LOST: the worker lets go of what is no longer its.
Rejected(w) ==
    /\ ticket[w].step \notin {"idle", "publishing"} /\ ~Valid(w)
    /\ Drop(w)
    /\ UNCHANGED <<rows, history, revoked, refusing, budget>>

Crash(w) ==
    /\ ticket[w].step # "idle" /\ mishaps < MaxMishaps /\ mishaps' = mishaps + 1
    /\ Drop(w)
    /\ UNCHANGED <<rows, history, revoked, refusing, retries>>

\* A lease runs out. One that its holder still renews does so only by a mishap:
\* a renewal that is late or does not come through.
ExpireRequest ==
    /\ request.live /\ request' = Expired(request)
    /\ IF \E w \in Workers : Resolves(w)
       THEN mishaps < MaxMishaps /\ mishaps' = mishaps + 1 ELSE UNCHANGED mishaps
    /\ UNCHANGED <<target, bound, attempt, journal, history, revoked, ticket, refusing, retries>>

ExpireTarget(t) ==
    /\ target[t].live /\ SetTarget(t, Expired(target[t]))
    /\ IF \E w \in Workers : Works(w, t) \/ Delivers(w, t)
       THEN mishaps < MaxMishaps /\ mishaps' = mishaps + 1 ELSE UNCHANGED mishaps
    /\ UNCHANGED <<request, bound, attempt, journal, history, revoked, ticket, refusing, retries>>

\* The user loses a group, or a source message is recalled.
Revoke(x) ==
    /\ x \notin revoked /\ Cardinality(revoked) < MaxRevocations
    /\ revoked' = revoked \cup {x}
    /\ UNCHANGED <<rows, history, ticket, refusing, budget>>

Retryable(G) ==
    {t \in G : /\ ~target[t].live
              /\ \/ target[t].state \in Open
                 \/ target[t].state = "FAILED" /\ target[t].retryable}

\* retry: resetFailedTarget of the failed ones, requeueExpired of the others.
Retry(G) ==
    /\ request.state # "NONE" /\ Retryable(G) # {} /\ Accessible(Retryable(G))
    /\ retries < MaxRetries /\ retries' = retries + 1
    /\ target' = [t \in Targets |->
                    IF t \in Retryable(G) THEN Requeued(target[t]) ELSE target[t]]
    /\ Recompute(target')
    /\ UNCHANGED <<bound, attempt, journal, history, revoked, ticket, refusing, mishaps>>

---------------------------------------------------------------------------
Resolve(w) == ClaimRequest(w) \/ FreezeSources(w) \/ \E r \in BOOLEAN : FailRequest(w, r)
Copy(w, t) ==
    \/ ClaimTarget(w, t) \/ Reserve(w, t) \/ Verify(w, t) \/ MarkReady(w, t)
    \/ Commit(w, t) \/ CommitDenied(w, t) \/ \E r \in BOOLEAN : FailTarget(w, t, r)
Deliver(w, t) ==
    ClaimDelivery(w, t) \/ MarkDelivered(w, t) \/ \E m \in Messages : ReadDelivery(w, t, m)
WorkerStep(w) ==
    Resolve(w) \/ Publish(w) \/ Rejected(w) \/ \E t \in Targets : Copy(w, t) \/ Deliver(w, t)
Expire == ExpireRequest \/ \E t \in Targets : ExpireTarget(t)

Next ==
    \/ \E f \in BOOLEAN : Prepare(f)
    \/ \E t \in Targets : CompleteText(t) \/ DenyText(t) \/ RejectText(t)
    \/ \E w \in Workers : WorkerStep(w) \/ Crash(w)
    \/ Expire
    \/ \E x \in Revocable : Revoke(x)
    \/ \E G \in SUBSET Targets : Retry(G)

Spec == Init /\ [][Next]_vars

\* The recovery scan comes back to every row that is due, and leases run out.
Fairness == (\A w \in Workers : WF_vars(WorkerStep(w))) /\ WF_vars(Expire)
FairSpec == Spec /\ Fairness

---------------------------------------------------------------------------
RequestRow == [state : {"NONE", "RUNNING", "SUCCEEDED", "PARTIAL_FAILED", "FAILED"},
               frozen : BOOLEAN, hasFile : BOOLEAN, holder : Workers \cup {None},
               live : BOOLEAN]
TargetRow == [state : Open \cup {"SUCCEEDED", "FAILED"}, holder : Workers \cup {None},
              live : BOOLEAN, retryable : BOOLEAN, pending : BOOLEAN]
Ticket == [step : {"idle", "resolving", "copying", "ready", "delivering", "publishing",
                   "marking"},
           of : Targets \cup {None}, msg : 0..NumMessages]

\* The type invariant; a lease that is live has, or had, a holder and is on a
\* target that is being worked on, and a worker that announces knows which
\* message of which target.
RequestOK == request \in RequestRow /\ (request.live => request.holder # None)
TargetsOK ==
    /\ target \in [Targets -> TargetRow]
    /\ \A t \in Targets :
          target[t].live => target[t].holder # None /\ target[t].state \notin {"PENDING", "FAILED"}
TicketsOK ==
    /\ ticket \in [Workers -> Ticket]
    /\ \A w \in Workers : ticket[w].step \in {"publishing", "marking"} =>
                            ticket[w].of \in Targets /\ ticket[w].msg \in Messages
DataOK ==
    /\ bound \in SUBSET Targets /\ carried \in SUBSET Targets
    /\ attempt \in [Targets -> {"NONE", "RESERVED", "FORMER", "VERIFIED"}]
    /\ journal \in [Targets -> SUBSET Messages] /\ posted \in [Targets -> Nat]
    /\ sent \in [Targets -> SUBSET Messages] /\ suppressed \in [Targets -> SUBSET Messages]
    /\ revoked \in SUBSET Revocable /\ refusing \in SUBSET Targets
    /\ mishaps \in Nat /\ retries \in Nat
TypeOK == RequestOK /\ TargetsOK /\ TicketsOK /\ DataOK

\* What the store answers is what its targets say, after every transaction.
RequestStateDerived == request.state # "NONE" => request.state = Summary(target)

\* Two leases rows and many workers, and at most one of them at a time may
\* resolve the sources or copy and post for the request.
Exclusive(w) == Resolves(w) \/ \E t \in Targets : Works(w, t)
ExclusiveTickets == \A v, w \in Workers : Exclusive(v) /\ Exclusive(w) => v = w

\* A message was posted with the verified copy of every attachment its
\* target was bound to, and it stays pending exactly until the last of its
\* messages is announced or found gone, and recorded.
PostedIsComplete ==
    \A t \in Targets :
        /\ posted[t] > 0 /\ t \in bound => t \in carried /\ attempt[t] = "VERIFIED"
        /\ journal[t] \subseteq sent[t] \cup suppressed[t]
        /\ target[t].pending <=> (target[t].state = "SUCCEEDED" /\ journal[t] # Messages)

\* What the manifest promises: a posted message has the file it was selected with.
AttachmentsComplete ==
    \A t \in Targets : posted[t] > 0 /\ request.hasFile => t \in carried

\* Refinement: the promise to the user.
outcome ==
    [t \in Targets |->
        IF request.state = "NONE" THEN "none"
        ELSE IF target[t].state = "SUCCEEDED" THEN "posted"
        ELSE IF target[t].state = "FAILED" THEN "refused" ELSE "waiting"]
barred ==
    IF request.state = "NONE" THEN {}
    ELSE {t \in Targets : target[t].state = "FAILED" /\ ~target[t].retryable}
Promise == INSTANCE ForwardPromise WITH copies <- posted, announced <- sent
KeepsPromise == Promise!Spec

\* While the user keeps every access, a forward that is running ends.
ForwardSettles == request.state = "RUNNING" ~> request.state # "RUNNING" \/ revoked # {}

\* What was posted is announced, whatever access is lost since.
DeliverySettles == \A t \in Targets : target[t].pending ~> ~target[t].pending
===========================================================================

------------------------ MODULE GroupForward_proofs ------------------------
(***************************************************************************)
(* GroupForward for every set of targets, number of messages and workers,  *)
(* and every number of mishaps, retries and revocations.                   *)
(***************************************************************************)
EXTENDS GroupForward, TLAPS

\* The request's state is always one the store can answer.
LEMMA SummaryTyped ==
    ASSUME NEW tg
    PROVE  Summary(tg) \in {"RUNNING", "SUCCEEDED", "PARTIAL_FAILED", "FAILED"}
BY DEF Summary

\* What each statement makes of a target's row.
LEMMA EndedRow ==
    ASSUME NEW row \in TargetRow
    PROVE  /\ Unleased(row) \in TargetRow
           /\ Unleased(row).state = row.state /\ Unleased(row).holder = None
           /\ ~Unleased(row).live /\ Unleased(row).pending = row.pending
           /\ Unleased(row).retryable = row.retryable
BY DEF TargetRow, Unleased

LEMMA ClaimedRow ==
    ASSUME NEW row \in TargetRow, NEW w \in Workers
    PROVE  /\ Claimed(row, w) \in TargetRow
           /\ Claimed(row, w).state = row.state /\ Claimed(row, w).holder = w
           /\ Claimed(row, w).live /\ Claimed(row, w).pending = row.pending
           /\ Claimed(row, w).retryable = row.retryable
BY DEF TargetRow, Claimed

LEMMA ExpiredRow ==
    ASSUME NEW row \in TargetRow
    PROVE  /\ Expired(row) \in TargetRow
           /\ Expired(row).state = row.state /\ Expired(row).holder = row.holder
           /\ ~Expired(row).live /\ Expired(row).pending = row.pending
           /\ Expired(row).retryable = row.retryable
BY DEF TargetRow, Expired

LEMMA StateRow ==
    ASSUME NEW row \in TargetRow, NEW s \in Open
    PROVE  /\ InState(row, s) \in TargetRow
           /\ InState(row, s).state = s /\ InState(row, s).holder = row.holder
           /\ InState(row, s).live = row.live /\ InState(row, s).pending = row.pending
BY DEF TargetRow, InState

LEMMA CopyingRow ==
    ASSUME NEW row \in TargetRow, NEW w \in Workers
    PROVE  /\ Copying(row, w) \in TargetRow
           /\ Copying(row, w).state = IF row.state = "READY" THEN "READY" ELSE "COPYING"
           /\ Copying(row, w).holder = w /\ Copying(row, w).live
           /\ Copying(row, w).pending = row.pending
<1>1. (IF row.state = "READY" THEN "READY" ELSE "COPYING") \in Open
  BY DEF Open
<1> QED  BY <1>1, ClaimedRow, StateRow DEF Copying

LEMMA FailedRow ==
    ASSUME NEW row \in TargetRow, NEW b \in BOOLEAN
    PROVE  /\ Failed(row, b) \in TargetRow
           /\ Failed(row, b).state = "FAILED" /\ Failed(row, b).holder = None
           /\ Failed(row, b).live = row.live /\ Failed(row, b).pending = row.pending
           /\ Failed(row, b).retryable = b
BY DEF TargetRow, Failed

LEMMA SucceededRow ==
    ASSUME NEW row \in TargetRow
    PROVE  /\ Succeeded(row) \in TargetRow
           /\ Succeeded(row).state = "SUCCEEDED" /\ Succeeded(row).holder = None
           /\ ~Succeeded(row).live /\ Succeeded(row).pending
BY DEF TargetRow, Succeeded, Unleased

LEMMA RequeuedRow ==
    ASSUME NEW row \in TargetRow
    PROVE  /\ Requeued(row) \in TargetRow
           /\ Requeued(row).state = IF row.state = "READY" THEN "READY" ELSE "PENDING"
           /\ Requeued(row).holder = None /\ ~Requeued(row).live
           /\ Requeued(row).pending = row.pending
BY DEF TargetRow, Requeued, Unleased, Open

LEMMA DeliveredRow ==
    ASSUME NEW row \in TargetRow
    PROVE  /\ Delivered(row) \in TargetRow
           /\ Delivered(row).state = row.state /\ Delivered(row).holder = None
           /\ ~Delivered(row).live /\ ~Delivered(row).pending
           /\ Delivered(row).retryable = row.retryable
BY DEF TargetRow, Delivered, Unleased

\* One row is replaced, by a row without a live lease or one that is worked on.
LEMMA SetTargetTyped ==
    ASSUME TargetsOK, NEW t \in Targets, NEW row \in TargetRow,
           row.live => row.holder # None /\ row.state \notin {"PENDING", "FAILED"},
           SetTarget(t, row)
    PROVE  /\ TargetsOK'
           /\ target'[t] = row /\ \A u \in Targets \ {t} : target'[u] = target[u]
BY DEF TargetsOK, SetTarget

\* The request's row.
LEMMA RecomputeTyped ==
    ASSUME RequestOK, NEW tg, Recompute(tg)
    PROVE  /\ RequestOK' /\ request'.live = request.live /\ request'.holder = request.holder
           /\ request'.frozen = request.frozen /\ request'.hasFile = request.hasFile
           /\ request'.state = IF request.state = "SUCCEEDED" THEN "SUCCEEDED" ELSE Summary(tg)
BY SummaryTyped DEF Recompute, RequestOK, RequestRow

\* Tickets.
LEMMA TakeTyped ==
    ASSUME TicketsOK, NEW w \in Workers, NEW t \in Targets \cup {None},
           NEW step \in {"resolving", "copying", "ready", "delivering"}, Take(w, step, t)
    PROVE  /\ TicketsOK' /\ ticket'[w].step = step /\ ticket'[w].of = t
           /\ \A v \in Workers \ {w} : ticket'[v] = ticket[v]
BY MessagesAssumption DEF TicketsOK, Ticket, Take, Messages

LEMMA AnnouncingTyped ==
    ASSUME TicketsOK, NEW w \in Workers, NEW t \in Targets, NEW m \in Messages,
           NEW step \in {"publishing", "marking"}, Announcing(w, step, t, m)
    PROVE  /\ TicketsOK' /\ ticket'[w].step = step /\ ticket'[w].of = t /\ ticket'[w].msg = m
           /\ \A v \in Workers \ {w} : ticket'[v] = ticket[v]
BY MessagesAssumption DEF TicketsOK, Ticket, Announcing, Messages

LEMMA DropTyped ==
    ASSUME TicketsOK, NEW w \in Workers, Drop(w)
    PROVE  /\ TicketsOK' /\ ticket'[w].step = "idle" /\ ticket'[w].of = None
           /\ \A v \in Workers \ {w} : ticket'[v] = ticket[v]
BY MessagesAssumption DEF TicketsOK, Ticket, Drop, Idle, Messages

\* Every action keeps the types.
LEMMA TypeStep ==
    ASSUME TypeOK, [Next]_vars
    PROVE  TypeOK'
<1> USE DEF TypeOK, rows, history, budget
<1>1. ASSUME NEW f \in BOOLEAN, Prepare(f) PROVE TypeOK'
  <2>1. RequestOK'
    BY <1>1, SummaryTyped DEF Prepare, NoRequest, RequestOK, RequestRow
  <2>2. TargetsOK'
    BY <1>1 DEF Prepare, NewTarget, TargetsOK, TargetRow, Open
  <2>3. TicketsOK'
    BY <1>1 DEF Prepare, TicketsOK
  <2>4. DataOK'
    BY <1>1 DEF Prepare, DataOK
  <2> QED  BY <2>1, <2>2, <2>3, <2>4
<1>2. ASSUME NEW t \in Targets, CompleteText(t) PROVE TypeOK'
  <2>1. RequestOK'
    BY <1>2, SummaryTyped DEF CompleteText, Unleased, RequestOK, RequestRow
  <2>2. TargetsOK'
    BY <1>2, SucceededRow, SetTargetTyped DEF CompleteText, Posted, TargetsOK
  <2>3. TicketsOK'
    BY <1>2 DEF CompleteText, Posted, TicketsOK
  <2>4. DataOK'
    BY <1>2 DEF CompleteText, Posted, DataOK
  <2> QED  BY <2>1, <2>2, <2>3, <2>4
<1>3. ASSUME NEW t \in Targets, DenyText(t) PROVE TypeOK'
  <2>1. RequestOK'
    BY <1>3 DEF DenyText, RequestOK
  <2>2. TargetsOK'
    BY <1>3 DEF DenyText, TargetsOK
  <2>3. TicketsOK'
    BY <1>3 DEF DenyText, TicketsOK
  <2>4. DataOK'
    BY <1>3 DEF DenyText, DataOK
  <2> QED  BY <2>1, <2>2, <2>3, <2>4
<1>4. ASSUME NEW t \in Targets, RejectText(t) PROVE TypeOK'
  <2>1. RequestOK'
    BY <1>4, RecomputeTyped DEF RejectText
  <2>2. TargetsOK'
    BY <1>4, FailedRow, SetTargetTyped DEF RejectText, TargetsOK
  <2>3. TicketsOK'
    BY <1>4 DEF RejectText, TicketsOK
  <2>4. DataOK'
    BY <1>4 DEF RejectText, DataOK
  <2> QED  BY <2>1, <2>2, <2>3, <2>4
<1>5. ASSUME NEW w \in Workers, ClaimRequest(w) PROVE TypeOK'
  <2>1. RequestOK'
    BY <1>5, SetsAssumption DEF ClaimRequest, Claimed, RequestOK, RequestRow
  <2>2. TargetsOK'
    BY <1>5 DEF ClaimRequest, TargetsOK
  <2>3. TicketsOK'
    BY <1>5, TakeTyped DEF ClaimRequest
  <2>4. DataOK'
    BY <1>5 DEF ClaimRequest, DataOK
  <2> QED  BY <2>1, <2>2, <2>3, <2>4
<1>6. ASSUME NEW w \in Workers, FreezeSources(w) PROVE TypeOK'
  <2>1. RequestOK'
    BY <1>6 DEF FreezeSources, Unleased, RequestOK, RequestRow
  <2>2. TargetsOK'
    BY <1>6 DEF FreezeSources, TargetsOK
  <2>3. TicketsOK'
    BY <1>6, DropTyped DEF FreezeSources
  <2>4. DataOK'
    BY <1>6 DEF FreezeSources, DataOK
  <2> QED  BY <2>1, <2>2, <2>3, <2>4
<1>7. ASSUME NEW w \in Workers, NEW r \in BOOLEAN, FailRequest(w, r) PROVE TypeOK'
  <2>1. RequestOK'
    BY <1>7 DEF FailRequest, Unleased, RequestOK, RequestRow
  <2>2. TargetsOK'
    BY <1>7, FailedRow DEF FailRequest, TargetsOK
  <2>3. TicketsOK'
    BY <1>7, DropTyped DEF FailRequest
  <2>4. DataOK'
    BY <1>7 DEF FailRequest, DataOK
  <2> QED  BY <2>1, <2>2, <2>3, <2>4
<1>8. ASSUME NEW w \in Workers, NEW t \in Targets, ClaimTarget(w, t) PROVE TypeOK'
  <2>1. RequestOK'
    BY <1>8 DEF ClaimTarget, RequestOK
  <2>2. TargetsOK'
    BY <1>8, SetsAssumption, CopyingRow, SetTargetTyped DEF ClaimTarget, TargetsOK
  <2>3. TicketsOK'
    BY <1>8, TakeTyped DEF ClaimTarget
  <2>4. DataOK'
    BY <1>8 DEF ClaimTarget, DataOK
  <2> QED  BY <2>1, <2>2, <2>3, <2>4
<1>9. ASSUME NEW w \in Workers, NEW t \in Targets, Reserve(w, t) PROVE TypeOK'
  <2>1. RequestOK'
    BY <1>9 DEF Reserve, Checkpoint, RequestOK
  <2>2. TargetsOK'
    BY <1>9, StateRow, SetTargetTyped DEF Reserve, Checkpoint, TargetsOK, Open, Works, Matches
  <2>3. TicketsOK'
    BY <1>9, TakeTyped DEF Reserve, Checkpoint
  <2>4. DataOK'
    BY <1>9 DEF Reserve, Checkpoint, DataOK
  <2> QED  BY <2>1, <2>2, <2>3, <2>4
<1>10. ASSUME NEW w \in Workers, NEW t \in Targets, Verify(w, t) PROVE TypeOK'
  <2>1. RequestOK'
    BY <1>10 DEF Verify, Checkpoint, RequestOK
  <2>2. TargetsOK'
    BY <1>10, StateRow, SetTargetTyped DEF Verify, Checkpoint, TargetsOK, Open, Works, Matches
  <2>3. TicketsOK'
    BY <1>10, TakeTyped DEF Verify, Checkpoint
  <2>4. DataOK'
    BY <1>10 DEF Verify, Checkpoint, DataOK
  <2> QED  BY <2>1, <2>2, <2>3, <2>4
<1>11. ASSUME NEW w \in Workers, NEW t \in Targets, MarkReady(w, t) PROVE TypeOK'
  <2>1. RequestOK'
    BY <1>11 DEF MarkReady, Checkpoint, RequestOK
  <2>2. TargetsOK'
    BY <1>11, StateRow, SetTargetTyped DEF MarkReady, Checkpoint, TargetsOK, Open, Works, Matches
  <2>3. TicketsOK'
    BY <1>11, TakeTyped DEF MarkReady, Checkpoint
  <2>4. DataOK'
    BY <1>11 DEF MarkReady, Checkpoint, DataOK
  <2> QED  BY <2>1, <2>2, <2>3, <2>4
<1>12. ASSUME NEW w \in Workers, NEW t \in Targets, Commit(w, t) PROVE TypeOK'
  <2>1. RequestOK'
    BY <1>12, RecomputeTyped DEF Commit
  <2>2. TargetsOK'
    BY <1>12, SucceededRow, SetTargetTyped DEF Commit, Posted, TargetsOK
  <2>3. TicketsOK'
    BY <1>12, DropTyped DEF Commit
  <2>4. DataOK'
    BY <1>12 DEF Commit, Posted, DataOK
  <2> QED  BY <2>1, <2>2, <2>3, <2>4
<1>13. ASSUME NEW w \in Workers, NEW t \in Targets, CommitDenied(w, t) PROVE TypeOK'
  <2>1. RequestOK'
    BY <1>13 DEF CommitDenied, RequestOK
  <2>2. TargetsOK'
    BY <1>13 DEF CommitDenied, TargetsOK
  <2>3. TicketsOK'
    BY <1>13, DropTyped DEF CommitDenied
  <2>4. DataOK'
    BY <1>13 DEF CommitDenied, DataOK
  <2> QED  BY <2>1, <2>2, <2>3, <2>4
<1>14. ASSUME NEW w \in Workers, NEW t \in Targets, NEW r \in BOOLEAN, FailTarget(w, t, r) PROVE TypeOK'
  <2>1. RequestOK'
    BY <1>14, RecomputeTyped DEF FailTarget
  <2>2. TargetsOK'
    BY <1>14, EndedRow, FailedRow, SetTargetTyped DEF FailTarget, TargetsOK, Works, Matches
  <2>3. TicketsOK'
    BY <1>14, DropTyped DEF FailTarget
  <2>4. DataOK'
    BY <1>14 DEF FailTarget, DataOK
  <2> QED  BY <2>1, <2>2, <2>3, <2>4
<1>15. ASSUME NEW w \in Workers, NEW t \in Targets, ClaimDelivery(w, t) PROVE TypeOK'
  <2>1. RequestOK'
    BY <1>15 DEF ClaimDelivery, RequestOK
  <2>2. TargetsOK'
    BY <1>15, SetsAssumption, ClaimedRow, SetTargetTyped DEF ClaimDelivery, TargetsOK
  <2>3. TicketsOK'
    BY <1>15, TakeTyped DEF ClaimDelivery
  <2>4. DataOK'
    BY <1>15 DEF ClaimDelivery, DataOK
  <2> QED  BY <2>1, <2>2, <2>3, <2>4
<1>16. ASSUME NEW w \in Workers, NEW t \in Targets, NEW m \in Messages, ReadDelivery(w, t, m) PROVE TypeOK'
  <2>1. RequestOK'
    BY <1>16 DEF ReadDelivery, RequestOK
  <2>2. TargetsOK'
    BY <1>16 DEF ReadDelivery, TargetsOK
  <2>3. TicketsOK'
    BY <1>16, AnnouncingTyped DEF ReadDelivery
  <2>4. DataOK'
    BY <1>16 DEF ReadDelivery, DataOK
  <2> QED  BY <2>1, <2>2, <2>3, <2>4
<1>17. ASSUME NEW w \in Workers, Publish(w) PROVE TypeOK'
  <2>1. RequestOK'
    BY <1>17 DEF Publish, RequestOK
  <2>2. TargetsOK'
    BY <1>17 DEF Publish, TargetsOK
  <2>3. TicketsOK'
    BY <1>17, AnnouncingTyped DEF Publish, TicketsOK
  <2>4. DataOK'
    BY <1>17 DEF Publish, TicketsOK, DataOK
  <2> QED  BY <2>1, <2>2, <2>3, <2>4
<1>18. ASSUME NEW w \in Workers, NEW t \in Targets, MarkDelivered(w, t) PROVE TypeOK'
  <2>1. RequestOK'
    BY <1>18 DEF MarkDelivered, RequestOK
  <2>2. TargetsOK'
    BY <1>18, DeliveredRow, SetTargetTyped DEF MarkDelivered, TargetsOK
  <2>3. TicketsOK'
    BY <1>18, TakeTyped, DropTyped DEF MarkDelivered
  <2>4. DataOK'
    BY <1>18 DEF MarkDelivered, TicketsOK, Delivers, DataOK
  <2> QED  BY <2>1, <2>2, <2>3, <2>4
<1>19. ASSUME NEW w \in Workers, Rejected(w) PROVE TypeOK'
  <2>1. RequestOK'
    BY <1>19 DEF Rejected, RequestOK
  <2>2. TargetsOK'
    BY <1>19 DEF Rejected, TargetsOK
  <2>3. TicketsOK'
    BY <1>19, DropTyped DEF Rejected
  <2>4. DataOK'
    BY <1>19 DEF Rejected, DataOK
  <2> QED  BY <2>1, <2>2, <2>3, <2>4
<1>20. ASSUME NEW w \in Workers, Crash(w) PROVE TypeOK'
  <2>1. RequestOK'
    BY <1>20 DEF Crash, RequestOK
  <2>2. TargetsOK'
    BY <1>20 DEF Crash, TargetsOK
  <2>3. TicketsOK'
    BY <1>20, DropTyped DEF Crash
  <2>4. DataOK'
    BY <1>20 DEF Crash, DataOK
  <2> QED  BY <2>1, <2>2, <2>3, <2>4
<1>21. ASSUME ExpireRequest PROVE TypeOK'
  <2>1. RequestOK'
    BY <1>21 DEF ExpireRequest, Expired, RequestOK, RequestRow
  <2>2. TargetsOK'
    BY <1>21 DEF ExpireRequest, TargetsOK
  <2>3. TicketsOK'
    BY <1>21 DEF ExpireRequest, TicketsOK
  <2>4. DataOK'
    BY <1>21 DEF ExpireRequest, DataOK
  <2> QED  BY <2>1, <2>2, <2>3, <2>4
<1>22. ASSUME NEW t \in Targets, ExpireTarget(t) PROVE TypeOK'
  <2>1. RequestOK'
    BY <1>22 DEF ExpireTarget, RequestOK
  <2>2. TargetsOK'
    BY <1>22, ExpiredRow, SetTargetTyped DEF ExpireTarget, TargetsOK
  <2>3. TicketsOK'
    BY <1>22 DEF ExpireTarget, TicketsOK
  <2>4. DataOK'
    BY <1>22 DEF ExpireTarget, DataOK
  <2> QED  BY <2>1, <2>2, <2>3, <2>4
<1>23. ASSUME NEW x \in Revocable, Revoke(x) PROVE TypeOK'
  <2>1. RequestOK'
    BY <1>23 DEF Revoke, RequestOK
  <2>2. TargetsOK'
    BY <1>23 DEF Revoke, TargetsOK
  <2>3. TicketsOK'
    BY <1>23 DEF Revoke, TicketsOK
  <2>4. DataOK'
    BY <1>23 DEF Revoke, DataOK
  <2> QED  BY <2>1, <2>2, <2>3, <2>4
<1>24. ASSUME NEW G \in SUBSET Targets, Retry(G) PROVE TypeOK'
  <2>1. RequestOK'
    BY <1>24, RecomputeTyped DEF Retry
  <2>2. TargetsOK'
    BY <1>24, RequeuedRow DEF Retry, TargetsOK
  <2>3. TicketsOK'
    BY <1>24 DEF Retry, TicketsOK
  <2>4. DataOK'
    BY <1>24 DEF Retry, DataOK
  <2> QED  BY <2>1, <2>2, <2>3, <2>4
<1>25. ASSUME UNCHANGED vars PROVE TypeOK'
  BY <1>25 DEF vars, RequestOK, TargetsOK, TicketsOK, DataOK
<1> QED
  BY <1>1, <1>2, <1>3, <1>4, <1>5, <1>6, <1>7, <1>8, <1>9, <1>10, <1>11, <1>12, <1>13, <1>14, <1>15, <1>16, <1>17, <1>18, <1>19, <1>20, <1>21, <1>22, <1>23, <1>24, <1>25
  DEF Next, WorkerStep, Resolve, Copy, Deliver, Expire

---------------------------------------------------------------------------
(***************************************************************************)
(* Who may work on the request. Nothing is copied before the sources are   *)
(* frozen, freezing ends the request's own lease, and of the targets that  *)
(* are being copied only one has a live lease. A ticket that still matches *)
(* its row shows the state the row is in.                                  *)
(***************************************************************************)
CopyingAfterFreeze ==
    /\ ~request.frozen => \A t \in Targets : target[t].state \in {"PENDING", "FAILED"}
    /\ request.frozen => ~request.live
OneCopying ==
    \A t, u \in Targets :
        /\ target[t].state \in Leased /\ target[t].live
        /\ target[u].state \in Leased /\ target[u].live
        => t = u
TicketsCurrent ==
    \A w \in Workers, t \in Targets :
        /\ Works(w, t) => target[t].state = IF ticket[w].step = "copying" THEN "COPYING" ELSE "READY"
        /\ Delivers(w, t) => target[t].state = "SUCCEEDED"
LeaseInv == CopyingAfterFreeze /\ OneCopying /\ TicketsCurrent

\* CompleteText.
LEMMA CompleteTextEffect ==
    ASSUME TypeOK, NEW t \in Targets, CompleteText(t)
    PROVE  /\ \A u \in Targets \ {t} : target'[u] = target[u]
           /\ target'[t].state = "SUCCEEDED"
           /\ target'[t].holder = None
           /\ target'[t].live = FALSE
           /\ target'[t].pending = TRUE
<1>1. target[t] \in TargetRow
  BY DEF TypeOK, TargetsOK
<1>2. target'[t] = Succeeded(target[t]) /\ \A u \in Targets \ {t} : target'[u] = target[u]
  BY DEF TypeOK, TargetsOK, SetTarget, CompleteText, Posted
<1> QED  BY <1>1, <1>2, SucceededRow

\* ClaimRequest.
LEMMA ClaimRequestEffect ==
    ASSUME TypeOK, NEW w \in Workers, ClaimRequest(w)
    PROVE  /\ \A v \in Workers \ {w} : ticket'[v] = ticket[v]
           /\ ticket'[w].step = "resolving"
           /\ ticket'[w].of = None
<1>3. /\ ticket'[w].step = "resolving" /\ ticket'[w].of = None
      /\ \A v \in Workers \ {w} : ticket'[v] = ticket[v]
  BY TakeTyped DEF TypeOK, ClaimRequest
<1> QED  BY <1>3

\* FreezeSources.
LEMMA FreezeSourcesEffect ==
    ASSUME TypeOK, NEW w \in Workers, FreezeSources(w)
    PROVE  /\ \A v \in Workers \ {w} : ticket'[v] = ticket[v]
           /\ ticket'[w].step = "idle"
           /\ ticket'[w].of = None
<1>3. /\ ticket'[w].step = "idle" /\ ticket'[w].of = None
      /\ \A v \in Workers \ {w} : ticket'[v] = ticket[v]
  BY DropTyped DEF TypeOK, FreezeSources
<1> QED  BY <1>3

\* FailRequest.
LEMMA FailRequestEffect ==
    ASSUME TypeOK, NEW w \in Workers, NEW r \in BOOLEAN, FailRequest(w, r)
    PROVE  /\ \A v \in Workers \ {w} : ticket'[v] = ticket[v]
           /\ ticket'[w].step = "idle"
           /\ ticket'[w].of = None
<1>3. /\ ticket'[w].step = "idle" /\ ticket'[w].of = None
      /\ \A v \in Workers \ {w} : ticket'[v] = ticket[v]
  BY DropTyped DEF TypeOK, FailRequest
<1> QED  BY <1>3

\* ClaimTarget.
LEMMA ClaimTargetEffect ==
    ASSUME TypeOK, NEW w \in Workers, NEW t \in Targets, ClaimTarget(w, t)
    PROVE  /\ \A u \in Targets \ {t} : target'[u] = target[u]
           /\ target'[t].state = IF target[t].state = "READY" THEN "READY" ELSE "COPYING"
           /\ target'[t].holder = w
           /\ target'[t].live = TRUE
           /\ target'[t].pending = target[t].pending
           /\ \A v \in Workers \ {w} : ticket'[v] = ticket[v]
           /\ ticket'[w].step = IF target[t].state = "READY" THEN "ready" ELSE "copying"
           /\ ticket'[w].of = t
<1>1. target[t] \in TargetRow
  BY DEF TypeOK, TargetsOK
<1>2. target'[t] = Copying(target[t], w) /\ \A u \in Targets \ {t} : target'[u] = target[u]
  BY DEF TypeOK, TargetsOK, SetTarget, ClaimTarget
<1> DEFINE step == IF target[t].state = "READY" THEN "ready" ELSE "copying"
<1>3. step \in {"resolving", "copying", "ready", "delivering"} /\ Take(w, step, t)
  BY DEF ClaimTarget
<1>4. /\ ticket'[w].step = step /\ ticket'[w].of = t
      /\ \A v \in Workers \ {w} : ticket'[v] = ticket[v]
  <2> HIDE DEF step
  <2> QED  BY <1>3, TakeTyped DEF TypeOK
<1> QED  BY <1>1, <1>2, <1>4, CopyingRow

\* Reserve.
LEMMA ReserveEffect ==
    ASSUME TypeOK, NEW w \in Workers, NEW t \in Targets, Reserve(w, t)
    PROVE  /\ \A u \in Targets \ {t} : target'[u] = target[u]
           /\ target'[t].state = "COPYING"
           /\ target'[t].holder = target[t].holder
           /\ target'[t].live = target[t].live
           /\ target'[t].pending = target[t].pending
           /\ \A v \in Workers \ {w} : ticket'[v] = ticket[v]
           /\ ticket'[w].step = "copying"
           /\ ticket'[w].of = t
<1>1. target[t] \in TargetRow
  BY DEF TypeOK, TargetsOK
<1>2. target'[t] = InState(target[t], "COPYING") /\ \A u \in Targets \ {t} : target'[u] = target[u]
  BY DEF TypeOK, TargetsOK, SetTarget, Reserve, Checkpoint
<1>3. /\ ticket'[w].step = "copying" /\ ticket'[w].of = t
      /\ \A v \in Workers \ {w} : ticket'[v] = ticket[v]
  BY TakeTyped DEF TypeOK, Reserve, Checkpoint
<1> QED  BY <1>1, <1>2, StateRow, <1>3 DEF Open

\* Verify.
LEMMA VerifyEffect ==
    ASSUME TypeOK, NEW w \in Workers, NEW t \in Targets, Verify(w, t)
    PROVE  /\ \A u \in Targets \ {t} : target'[u] = target[u]
           /\ target'[t].state = "COPYING"
           /\ target'[t].holder = target[t].holder
           /\ target'[t].live = target[t].live
           /\ target'[t].pending = target[t].pending
           /\ \A v \in Workers \ {w} : ticket'[v] = ticket[v]
           /\ ticket'[w].step = "copying"
           /\ ticket'[w].of = t
<1>1. target[t] \in TargetRow
  BY DEF TypeOK, TargetsOK
<1>2. target'[t] = InState(target[t], "COPYING") /\ \A u \in Targets \ {t} : target'[u] = target[u]
  BY DEF TypeOK, TargetsOK, SetTarget, Verify, Checkpoint
<1>3. /\ ticket'[w].step = "copying" /\ ticket'[w].of = t
      /\ \A v \in Workers \ {w} : ticket'[v] = ticket[v]
  BY TakeTyped DEF TypeOK, Verify, Checkpoint
<1> QED  BY <1>1, <1>2, StateRow, <1>3 DEF Open

\* MarkReady.
LEMMA MarkReadyEffect ==
    ASSUME TypeOK, NEW w \in Workers, NEW t \in Targets, MarkReady(w, t)
    PROVE  /\ \A u \in Targets \ {t} : target'[u] = target[u]
           /\ target'[t].state = "READY"
           /\ target'[t].holder = target[t].holder
           /\ target'[t].live = target[t].live
           /\ target'[t].pending = target[t].pending
           /\ \A v \in Workers \ {w} : ticket'[v] = ticket[v]
           /\ ticket'[w].step = "ready"
           /\ ticket'[w].of = t
<1>1. target[t] \in TargetRow
  BY DEF TypeOK, TargetsOK
<1>2. target'[t] = InState(target[t], "READY") /\ \A u \in Targets \ {t} : target'[u] = target[u]
  BY DEF TypeOK, TargetsOK, SetTarget, MarkReady, Checkpoint
<1>3. /\ ticket'[w].step = "ready" /\ ticket'[w].of = t
      /\ \A v \in Workers \ {w} : ticket'[v] = ticket[v]
  BY TakeTyped DEF TypeOK, MarkReady, Checkpoint
<1> QED  BY <1>1, <1>2, StateRow, <1>3 DEF Open

\* Commit.
LEMMA CommitEffect ==
    ASSUME TypeOK, NEW w \in Workers, NEW t \in Targets, Commit(w, t)
    PROVE  /\ \A u \in Targets \ {t} : target'[u] = target[u]
           /\ target'[t].state = "SUCCEEDED"
           /\ target'[t].holder = None
           /\ target'[t].live = FALSE
           /\ target'[t].pending = TRUE
           /\ \A v \in Workers \ {w} : ticket'[v] = ticket[v]
           /\ ticket'[w].step = "idle"
           /\ ticket'[w].of = None
<1>1. target[t] \in TargetRow
  BY DEF TypeOK, TargetsOK
<1>2. target'[t] = Succeeded(target[t]) /\ \A u \in Targets \ {t} : target'[u] = target[u]
  BY DEF TypeOK, TargetsOK, SetTarget, Commit, Posted
<1>3. /\ ticket'[w].step = "idle" /\ ticket'[w].of = None
      /\ \A v \in Workers \ {w} : ticket'[v] = ticket[v]
  BY DropTyped DEF TypeOK, Commit
<1> QED  BY <1>1, <1>2, SucceededRow, <1>3

\* CommitDenied.
LEMMA CommitDeniedEffect ==
    ASSUME TypeOK, NEW w \in Workers, NEW t \in Targets, CommitDenied(w, t)
    PROVE  /\ \A v \in Workers \ {w} : ticket'[v] = ticket[v]
           /\ ticket'[w].step = "idle"
           /\ ticket'[w].of = None
<1>3. /\ ticket'[w].step = "idle" /\ ticket'[w].of = None
      /\ \A v \in Workers \ {w} : ticket'[v] = ticket[v]
  BY DropTyped DEF TypeOK, CommitDenied
<1> QED  BY <1>3

\* FailTarget.
LEMMA FailTargetEffect ==
    ASSUME TypeOK, NEW w \in Workers, NEW t \in Targets, NEW r \in BOOLEAN, FailTarget(w, t, r)
    PROVE  /\ \A u \in Targets \ {t} : target'[u] = target[u]
           /\ target'[t].state = "FAILED"
           /\ target'[t].holder = None
           /\ target'[t].live = FALSE
           /\ target'[t].pending = target[t].pending
           /\ target'[t].retryable = r
           /\ \A v \in Workers \ {w} : ticket'[v] = ticket[v]
           /\ ticket'[w].step = "idle"
           /\ ticket'[w].of = None
<1>1. target[t] \in TargetRow
  BY DEF TypeOK, TargetsOK
<1>2. target'[t] = Failed(Unleased(target[t]), r) /\ \A u \in Targets \ {t} : target'[u] = target[u]
  BY DEF TypeOK, TargetsOK, SetTarget, FailTarget
<1>3. /\ ticket'[w].step = "idle" /\ ticket'[w].of = None
      /\ \A v \in Workers \ {w} : ticket'[v] = ticket[v]
  BY DropTyped DEF TypeOK, FailTarget
<1> QED  BY <1>1, <1>2, EndedRow, FailedRow, <1>3

\* ClaimDelivery.
LEMMA ClaimDeliveryEffect ==
    ASSUME TypeOK, NEW w \in Workers, NEW t \in Targets, ClaimDelivery(w, t)
    PROVE  /\ \A u \in Targets \ {t} : target'[u] = target[u]
           /\ target'[t].state = target[t].state
           /\ target'[t].holder = w
           /\ target'[t].live = TRUE
           /\ target'[t].pending = target[t].pending
           /\ target'[t].retryable = target[t].retryable
           /\ \A v \in Workers \ {w} : ticket'[v] = ticket[v]
           /\ ticket'[w].step = "delivering"
           /\ ticket'[w].of = t
<1>1. target[t] \in TargetRow
  BY DEF TypeOK, TargetsOK
<1>2. target'[t] = Claimed(target[t], w) /\ \A u \in Targets \ {t} : target'[u] = target[u]
  BY DEF TypeOK, TargetsOK, SetTarget, ClaimDelivery
<1>3. /\ ticket'[w].step = "delivering" /\ ticket'[w].of = t
      /\ \A v \in Workers \ {w} : ticket'[v] = ticket[v]
  BY TakeTyped DEF TypeOK, ClaimDelivery
<1> QED  BY <1>1, <1>2, ClaimedRow, <1>3

\* Rejected.
LEMMA RejectedEffect ==
    ASSUME TypeOK, NEW w \in Workers, Rejected(w)
    PROVE  /\ \A v \in Workers \ {w} : ticket'[v] = ticket[v]
           /\ ticket'[w].step = "idle"
           /\ ticket'[w].of = None
<1>3. /\ ticket'[w].step = "idle" /\ ticket'[w].of = None
      /\ \A v \in Workers \ {w} : ticket'[v] = ticket[v]
  BY DropTyped DEF TypeOK, Rejected
<1> QED  BY <1>3

\* Crash.
LEMMA CrashEffect ==
    ASSUME TypeOK, NEW w \in Workers, Crash(w)
    PROVE  /\ \A v \in Workers \ {w} : ticket'[v] = ticket[v]
           /\ ticket'[w].step = "idle"
           /\ ticket'[w].of = None
<1>3. /\ ticket'[w].step = "idle" /\ ticket'[w].of = None
      /\ \A v \in Workers \ {w} : ticket'[v] = ticket[v]
  BY DropTyped DEF TypeOK, Crash
<1> QED  BY <1>3

\* ExpireTarget.
LEMMA ExpireTargetEffect ==
    ASSUME TypeOK, NEW t \in Targets, ExpireTarget(t)
    PROVE  /\ \A u \in Targets \ {t} : target'[u] = target[u]
           /\ target'[t].state = target[t].state
           /\ target'[t].holder = target[t].holder
           /\ target'[t].live = FALSE
           /\ target'[t].pending = target[t].pending
           /\ target'[t].retryable = target[t].retryable
<1>1. target[t] \in TargetRow
  BY DEF TypeOK, TargetsOK
<1>2. target'[t] = Expired(target[t]) /\ \A u \in Targets \ {t} : target'[u] = target[u]
  BY DEF TypeOK, TargetsOK, SetTarget, ExpireTarget
<1> QED  BY <1>1, <1>2, ExpiredRow

\* A ticket stays current when the rows that change lose their lease or holder,
\* and workers let go or go on with the delivery they were at.
LEMMA TicketsKept ==
    ASSUME TypeOK, TicketsCurrent,
           \A u \in Targets : target'[u] = target[u] \/ ~target'[u].live \/ target'[u].holder = None,
           \A v \in Workers :
               \/ ticket'[v] = ticket[v] \/ ticket'[v].step \in {"idle", "resolving"}
               \/ /\ ticket'[v].of = ticket[v].of
                  /\ ticket[v].step \in {"delivering", "publishing", "marking"}
                  /\ ticket'[v].step \in {"delivering", "publishing", "marking"}
    PROVE  TicketsCurrent'
BY SetsAssumption DEF TicketsCurrent, Works, Delivers, Matches

\* So it does when one worker is given the lease of a row it is the holder of.
LEMMA TicketTaken ==
    ASSUME TypeOK, TicketsCurrent, NEW w \in Workers, NEW t \in Targets,
           \A u \in Targets \ {t} : target'[u] = target[u],
           \A v \in Workers \ {w} : ticket'[v] = ticket[v],
           ticket'[w].of = t, target'[t].holder = w,
           ticket'[w].step = "copying" => target'[t].state = "COPYING",
           ticket'[w].step = "ready" => target'[t].state = "READY",
           ticket'[w].step \in {"delivering", "publishing", "marking"} =>
               target'[t].state = "SUCCEEDED"
    PROVE  TicketsCurrent'
BY DEF TicketsCurrent, Works, Delivers, Matches

LEMMA OneCopyingKept ==
    ASSUME OneCopying,
           \A u \in Targets : target'[u].state \in Leased /\ target'[u].live =>
                               target[u].state \in Leased /\ target[u].live
    PROVE  OneCopying'
BY DEF OneCopying

LEMMA CopyingAfterFreezeKept ==
    ASSUME CopyingAfterFreeze, request'.frozen = request.frozen,
           request.frozen => ~request'.live,
           ~request.frozen => \A u \in Targets : \/ target'[u].state = target[u].state
                                                 \/ target'[u].state \in {"PENDING", "FAILED"}
    PROVE  CopyingAfterFreeze'
BY DEF CopyingAfterFreeze

\* Every action keeps the lease invariant.
LEMMA LeaseStep ==
    ASSUME TypeOK, LeaseInv, [Next]_vars
    PROVE  LeaseInv'
<1> USE DEF LeaseInv, rows, history, budget
<1>1. ASSUME NEW f \in BOOLEAN, Prepare(f) PROVE LeaseInv'
  <2>2. \A u \in Targets :
         ~target'[u].live /\ target'[u].state \in {"PENDING", "FAILED"}
    BY <1>1 DEF Prepare, NewTarget
  <2>4. CopyingAfterFreeze'
    BY <1>1, <2>2 DEF Prepare, NoRequest, CopyingAfterFreeze
  <2>5. OneCopying'
    BY <1>1, <2>2, OneCopyingKept DEF Prepare, Leased
  <2>6. TicketsCurrent'
    BY <1>1, <2>2, TicketsKept DEF Prepare
  <2> QED  BY <2>4, <2>5, <2>6
<1>2. ASSUME NEW t \in Targets, CompleteText(t) PROVE LeaseInv'
  <2>1. /\ \A u \in Targets \ {t} : target'[u] = target[u]
        /\ target'[t].state = "SUCCEEDED"
        /\ target'[t].holder = None
        /\ target'[t].live = FALSE
        /\ target'[t].pending = TRUE
    BY <1>2, CompleteTextEffect
  <2>4. CopyingAfterFreeze'
    BY <1>2 DEF CompleteText, Unleased, TypeOK, RequestOK, RequestRow, CopyingAfterFreeze
  <2>5. OneCopying'
    BY <1>2, <2>1, OneCopyingKept DEF CompleteText, Posted, Leased
  <2>6. TicketsCurrent'
    BY <1>2, <2>1, TicketsKept DEF CompleteText, Posted
  <2> QED  BY <2>4, <2>5, <2>6
<1>3. ASSUME NEW t \in Targets, DenyText(t) PROVE LeaseInv'
  <2>4. CopyingAfterFreeze'
    BY <1>3, CopyingAfterFreezeKept DEF DenyText, CopyingAfterFreeze
  <2>5. OneCopying'
    BY <1>3, OneCopyingKept DEF DenyText, Leased
  <2>6. TicketsCurrent'
    BY <1>3, TicketsKept DEF DenyText
  <2> QED  BY <2>4, <2>5, <2>6
<1>4. ASSUME NEW t \in Targets, RejectText(t) PROVE LeaseInv'
  <2>2. \A u \in Targets :
         \/ target'[u] = target[u]
         \/ target'[u].state = "FAILED" /\ target'[u].holder = None
    <3>1. Failed(target[t], FALSE).state = "FAILED" /\ Failed(target[t], FALSE).holder = None
      BY FailedRow DEF TypeOK, TargetsOK
    <3> QED  BY <1>4, <3>1 DEF RejectText, SetTarget, TypeOK, TargetsOK
  <2>3. request'.frozen = request.frozen /\ request'.live = request.live
    BY <1>4, RecomputeTyped DEF RejectText, TypeOK
  <2>4. CopyingAfterFreeze'
    BY <1>4, <2>2, <2>3, CopyingAfterFreezeKept DEF RejectText, CopyingAfterFreeze
  <2>5. OneCopying'
    BY <1>4, <2>2, <2>3, OneCopyingKept DEF RejectText, Leased
  <2>6. TicketsCurrent'
    BY <1>4, <2>2, <2>3, TicketsKept DEF RejectText
  <2> QED  BY <2>4, <2>5, <2>6
<1>5. ASSUME NEW w \in Workers, ClaimRequest(w) PROVE LeaseInv'
  <2>1. /\ \A v \in Workers \ {w} : ticket'[v] = ticket[v]
        /\ ticket'[w].step = "resolving"
        /\ ticket'[w].of = None
    BY <1>5, ClaimRequestEffect
  <2>3. ~request.frozen /\ ~request'.frozen
    BY <1>5 DEF ClaimRequest, Claimed, TypeOK, RequestOK, RequestRow
  <2>4. CopyingAfterFreeze'
    BY <1>5, <2>1, <2>3, CopyingAfterFreezeKept DEF ClaimRequest, CopyingAfterFreeze
  <2>5. OneCopying'
    BY <1>5, <2>1, <2>3, OneCopyingKept DEF ClaimRequest, Leased
  <2>6. TicketsCurrent'
    BY <1>5, <2>1, <2>3, TicketsKept DEF ClaimRequest
  <2> QED  BY <2>4, <2>5, <2>6
<1>6. ASSUME NEW w \in Workers, FreezeSources(w) PROVE LeaseInv'
  <2>1. /\ \A v \in Workers \ {w} : ticket'[v] = ticket[v]
        /\ ticket'[w].step = "idle"
        /\ ticket'[w].of = None
    BY <1>6, FreezeSourcesEffect
  <2>4. CopyingAfterFreeze'
    BY <1>6 DEF FreezeSources, Unleased, TypeOK, RequestOK, RequestRow, CopyingAfterFreeze
  <2>5. OneCopying'
    BY <1>6, <2>1, OneCopyingKept DEF FreezeSources, Leased
  <2>6. TicketsCurrent'
    BY <1>6, <2>1, TicketsKept DEF FreezeSources
  <2> QED  BY <2>4, <2>5, <2>6
<1>7. ASSUME NEW w \in Workers, NEW r \in BOOLEAN, FailRequest(w, r) PROVE LeaseInv'
  <2>1. /\ \A v \in Workers \ {w} : ticket'[v] = ticket[v]
        /\ ticket'[w].step = "idle"
        /\ ticket'[w].of = None
    BY <1>7, FailRequestEffect
  <2>2. \A u \in Targets :
         \/ target'[u] = target[u]
         \/ target'[u].state = "FAILED" /\ target'[u].holder = None
    BY <1>7, FailedRow DEF FailRequest, TypeOK, TargetsOK
  <2>3. request'.frozen = request.frozen /\ ~request'.live
    BY <1>7 DEF FailRequest, Unleased, TypeOK, RequestOK, RequestRow, CopyingAfterFreeze
  <2>4. CopyingAfterFreeze'
    BY <1>7, <2>1, <2>2, <2>3, CopyingAfterFreezeKept DEF FailRequest, CopyingAfterFreeze
  <2>5. OneCopying'
    BY <1>7, <2>1, <2>2, <2>3, OneCopyingKept DEF FailRequest, Leased
  <2>6. TicketsCurrent'
    BY <1>7, <2>1, <2>2, <2>3, TicketsKept DEF FailRequest
  <2> QED  BY <2>4, <2>5, <2>6
<1>8. ASSUME NEW w \in Workers, NEW t \in Targets, ClaimTarget(w, t) PROVE LeaseInv'
  <2>1. /\ \A u \in Targets \ {t} : target'[u] = target[u]
        /\ target'[t].state = IF target[t].state = "READY" THEN "READY" ELSE "COPYING"
        /\ target'[t].holder = w
        /\ target'[t].live = TRUE
        /\ target'[t].pending = target[t].pending
        /\ \A v \in Workers \ {w} : ticket'[v] = ticket[v]
        /\ ticket'[w].step = IF target[t].state = "READY" THEN "ready" ELSE "copying"
        /\ ticket'[w].of = t
    BY <1>8, ClaimTargetEffect
  <2>4. CopyingAfterFreeze'
    BY <1>8, <2>1, CopyingAfterFreezeKept DEF ClaimTarget, CopyingAfterFreeze
  <2>5. OneCopying'
    BY <1>8, <2>1 DEF ClaimTarget, OtherLive, OneCopying
  <2>6. TicketsCurrent'
    BY <1>8, <2>1, TicketTaken DEF ClaimTarget
  <2> QED  BY <2>4, <2>5, <2>6
<1>9. ASSUME NEW w \in Workers, NEW t \in Targets, Reserve(w, t) PROVE LeaseInv'
  <2>1. /\ \A u \in Targets \ {t} : target'[u] = target[u]
        /\ target'[t].state = "COPYING"
        /\ target'[t].holder = target[t].holder
        /\ target'[t].live = target[t].live
        /\ target'[t].pending = target[t].pending
        /\ \A v \in Workers \ {w} : ticket'[v] = ticket[v]
        /\ ticket'[w].step = "copying"
        /\ ticket'[w].of = t
    BY <1>9, ReserveEffect
  <2>4. CopyingAfterFreeze'
    BY <1>9, <2>1, CopyingAfterFreezeKept DEF Reserve, Checkpoint, CopyingAfterFreeze
  <2>5. OneCopying'
    BY <1>9, <2>1, OneCopyingKept DEF Reserve, Checkpoint, Leased, Works, Matches, TicketsCurrent
  <2>6. TicketsCurrent'
    BY <1>9, <2>1, TicketTaken DEF Reserve, Checkpoint, Works, Matches
  <2> QED  BY <2>4, <2>5, <2>6
<1>10. ASSUME NEW w \in Workers, NEW t \in Targets, Verify(w, t) PROVE LeaseInv'
  <2>1. /\ \A u \in Targets \ {t} : target'[u] = target[u]
        /\ target'[t].state = "COPYING"
        /\ target'[t].holder = target[t].holder
        /\ target'[t].live = target[t].live
        /\ target'[t].pending = target[t].pending
        /\ \A v \in Workers \ {w} : ticket'[v] = ticket[v]
        /\ ticket'[w].step = "copying"
        /\ ticket'[w].of = t
    BY <1>10, VerifyEffect
  <2>4. CopyingAfterFreeze'
    BY <1>10, <2>1, CopyingAfterFreezeKept DEF Verify, Checkpoint, CopyingAfterFreeze
  <2>5. OneCopying'
    BY <1>10, <2>1, OneCopyingKept DEF Verify, Checkpoint, Leased, Works, Matches, TicketsCurrent
  <2>6. TicketsCurrent'
    BY <1>10, <2>1, TicketTaken DEF Verify, Checkpoint, Works, Matches
  <2> QED  BY <2>4, <2>5, <2>6
<1>11. ASSUME NEW w \in Workers, NEW t \in Targets, MarkReady(w, t) PROVE LeaseInv'
  <2>1. /\ \A u \in Targets \ {t} : target'[u] = target[u]
        /\ target'[t].state = "READY"
        /\ target'[t].holder = target[t].holder
        /\ target'[t].live = target[t].live
        /\ target'[t].pending = target[t].pending
        /\ \A v \in Workers \ {w} : ticket'[v] = ticket[v]
        /\ ticket'[w].step = "ready"
        /\ ticket'[w].of = t
    BY <1>11, MarkReadyEffect
  <2>4. CopyingAfterFreeze'
    BY <1>11, <2>1, CopyingAfterFreezeKept DEF MarkReady, Checkpoint, CopyingAfterFreeze
  <2>5. OneCopying'
    BY <1>11, <2>1, OneCopyingKept DEF MarkReady, Checkpoint, Leased, Works, Matches, TicketsCurrent
  <2>6. TicketsCurrent'
    BY <1>11, <2>1, TicketTaken DEF MarkReady, Checkpoint, Works, Matches
  <2> QED  BY <2>4, <2>5, <2>6
<1>12. ASSUME NEW w \in Workers, NEW t \in Targets, Commit(w, t) PROVE LeaseInv'
  <2>1. /\ \A u \in Targets \ {t} : target'[u] = target[u]
        /\ target'[t].state = "SUCCEEDED"
        /\ target'[t].holder = None
        /\ target'[t].live = FALSE
        /\ target'[t].pending = TRUE
        /\ \A v \in Workers \ {w} : ticket'[v] = ticket[v]
        /\ ticket'[w].step = "idle"
        /\ ticket'[w].of = None
    BY <1>12, CommitEffect
  <2>3. request'.frozen = request.frozen /\ request'.live = request.live
    BY <1>12, RecomputeTyped DEF Commit, TypeOK
  <2>4. CopyingAfterFreeze'
    BY <1>12, <2>1, <2>3, CopyingAfterFreezeKept DEF Commit, Posted, Committable, CopyingAfterFreeze
  <2>5. OneCopying'
    BY <1>12, <2>1, <2>3, OneCopyingKept DEF Commit, Posted, Leased
  <2>6. TicketsCurrent'
    BY <1>12, <2>1, <2>3, TicketsKept DEF Commit, Posted
  <2> QED  BY <2>4, <2>5, <2>6
<1>13. ASSUME NEW w \in Workers, NEW t \in Targets, CommitDenied(w, t) PROVE LeaseInv'
  <2>1. /\ \A v \in Workers \ {w} : ticket'[v] = ticket[v]
        /\ ticket'[w].step = "idle"
        /\ ticket'[w].of = None
    BY <1>13, CommitDeniedEffect
  <2>4. CopyingAfterFreeze'
    BY <1>13, <2>1, CopyingAfterFreezeKept DEF CommitDenied, CopyingAfterFreeze
  <2>5. OneCopying'
    BY <1>13, <2>1, OneCopyingKept DEF CommitDenied, Leased
  <2>6. TicketsCurrent'
    BY <1>13, <2>1, TicketsKept DEF CommitDenied
  <2> QED  BY <2>4, <2>5, <2>6
<1>14. ASSUME NEW w \in Workers, NEW t \in Targets, NEW r \in BOOLEAN, FailTarget(w, t, r) PROVE LeaseInv'
  <2>1. /\ \A u \in Targets \ {t} : target'[u] = target[u]
        /\ target'[t].state = "FAILED"
        /\ target'[t].holder = None
        /\ target'[t].live = FALSE
        /\ target'[t].pending = target[t].pending
        /\ target'[t].retryable = r
        /\ \A v \in Workers \ {w} : ticket'[v] = ticket[v]
        /\ ticket'[w].step = "idle"
        /\ ticket'[w].of = None
    BY <1>14, FailTargetEffect
  <2>3. request'.frozen = request.frozen /\ request'.live = request.live
    BY <1>14, RecomputeTyped DEF FailTarget, TypeOK
  <2>4. CopyingAfterFreeze'
    BY <1>14, <2>1, <2>3, CopyingAfterFreezeKept DEF FailTarget, CopyingAfterFreeze
  <2>5. OneCopying'
    BY <1>14, <2>1, <2>3, OneCopyingKept DEF FailTarget, Leased
  <2>6. TicketsCurrent'
    BY <1>14, <2>1, <2>3, TicketsKept DEF FailTarget
  <2> QED  BY <2>4, <2>5, <2>6
<1>15. ASSUME NEW w \in Workers, NEW t \in Targets, ClaimDelivery(w, t) PROVE LeaseInv'
  <2>1. /\ \A u \in Targets \ {t} : target'[u] = target[u]
        /\ target'[t].state = target[t].state
        /\ target'[t].holder = w
        /\ target'[t].live = TRUE
        /\ target'[t].pending = target[t].pending
        /\ target'[t].retryable = target[t].retryable
        /\ \A v \in Workers \ {w} : ticket'[v] = ticket[v]
        /\ ticket'[w].step = "delivering"
        /\ ticket'[w].of = t
    BY <1>15, ClaimDeliveryEffect
  <2>4. CopyingAfterFreeze'
    BY <1>15, <2>1, CopyingAfterFreezeKept DEF ClaimDelivery, CopyingAfterFreeze
  <2>5. OneCopying'
    BY <1>15, <2>1, OneCopyingKept DEF ClaimDelivery, Leased
  <2>6. TicketsCurrent'
    BY <1>15, <2>1, TicketTaken DEF ClaimDelivery
  <2> QED  BY <2>4, <2>5, <2>6
<1>16. ASSUME NEW w \in Workers, NEW t \in Targets, NEW m \in Messages, ReadDelivery(w, t, m) PROVE LeaseInv'
  <2>4. CopyingAfterFreeze'
    BY <1>16, CopyingAfterFreezeKept DEF ReadDelivery, CopyingAfterFreeze
  <2>5. OneCopying'
    BY <1>16, OneCopyingKept DEF ReadDelivery, Leased
  <2>6. TicketsCurrent'
    BY <1>16, AnnouncingTyped, TicketsKept DEF ReadDelivery, TypeOK, TicketsOK, Delivers
  <2> QED  BY <2>4, <2>5, <2>6
<1>17. ASSUME NEW w \in Workers, Publish(w) PROVE LeaseInv'
  <2>4. CopyingAfterFreeze'
    BY <1>17, CopyingAfterFreezeKept DEF Publish, CopyingAfterFreeze
  <2>5. OneCopying'
    BY <1>17, OneCopyingKept DEF Publish, Leased
  <2>6. TicketsCurrent'
    BY <1>17, AnnouncingTyped, TicketsKept DEF Publish, TypeOK, TicketsOK
  <2> QED  BY <2>4, <2>5, <2>6
<1>18. ASSUME NEW w \in Workers, NEW t \in Targets, MarkDelivered(w, t) PROVE LeaseInv'
  <2>2. \A u \in Targets :
         \/ target'[u] = target[u]
         \/ target'[u].state = target[u].state /\ ~target'[u].live
    BY <1>18, DeliveredRow DEF MarkDelivered, SetTarget, TypeOK, TargetsOK
  <2>4. CopyingAfterFreeze'
    BY <1>18, <2>2, CopyingAfterFreezeKept DEF MarkDelivered, CopyingAfterFreeze
  <2>5. OneCopying'
    BY <1>18, <2>2, OneCopyingKept DEF MarkDelivered, Leased
  <2>6. TicketsCurrent'
    BY <1>18, <2>2, TakeTyped, DropTyped, TicketsKept DEF MarkDelivered, TypeOK, Delivers
  <2> QED  BY <2>4, <2>5, <2>6
<1>19. ASSUME NEW w \in Workers, Rejected(w) PROVE LeaseInv'
  <2>1. /\ \A v \in Workers \ {w} : ticket'[v] = ticket[v]
        /\ ticket'[w].step = "idle"
        /\ ticket'[w].of = None
    BY <1>19, RejectedEffect
  <2>4. CopyingAfterFreeze'
    BY <1>19, <2>1, CopyingAfterFreezeKept DEF Rejected, CopyingAfterFreeze
  <2>5. OneCopying'
    BY <1>19, <2>1, OneCopyingKept DEF Rejected, Leased
  <2>6. TicketsCurrent'
    BY <1>19, <2>1, TicketsKept DEF Rejected
  <2> QED  BY <2>4, <2>5, <2>6
<1>20. ASSUME NEW w \in Workers, Crash(w) PROVE LeaseInv'
  <2>1. /\ \A v \in Workers \ {w} : ticket'[v] = ticket[v]
        /\ ticket'[w].step = "idle"
        /\ ticket'[w].of = None
    BY <1>20, CrashEffect
  <2>4. CopyingAfterFreeze'
    BY <1>20, <2>1, CopyingAfterFreezeKept DEF Crash, CopyingAfterFreeze
  <2>5. OneCopying'
    BY <1>20, <2>1, OneCopyingKept DEF Crash, Leased
  <2>6. TicketsCurrent'
    BY <1>20, <2>1, TicketsKept DEF Crash
  <2> QED  BY <2>4, <2>5, <2>6
<1>21. ASSUME ExpireRequest PROVE LeaseInv'
  <2>3. request'.frozen = request.frozen /\ ~request'.live
    BY <1>21 DEF ExpireRequest, Expired, TypeOK, RequestOK, RequestRow
  <2>4. CopyingAfterFreeze'
    BY <1>21, <2>3, CopyingAfterFreezeKept DEF ExpireRequest, CopyingAfterFreeze
  <2>5. OneCopying'
    BY <1>21, <2>3, OneCopyingKept DEF ExpireRequest, Leased
  <2>6. TicketsCurrent'
    BY <1>21, <2>3, TicketsKept DEF ExpireRequest
  <2> QED  BY <2>4, <2>5, <2>6
<1>22. ASSUME NEW t \in Targets, ExpireTarget(t) PROVE LeaseInv'
  <2>1. /\ \A u \in Targets \ {t} : target'[u] = target[u]
        /\ target'[t].state = target[t].state
        /\ target'[t].holder = target[t].holder
        /\ target'[t].live = FALSE
        /\ target'[t].pending = target[t].pending
        /\ target'[t].retryable = target[t].retryable
    BY <1>22, ExpireTargetEffect
  <2>4. CopyingAfterFreeze'
    BY <1>22, <2>1, CopyingAfterFreezeKept DEF ExpireTarget, CopyingAfterFreeze
  <2>5. OneCopying'
    BY <1>22, <2>1, OneCopyingKept DEF ExpireTarget, Leased
  <2>6. TicketsCurrent'
    BY <1>22, <2>1, TicketsKept DEF ExpireTarget
  <2> QED  BY <2>4, <2>5, <2>6
<1>23. ASSUME NEW x \in Revocable, Revoke(x) PROVE LeaseInv'
  <2>4. CopyingAfterFreeze'
    BY <1>23, CopyingAfterFreezeKept DEF Revoke, CopyingAfterFreeze
  <2>5. OneCopying'
    BY <1>23, OneCopyingKept DEF Revoke, Leased
  <2>6. TicketsCurrent'
    BY <1>23, TicketsKept DEF Revoke
  <2> QED  BY <2>4, <2>5, <2>6
<1>24. ASSUME NEW G \in SUBSET Targets, Retry(G) PROVE LeaseInv'
  <2>2. \A u \in Targets :
         \/ target'[u] = target[u]
         \/ ~target'[u].live /\ (target'[u].state \in {"PENDING", "FAILED"} \/ target'[u].state = target[u].state)
    BY <1>24, RequeuedRow DEF Retry, Retryable, TypeOK, TargetsOK, Open
  <2>3. request'.frozen = request.frozen /\ request'.live = request.live
    BY <1>24, RecomputeTyped DEF Retry, TypeOK
  <2>4. CopyingAfterFreeze'
    BY <1>24, <2>2, <2>3, CopyingAfterFreezeKept DEF Retry, CopyingAfterFreeze
  <2>5. OneCopying'
    BY <1>24, <2>2, <2>3, OneCopyingKept DEF Retry, Leased
  <2>6. TicketsCurrent'
    BY <1>24, <2>2, <2>3, TicketsKept DEF Retry
  <2> QED  BY <2>4, <2>5, <2>6
<1>25. ASSUME UNCHANGED vars PROVE LeaseInv'
  BY <1>25 DEF vars, CopyingAfterFreeze, OneCopying, TicketsCurrent, Works, Delivers, Matches
<1> QED
  BY <1>1, <1>2, <1>3, <1>4, <1>5, <1>6, <1>7, <1>8, <1>9, <1>10, <1>11, <1>12, <1>13, <1>14, <1>15, <1>16, <1>17, <1>18, <1>19, <1>20, <1>21, <1>22, <1>23, <1>24, <1>25
  DEF Next, WorkerStep, Resolve, Copy, Deliver, Expire

---------------------------------------------------------------------------
(***************************************************************************)
(* The request's state. Before the request exists nothing is leased and    *)
(* nothing is being refused, so no step changes a target.                  *)
(***************************************************************************)
NothingBeforeRequest ==
    request.state = "NONE" =>
        /\ ~request.live /\ refusing = {}
        /\ \A t \in Targets : target[t].state = "PENDING" /\ ~target[t].live
StateInv == RequestStateDerived /\ NothingBeforeRequest

\* A step that leaves every target open or as it was leaves their summary.
StatesAlike ==
    \A t \in Targets :
        \/ target'[t].state = target[t].state
        \/ target'[t].state \in Open /\ target[t].state \in Open

LEMMA SucceededSummary ==
    ASSUME NEW tg, Summary(tg) = "SUCCEEDED"
    PROVE  \A t \in Targets : tg[t].state = "SUCCEEDED"
BY DEF Summary

LEMMA StateKept ==
    ASSUME StateInv, request'.state = request.state, request'.live => request.live \/ request.state # "NONE",
           request.state = "NONE" => refusing' = {} /\ target' = target,
           StatesAlike
    PROVE  StateInv'
<1>1. Summary(target') = Summary(target)
  BY DEF StatesAlike, Summary, Open
<1>2. RequestStateDerived'
  BY <1>1 DEF StateInv, RequestStateDerived, Summary
<1>3. NothingBeforeRequest'
  BY DEF StateInv, NothingBeforeRequest
<1> QED  BY <1>2, <1>3 DEF StateInv

\* A transaction that recomputes the state, unless all targets had succeeded.
LEMMA StateRecomputed ==
    ASSUME TypeOK, StateInv, Recompute(target'),
           target' # target => \E t \in Targets : target[t].state # "SUCCEEDED"
    PROVE  StateInv'
<1>1. request'.state = IF request.state = "SUCCEEDED" THEN "SUCCEEDED" ELSE Summary(target')
  BY RecomputeTyped DEF TypeOK
<1>2. request'.state # "NONE"
  BY <1>1, SummaryTyped
<1>3. CASE request.state = "SUCCEEDED"
  <2>1. Summary(target) = "SUCCEEDED"
    BY <1>3 DEF StateInv, RequestStateDerived
  <2>2. target' = target
    BY <2>1, SucceededSummary
  <2>3. Summary(target') = "SUCCEEDED"
    BY <2>1, <2>2
  <2> QED  BY <1>1, <1>2, <1>3, <2>3 DEF StateInv, RequestStateDerived, NothingBeforeRequest, Summary
<1>4. CASE request.state # "SUCCEEDED"
  BY <1>1, <1>2, <1>4 DEF StateInv, RequestStateDerived, NothingBeforeRequest, Summary
<1> QED  BY <1>3, <1>4

\* Every action keeps the request's state what its targets say.
LEMMA StateStep ==
    ASSUME TypeOK, LeaseInv, StateInv, [Next]_vars
    PROVE  StateInv'
<1> USE DEF rows, history, budget
<1>1. ASSUME NEW f \in BOOLEAN, Prepare(f) PROVE StateInv'
  <2>1. request'.state = Summary(target')
    BY <1>1 DEF Prepare, NoRequest
  <2> QED  BY <2>1, SummaryTyped DEF StateInv, RequestStateDerived, NothingBeforeRequest, Summary
<1>2. ASSUME NEW t \in Targets, CompleteText(t) PROVE StateInv'
  <2>1. request'.state = Summary(target')
    BY <1>2 DEF CompleteText, Unleased, TypeOK, RequestOK, RequestRow
  <2> QED  BY <2>1, SummaryTyped DEF StateInv, RequestStateDerived, NothingBeforeRequest, Summary
<1>3. ASSUME NEW t \in Targets, DenyText(t) PROVE StateInv'
  BY <1>3, StateKept DEF StatesAlike, DenyText, TextCompletable, StateInv, NothingBeforeRequest
<1>4. ASSUME NEW t \in Targets, RejectText(t) PROVE StateInv'
  <2>1. target' # target => target[t].state # "SUCCEEDED"
    BY <1>4 DEF RejectText
  <2> QED  BY <1>4, <2>1, StateRecomputed DEF RejectText
<1>5. ASSUME NEW w \in Workers, ClaimRequest(w) PROVE StateInv'
  <2>1. request'.state = request.state /\ request.state = "RUNNING"
    BY <1>5 DEF ClaimRequest, Claimed, TypeOK, RequestOK, RequestRow
  <2> QED  BY <1>5, <2>1, StateKept DEF StatesAlike, ClaimRequest, StateInv, NothingBeforeRequest
<1>6. ASSUME NEW w \in Workers, FreezeSources(w) PROVE StateInv'
  <2>1. request'.state = request.state /\ ~request'.live
    BY <1>6 DEF FreezeSources, Unleased, TypeOK, RequestOK, RequestRow
  <2> QED  BY <1>6, <2>1, StateKept DEF StatesAlike, FreezeSources, StateInv, NothingBeforeRequest
<1>7. ASSUME NEW w \in Workers, NEW r \in BOOLEAN, FailRequest(w, r) PROVE StateInv'
  <2>1. request'.state = "FAILED"
    BY <1>7 DEF FailRequest, Unleased, TypeOK, RequestOK, RequestRow
  <2>2. \A u \in Targets : target'[u].state = "FAILED"
    <3>1. \A u \in Targets : Failed(target[u], r).state = "FAILED"
      BY FailedRow DEF TypeOK, TargetsOK
    <3>2. \A u \in Targets : target[u].state \in {"PENDING", "FAILED"}
      BY <1>7 DEF FailRequest, Resolves, LeaseInv, CopyingAfterFreeze
    <3> QED  BY <1>7, <3>1, <3>2 DEF FailRequest
  <2>3. Summary(target') = "FAILED"
    BY <2>2, SetsAssumption DEF Summary, Open
  <2> QED  BY <2>1, <2>3 DEF StateInv, RequestStateDerived, NothingBeforeRequest, Summary
<1>8. ASSUME NEW w \in Workers, NEW t \in Targets, ClaimTarget(w, t) PROVE StateInv'
  <2>1. \A u \in Targets \ {t} : target'[u] = target[u]
    BY <1>8 DEF ClaimTarget, SetTarget, TypeOK, TargetsOK
  <2>2. target'[t].state \in {"READY", "COPYING"} /\ target[t].state \in Open
    BY <1>8, ClaimTargetEffect DEF ClaimTarget, Open
  <2>3. StatesAlike
    BY <2>1, <2>2 DEF StatesAlike, Open
  <2>4. request.state # "NONE" /\ request' = request /\ refusing' = refusing
    BY <1>8, SetsAssumption DEF ClaimTarget, StateInv, NothingBeforeRequest
  <2> QED  BY <2>3, <2>4, StateKept
<1>9. ASSUME NEW w \in Workers, NEW t \in Targets, Reserve(w, t) PROVE StateInv'
  <2>1. \A u \in Targets \ {t} : target'[u] = target[u]
    BY <1>9, ReserveEffect
  <2>2. target'[t].state \in {"COPYING"} /\ target[t].state \in Open
    BY <1>9, ReserveEffect DEF Reserve, Checkpoint, Works, LeaseInv, TicketsCurrent, Open
  <2>3. StatesAlike
    BY <2>1, <2>2 DEF StatesAlike, Open
  <2>4. request.state # "NONE" /\ request' = request /\ refusing' = refusing
    BY <1>9, SetsAssumption DEF Reserve, Checkpoint, StateInv, NothingBeforeRequest
  <2> QED  BY <2>3, <2>4, StateKept
<1>10. ASSUME NEW w \in Workers, NEW t \in Targets, Verify(w, t) PROVE StateInv'
  <2>1. \A u \in Targets \ {t} : target'[u] = target[u]
    BY <1>10, VerifyEffect
  <2>2. target'[t].state \in {"COPYING"} /\ target[t].state \in Open
    BY <1>10, VerifyEffect DEF Verify, Checkpoint, Works, LeaseInv, TicketsCurrent, Open
  <2>3. StatesAlike
    BY <2>1, <2>2 DEF StatesAlike, Open
  <2>4. request.state # "NONE" /\ request' = request /\ refusing' = refusing
    BY <1>10, SetsAssumption DEF Verify, Checkpoint, StateInv, NothingBeforeRequest
  <2> QED  BY <2>3, <2>4, StateKept
<1>11. ASSUME NEW w \in Workers, NEW t \in Targets, MarkReady(w, t) PROVE StateInv'
  <2>1. \A u \in Targets \ {t} : target'[u] = target[u]
    BY <1>11, MarkReadyEffect
  <2>2. target'[t].state \in {"READY"} /\ target[t].state \in Open
    BY <1>11, MarkReadyEffect DEF MarkReady, Checkpoint, Works, LeaseInv, TicketsCurrent, Open
  <2>3. StatesAlike
    BY <2>1, <2>2 DEF StatesAlike, Open
  <2>4. request.state # "NONE" /\ request' = request /\ refusing' = refusing
    BY <1>11, SetsAssumption DEF MarkReady, Checkpoint, StateInv, NothingBeforeRequest
  <2> QED  BY <2>3, <2>4, StateKept
<1>12. ASSUME NEW w \in Workers, NEW t \in Targets, Commit(w, t) PROVE StateInv'
  <2>1. target[t].state # "SUCCEEDED"
    BY <1>12 DEF Commit, Committable
  <2> QED  BY <1>12, <2>1, StateRecomputed DEF Commit
<1>13. ASSUME NEW w \in Workers, NEW t \in Targets, CommitDenied(w, t) PROVE StateInv'
  BY <1>13, StateKept DEF StatesAlike, CommitDenied, StateInv, NothingBeforeRequest
<1>14. ASSUME NEW w \in Workers, NEW t \in Targets, NEW r \in BOOLEAN, FailTarget(w, t, r) PROVE StateInv'
  <2>1. target[t].state # "SUCCEEDED"
    BY <1>14 DEF FailTarget, Works, LeaseInv, TicketsCurrent
  <2> QED  BY <1>14, <2>1, StateRecomputed DEF FailTarget
<1>15. ASSUME NEW w \in Workers, NEW t \in Targets, ClaimDelivery(w, t) PROVE StateInv'
  <2>1. \A u \in Targets \ {t} : target'[u] = target[u]
    BY <1>15, ClaimDeliveryEffect
  <2>2. target'[t].state = target[t].state
    BY <1>15, ClaimDeliveryEffect DEF ClaimDelivery, Open
  <2>3. StatesAlike
    BY <2>1, <2>2 DEF StatesAlike, Open
  <2>4. request.state # "NONE" /\ request' = request /\ refusing' = refusing
    BY <1>15, SetsAssumption DEF ClaimDelivery, StateInv, NothingBeforeRequest
  <2> QED  BY <2>3, <2>4, StateKept
<1>16. ASSUME NEW w \in Workers, NEW t \in Targets, NEW m \in Messages, ReadDelivery(w, t, m) PROVE StateInv'
  BY <1>16, StateKept DEF StatesAlike, ReadDelivery, StateInv, NothingBeforeRequest
<1>17. ASSUME NEW w \in Workers, Publish(w) PROVE StateInv'
  BY <1>17, StateKept DEF StatesAlike, Publish, StateInv, NothingBeforeRequest
<1>18. ASSUME NEW w \in Workers, NEW t \in Targets, MarkDelivered(w, t) PROVE StateInv'
  <2>1. \A u \in Targets : target'[u].state = target[u].state
    BY <1>18, DeliveredRow DEF MarkDelivered, SetTarget, TypeOK, TargetsOK
  <2> QED  BY <1>18, <2>1, StateKept DEF StatesAlike, MarkDelivered, Delivers, Matches, StateInv, NothingBeforeRequest
<1>19. ASSUME NEW w \in Workers, Rejected(w) PROVE StateInv'
  BY <1>19, StateKept DEF StatesAlike, Rejected, StateInv, NothingBeforeRequest
<1>20. ASSUME NEW w \in Workers, Crash(w) PROVE StateInv'
  BY <1>20, StateKept DEF StatesAlike, Crash, StateInv, NothingBeforeRequest
<1>21. ASSUME ExpireRequest PROVE StateInv'
  <2>1. request'.state = request.state /\ ~request'.live
    BY <1>21 DEF ExpireRequest, Expired, TypeOK, RequestOK, RequestRow
  <2> QED  BY <1>21, <2>1, StateKept DEF StatesAlike, ExpireRequest, StateInv, NothingBeforeRequest
<1>22. ASSUME NEW t \in Targets, ExpireTarget(t) PROVE StateInv'
  <2>1. \A u \in Targets \ {t} : target'[u] = target[u]
    BY <1>22, ExpireTargetEffect
  <2>2. target'[t].state = target[t].state
    BY <1>22, ExpireTargetEffect DEF ExpireTarget, Open
  <2>3. StatesAlike
    BY <2>1, <2>2 DEF StatesAlike, Open
  <2>4. request.state # "NONE" /\ request' = request /\ refusing' = refusing
    BY <1>22, SetsAssumption DEF ExpireTarget, StateInv, NothingBeforeRequest
  <2> QED  BY <2>3, <2>4, StateKept
<1>23. ASSUME NEW x \in Revocable, Revoke(x) PROVE StateInv'
  BY <1>23, StateKept DEF StatesAlike, Revoke, StateInv, NothingBeforeRequest
<1>24. ASSUME NEW G \in SUBSET Targets, Retry(G) PROVE StateInv'
  <2>1. PICK t \in Targets : target[t].state # "SUCCEEDED"
    BY <1>24 DEF Retry, Retryable, Open
  <2> QED  BY <1>24, <2>1, StateRecomputed DEF Retry
<1>25. ASSUME UNCHANGED vars PROVE StateInv'
  BY <1>25, StateKept DEF StatesAlike, vars, StateInv, NothingBeforeRequest
<1> QED
  BY <1>1, <1>2, <1>3, <1>4, <1>5, <1>6, <1>7, <1>8, <1>9, <1>10, <1>11, <1>12, <1>13, <1>14, <1>15, <1>16, <1>17, <1>18, <1>19, <1>20, <1>21, <1>22, <1>23, <1>24, <1>25
  DEF Next, WorkerStep, Resolve, Copy, Deliver, Expire

---------------------------------------------------------------------------
(***************************************************************************)
(* The inductive invariant: the types, the leases, the request's state.    *)
(***************************************************************************)
ForwardInv == TypeOK /\ LeaseInv /\ StateInv

LEMMA ForwardInit == Init => ForwardInv
<1> SUFFICES ASSUME Init PROVE ForwardInv
  OBVIOUS
<1>1. TypeOK
  <2>1. RequestOK
    BY DEF Init, NoRequest, RequestOK, RequestRow
  <2>2. TargetsOK
    BY DEF Init, NewTarget, TargetsOK, TargetRow, Open
  <2>3. TicketsOK
    BY MessagesAssumption DEF Init, Idle, TicketsOK, Ticket
  <2>4. DataOK
    BY DEF Init, DataOK
  <2> QED  BY <2>1, <2>2, <2>3, <2>4 DEF TypeOK
<1>2. CopyingAfterFreeze /\ OneCopying /\ TicketsCurrent
  BY DEF Init, NoRequest, NewTarget, Idle, CopyingAfterFreeze, OneCopying, TicketsCurrent,
         Works, Delivers
<1>3. RequestStateDerived /\ NothingBeforeRequest
  BY DEF Init, NoRequest, NewTarget, RequestStateDerived, NothingBeforeRequest
<1> QED  BY <1>1, <1>2, <1>3 DEF ForwardInv, LeaseInv, StateInv

LEMMA ForwardInvariant == Spec => []ForwardInv
<1>1. ForwardInv /\ [Next]_vars => ForwardInv'
  BY TypeStep, LeaseStep, StateStep DEF ForwardInv
<1> QED  BY ForwardInit, <1>1, PTL DEF Spec

\* The rows, the tickets and the records of the forward keep their types, and a
\* live lease is on a target that is being worked on.
THEOREM TypeCorrect == Spec => []TypeOK
<1>1. ForwardInv => TypeOK
  BY DEF ForwardInv
<1> QED  BY <1>1, ForwardInvariant, PTL

LEMMA OneExclusive == ForwardInv => ExclusiveTickets
<1> SUFFICES ASSUME ForwardInv, NEW v \in Workers, NEW w \in Workers,
                    Exclusive(v), Exclusive(w)
             PROVE  v = w
  BY DEF ExclusiveTickets
<1> USE DEF ForwardInv, LeaseInv
<1>1. ASSUME NEW u \in Workers, NEW t \in Targets, Works(u, t)
      PROVE  target[t].state \in Leased /\ target[t].live /\ target[t].holder = u
  BY <1>1 DEF TicketsCurrent, Works, Matches, Leased
<1>2. ASSUME NEW u \in Workers, Resolves(u)
      PROVE  request.holder = u /\ \A t \in Targets : target[t].state \notin Leased
  BY <1>2 DEF Resolves, Matches, CopyingAfterFreeze, Leased
<1>3. CASE Resolves(v) \/ Resolves(w)
  BY <1>1, <1>2, <1>3 DEF Exclusive
<1>4. CASE ~Resolves(v) /\ ~Resolves(w)
  <2>1. PICK t \in Targets : Works(v, t)
    BY <1>4 DEF Exclusive
  <2>2. PICK u \in Targets : Works(w, u)
    BY <1>4 DEF Exclusive
  <2>3. t = u
    BY <2>1, <2>2, <1>1 DEF OneCopying
  <2> QED  BY <2>1, <2>2, <2>3, <1>1
<1> QED  BY <1>3, <1>4

\* At most one worker at a time has the lease to resolve the request's sources
\* or to copy and post for one of its targets.
THEOREM OneWorker == Spec => []ExclusiveTickets
BY ForwardInvariant, OneExclusive, PTL

\* What the store answers about the request is what its targets say, whatever
\* races with a retry, a takeover or a denied text.
THEOREM StateDerived == Spec => []RequestStateDerived
<1>1. ForwardInv => RequestStateDerived
  BY DEF ForwardInv, StateInv
<1> QED  BY <1>1, ForwardInvariant, PTL

-----------------------------------------------------------------------------
(***************************************************************************)
(* What a group forward posts and announces, and that it keeps the promise *)
(* made to the user.                                                       *)
(***************************************************************************)

(***************************************************************************)
(* A target succeeds by being posted to, once. Until then nothing of it is *)
(* recorded as announced; afterwards a worker that publishes, or records   *)
(* what it published, is at a target that has succeeded.                   *)
(***************************************************************************)
PostedOnce ==
    \A t \in Targets : posted[t] = IF target[t].state = "SUCCEEDED" THEN 1 ELSE 0
RecordedAfterPost ==
    \A t \in Targets : target[t].state # "SUCCEEDED" => journal[t] = {}
AnnouncingPosted ==
    \A w \in Workers :
        /\ ticket[w].step \in {"publishing", "marking"} =>
               target[ticket[w].of].state = "SUCCEEDED"
        /\ ticket[w].step = "marking" =>
               ticket[w].msg \in sent[ticket[w].of] \cup suppressed[ticket[w].of]
PostInv == PostedOnce /\ RecordedAfterPost /\ AnnouncingPosted /\ PostedIsComplete

\* The rows a step leaves as they are, as far as posting goes.
RowsKept ==
    \A u \in Targets :
        /\ target'[u].pending = target[u].pending
        /\ \/ target'[u].state = target[u].state
           \/ target'[u].state # "SUCCEEDED" /\ target[u].state # "SUCCEEDED"
CopiesKept ==
    \A u \in Targets : target[u].state = "SUCCEEDED" =>
        (u \in bound' => u \in bound) /\ attempt'[u] = attempt[u]
TicketsKeptOrDone ==
    \A v \in Workers : ticket'[v] = ticket[v] \/ ticket'[v].step \notin {"publishing", "marking"}

\* A step that posts and announces nothing.
LEMMA PostKept ==
    ASSUME TypeOK, PostInv, RowsKept, CopiesKept, TicketsKeptOrDone,
           UNCHANGED <<posted, journal, carried, sent, suppressed>>
    PROVE  PostInv'
<1>1. PostedOnce'
  BY DEF PostInv, PostedOnce, RowsKept
<1>2. RecordedAfterPost'
  BY DEF PostInv, RecordedAfterPost, RowsKept
<1>3. AnnouncingPosted'
  <2>1. ASSUME NEW w \in Workers, ticket'[w].step \in {"publishing", "marking"}
        PROVE  ticket'[w] = ticket[w] /\ ticket[w].of \in Targets
    BY <2>1 DEF TicketsKeptOrDone, TypeOK, TicketsOK
  <2> QED  BY <2>1 DEF PostInv, AnnouncingPosted, RowsKept
<1>4. PostedIsComplete'
  <2> SUFFICES ASSUME NEW t \in Targets
               PROVE  /\ posted[t] > 0 /\ t \in bound' => t \in carried /\ attempt'[t] = "VERIFIED"
                      /\ journal[t] \subseteq sent[t] \cup suppressed[t]
                      /\ target'[t].pending <=> (target'[t].state = "SUCCEEDED" /\ journal[t] # Messages)
    BY DEF PostedIsComplete
  <2>1. /\ posted[t] > 0 => target[t].state = "SUCCEEDED"
    BY DEF PostInv, PostedOnce
  <2>2. posted[t] > 0 /\ t \in bound' => t \in carried /\ attempt'[t] = "VERIFIED"
    BY <2>1 DEF PostInv, PostedIsComplete, CopiesKept
  <2>3. /\ target'[t].pending = target[t].pending
        /\ (target'[t].state = "SUCCEEDED") <=> (target[t].state = "SUCCEEDED")
    BY DEF RowsKept
  <2> QED  BY <2>2, <2>3 DEF PostInv, PostedIsComplete
<1> QED  BY <1>1, <1>2, <1>3, <1>4 DEF PostInv

\* The transaction that posts to a target.
LEMMA PostAdded ==
    ASSUME TypeOK, PostInv, TicketsKeptOrDone, NEW t \in Targets, target[t].state # "SUCCEEDED",
           Posted(t), t \in bound => attempt[t] = "VERIFIED"
    PROVE  PostInv'
<1>1. /\ target'[t].state = "SUCCEEDED" /\ target'[t].pending
      /\ \A u \in Targets \ {t} : target'[u] = target[u]
  BY SucceededRow DEF Posted, SetTarget, TypeOK, TargetsOK
<1>2. posted'[t] = 1 /\ \A u \in Targets \ {t} : posted'[u] = posted[u]
  BY DEF Posted, PostInv, PostedOnce, TypeOK, DataOK
<1>3. journal[t] = {} /\ Messages # {}
  BY MessagesAssumption DEF PostInv, RecordedAfterPost, Messages
<1>4. PostedOnce'
  BY <1>1, <1>2 DEF PostInv, PostedOnce
<1>5. RecordedAfterPost'
  BY <1>1 DEF PostInv, RecordedAfterPost, Posted
<1>6. AnnouncingPosted'
  <2>1. ASSUME NEW w \in Workers, ticket'[w].step \in {"publishing", "marking"}
        PROVE  ticket'[w] = ticket[w] /\ ticket[w].of \in Targets
    BY <2>1 DEF TicketsKeptOrDone, TypeOK, TicketsOK
  <2> QED  BY <2>1, <1>1 DEF PostInv, AnnouncingPosted, Posted
<1>7. PostedIsComplete'
  <2>1. ASSUME NEW u \in Targets
        PROVE  posted'[u] > 0 /\ u \in bound' => u \in carried' /\ attempt'[u] = "VERIFIED"
    BY <1>2 DEF Posted, PostInv, PostedIsComplete
  <2>2. ASSUME NEW u \in Targets
        PROVE  journal'[u] \subseteq sent'[u] \cup suppressed'[u]
    BY DEF Posted, PostInv, PostedIsComplete
  <2>3. ASSUME NEW u \in Targets
        PROVE  target'[u].pending <=> (target'[u].state = "SUCCEEDED" /\ journal'[u] # Messages)
    BY <1>1, <1>3 DEF Posted, PostInv, PostedIsComplete
  <2> QED  BY <2>1, <2>2, <2>3 DEF PostedIsComplete
<1> QED  BY <1>4, <1>5, <1>6, <1>7 DEF PostInv

\* What every step of the forward makes of what was posted.
LEMMA PostStep ==
    ASSUME TypeOK, LeaseInv, StateInv, PostInv, [Next]_vars
    PROVE  PostInv'
<1> USE DEF rows, history, budget
<1>1. ASSUME NEW f \in BOOLEAN, Prepare(f) PROVE PostInv'
  <2>1. RowsKept
    <3>1. \A u \in Targets : target[u].state = "PENDING" /\ target[u].pending = FALSE
      BY <1>1 DEF Prepare, StateInv, NothingBeforeRequest, PostInv, PostedIsComplete, TypeOK, TargetsOK, TargetRow
    <3>2. \A u \in Targets : target'[u].state # "SUCCEEDED" /\ target'[u].pending = FALSE
      BY <1>1 DEF Prepare, NewTarget
    <3> QED  BY <3>1, <3>2 DEF RowsKept
  <2>2. CopiesKept
    BY <1>1 DEF Prepare, CopiesKept
  <2>3. TicketsKeptOrDone
    BY <1>1 DEF Prepare, TicketsKeptOrDone
  <2> QED  BY <1>1, <2>1, <2>2, <2>3, PostKept DEF Prepare
<1>2. ASSUME NEW t \in Targets, CompleteText(t) PROVE PostInv'
  <2>1. TicketsKeptOrDone
    BY <1>2 DEF CompleteText, Posted, TicketsKeptOrDone
  <2>2. target[t].state # "SUCCEEDED" /\ Posted(t) /\ (t \in bound => attempt[t] = "VERIFIED")
    BY <1>2 DEF CompleteText, TextCompletable, AssertReady
  <2> QED  BY <2>1, <2>2, PostAdded
<1>3. ASSUME NEW t \in Targets, DenyText(t) PROVE PostInv'
  <2>1. RowsKept
    BY <1>3 DEF DenyText, RowsKept
  <2>2. CopiesKept
    BY <1>3 DEF DenyText, CopiesKept
  <2>3. TicketsKeptOrDone
    BY <1>3 DEF DenyText, TicketsKeptOrDone
  <2> QED  BY <1>3, <2>1, <2>2, <2>3, PostKept DEF DenyText
<1>4. ASSUME NEW t \in Targets, RejectText(t) PROVE PostInv'
  <2>1. RowsKept
    <3>1. target[t] \in TargetRow /\ Failed(target[t], FALSE).state = "FAILED"
          /\ Failed(target[t], FALSE).pending = target[t].pending
      BY FailedRow DEF TypeOK, TargetsOK
    <3>2. CASE target[t].state = "PENDING" /\ ~target[t].live
      BY <1>4, <3>1, <3>2 DEF RejectText, SetTarget, TypeOK, TargetsOK, RowsKept
    <3>3. CASE ~(target[t].state = "PENDING" /\ ~target[t].live)
      BY <1>4, <3>3 DEF RejectText, RowsKept
    <3> QED  BY <3>2, <3>3
  <2>2. CopiesKept
    BY <1>4 DEF RejectText, CopiesKept
  <2>3. TicketsKeptOrDone
    BY <1>4 DEF RejectText, TicketsKeptOrDone
  <2> QED  BY <1>4, <2>1, <2>2, <2>3, PostKept DEF RejectText
<1>5. ASSUME NEW w \in Workers, ClaimRequest(w) PROVE PostInv'
  <2>1. RowsKept
    BY <1>5 DEF ClaimRequest, RowsKept
  <2>2. CopiesKept
    BY <1>5 DEF ClaimRequest, CopiesKept
  <2>3. TicketsKeptOrDone
    BY <1>5, TakeTyped DEF ClaimRequest, TicketsKeptOrDone, TypeOK
  <2> QED  BY <1>5, <2>1, <2>2, <2>3, PostKept DEF ClaimRequest
<1>6. ASSUME NEW w \in Workers, FreezeSources(w) PROVE PostInv'
  <2>1. RowsKept
    BY <1>6 DEF FreezeSources, RowsKept
  <2>2. CopiesKept
    BY <1>6 DEF FreezeSources, Resolves, LeaseInv, CopyingAfterFreeze, CopiesKept
  <2>3. TicketsKeptOrDone
    BY <1>6, DropTyped DEF FreezeSources, TicketsKeptOrDone, TypeOK
  <2> QED  BY <1>6, <2>1, <2>2, <2>3, PostKept DEF FreezeSources
<1>7. ASSUME NEW w \in Workers, NEW r \in BOOLEAN, FailRequest(w, r) PROVE PostInv'
  <2>1. RowsKept
    BY <1>7, FailedRow DEF FailRequest, TypeOK, TargetsOK, RowsKept
  <2>2. CopiesKept
    BY <1>7 DEF FailRequest, CopiesKept
  <2>3. TicketsKeptOrDone
    BY <1>7, DropTyped DEF FailRequest, TicketsKeptOrDone, TypeOK
  <2> QED  BY <1>7, <2>1, <2>2, <2>3, PostKept DEF FailRequest
<1>8. ASSUME NEW w \in Workers, NEW t \in Targets, ClaimTarget(w, t) PROVE PostInv'
  <2>1. RowsKept
    BY <1>8, CopyingRow DEF ClaimTarget, SetTarget, TypeOK, TargetsOK, Open, RowsKept
  <2>2. CopiesKept
    BY <1>8 DEF ClaimTarget, Open, TypeOK, DataOK, CopiesKept
  <2>3. TicketsKeptOrDone
    BY <1>8, ClaimTargetEffect DEF TicketsKeptOrDone
  <2> QED  BY <1>8, <2>1, <2>2, <2>3, PostKept DEF ClaimTarget
<1>9. ASSUME NEW w \in Workers, NEW t \in Targets, Reserve(w, t) PROVE PostInv'
  <2>1. RowsKept
    BY <1>9, StateRow DEF Reserve, Checkpoint, Works, SetTarget, TypeOK, TargetsOK, Open, LeaseInv, TicketsCurrent, RowsKept
  <2>2. CopiesKept
    BY <1>9 DEF Reserve, Checkpoint, Works, TypeOK, DataOK, LeaseInv, TicketsCurrent, CopiesKept
  <2>3. TicketsKeptOrDone
    BY <1>9, TakeTyped DEF Reserve, Checkpoint, TicketsKeptOrDone, TypeOK
  <2> QED  BY <1>9, <2>1, <2>2, <2>3, PostKept DEF Reserve, Checkpoint
<1>10. ASSUME NEW w \in Workers, NEW t \in Targets, Verify(w, t) PROVE PostInv'
  <2>1. RowsKept
    BY <1>10, StateRow DEF Verify, Checkpoint, Works, SetTarget, TypeOK, TargetsOK, Open, LeaseInv, TicketsCurrent, RowsKept
  <2>2. CopiesKept
    BY <1>10 DEF Verify, Checkpoint, Works, TypeOK, DataOK, LeaseInv, TicketsCurrent, CopiesKept
  <2>3. TicketsKeptOrDone
    BY <1>10, TakeTyped DEF Verify, Checkpoint, TicketsKeptOrDone, TypeOK
  <2> QED  BY <1>10, <2>1, <2>2, <2>3, PostKept DEF Verify, Checkpoint
<1>11. ASSUME NEW w \in Workers, NEW t \in Targets, MarkReady(w, t) PROVE PostInv'
  <2>1. RowsKept
    BY <1>11, StateRow DEF MarkReady, Checkpoint, Works, SetTarget, TypeOK, TargetsOK, Open, LeaseInv, TicketsCurrent, RowsKept
  <2>2. CopiesKept
    BY <1>11 DEF MarkReady, Checkpoint, CopiesKept
  <2>3. TicketsKeptOrDone
    BY <1>11, TakeTyped DEF MarkReady, Checkpoint, TicketsKeptOrDone, TypeOK
  <2> QED  BY <1>11, <2>1, <2>2, <2>3, PostKept DEF MarkReady, Checkpoint
<1>12. ASSUME NEW w \in Workers, NEW t \in Targets, Commit(w, t) PROVE PostInv'
  <2>1. TicketsKeptOrDone
    BY <1>12, DropTyped DEF Commit, TicketsKeptOrDone, TypeOK
  <2>2. target[t].state # "SUCCEEDED" /\ Posted(t) /\ (t \in bound => attempt[t] = "VERIFIED")
    BY <1>12 DEF Commit, Committable, AssertReady
  <2> QED  BY <2>1, <2>2, PostAdded
<1>13. ASSUME NEW w \in Workers, NEW t \in Targets, CommitDenied(w, t) PROVE PostInv'
  <2>1. RowsKept
    BY <1>13 DEF CommitDenied, RowsKept
  <2>2. CopiesKept
    BY <1>13 DEF CommitDenied, CopiesKept
  <2>3. TicketsKeptOrDone
    BY <1>13, DropTyped DEF CommitDenied, TicketsKeptOrDone, TypeOK
  <2> QED  BY <1>13, <2>1, <2>2, <2>3, PostKept DEF CommitDenied
<1>14. ASSUME NEW w \in Workers, NEW t \in Targets, NEW r \in BOOLEAN, FailTarget(w, t, r) PROVE PostInv'
  <2>1. RowsKept
    BY <1>14, EndedRow, FailedRow DEF FailTarget, Works, SetTarget, TypeOK, TargetsOK, LeaseInv, TicketsCurrent, RowsKept
  <2>2. CopiesKept
    BY <1>14 DEF FailTarget, CopiesKept
  <2>3. TicketsKeptOrDone
    BY <1>14, DropTyped DEF FailTarget, TicketsKeptOrDone, TypeOK
  <2> QED  BY <1>14, <2>1, <2>2, <2>3, PostKept DEF FailTarget
<1>15. ASSUME NEW w \in Workers, NEW t \in Targets, ClaimDelivery(w, t) PROVE PostInv'
  <2>1. RowsKept
    BY <1>15, ClaimedRow DEF ClaimDelivery, SetTarget, TypeOK, TargetsOK, RowsKept
  <2>2. CopiesKept
    BY <1>15 DEF ClaimDelivery, CopiesKept
  <2>3. TicketsKeptOrDone
    BY <1>15, TakeTyped DEF ClaimDelivery, TicketsKeptOrDone, TypeOK
  <2> QED  BY <1>15, <2>1, <2>2, <2>3, PostKept DEF ClaimDelivery
<1>16. ASSUME NEW w \in Workers, NEW t \in Targets, NEW m \in Messages, ReadDelivery(w, t, m) PROVE PostInv'
  <2>1. target[t].state = "SUCCEEDED"
    BY <1>16 DEF ReadDelivery, LeaseInv, TicketsCurrent
  <2>2. /\ \A v \in Workers \ {w} : ticket'[v] = ticket[v]
        /\ ticket'[w].of = t /\ ticket'[w].msg = m
        /\ ticket'[w].step = "marking" => m \in suppressed'[t]
    BY <1>16, AnnouncingTyped DEF ReadDelivery, TypeOK, DataOK
  <2>3. \A u \in Targets : suppressed[u] \subseteq suppressed'[u]
    BY <1>16 DEF ReadDelivery, TypeOK, DataOK
  <2>4. PostedOnce' /\ RecordedAfterPost'
    BY <1>16 DEF ReadDelivery, PostInv, PostedOnce, RecordedAfterPost
  <2>5. AnnouncingPosted'
    <3>1. \A v \in Workers : ticket[v].step \in {"publishing", "marking"} => ticket[v].of \in Targets
      BY DEF TypeOK, TicketsOK
    <3> QED  BY <1>16, <2>1, <2>2, <2>3, <3>1 DEF ReadDelivery, PostInv, AnnouncingPosted
  <2>6. PostedIsComplete'
    BY <1>16, <2>3 DEF ReadDelivery, PostInv, PostedIsComplete
  <2> QED  BY <2>4, <2>5, <2>6 DEF PostInv
<1>17. ASSUME NEW w \in Workers, Publish(w) PROVE PostInv'
  <2>1. /\ ticket[w].of \in Targets /\ ticket[w].msg \in Messages
        /\ target[ticket[w].of].state = "SUCCEEDED"
    BY <1>17 DEF Publish, TypeOK, TicketsOK, PostInv, AnnouncingPosted
  <2>2. /\ \A v \in Workers \ {w} : ticket'[v] = ticket[v]
        /\ ticket'[w].of = ticket[w].of /\ ticket'[w].msg = ticket[w].msg
    BY <1>17, <2>1, AnnouncingTyped DEF Publish, TypeOK
  <2>3. /\ \A u \in Targets : sent[u] \subseteq sent'[u]
        /\ ticket[w].msg \in sent'[ticket[w].of]
    BY <1>17, <2>1 DEF Publish, TypeOK, DataOK
  <2>4. PostedOnce' /\ RecordedAfterPost'
    BY <1>17 DEF Publish, PostInv, PostedOnce, RecordedAfterPost
  <2>5. AnnouncingPosted'
    <3>1. \A v \in Workers : ticket[v].step \in {"publishing", "marking"} => ticket[v].of \in Targets
      BY DEF TypeOK, TicketsOK
    <3> QED  BY <1>17, <2>1, <2>2, <2>3, <3>1 DEF Publish, PostInv, AnnouncingPosted
  <2>6. PostedIsComplete'
    BY <1>17, <2>3 DEF Publish, PostInv, PostedIsComplete
  <2> QED  BY <2>4, <2>5, <2>6 DEF PostInv
<1>18. ASSUME NEW w \in Workers, NEW t \in Targets, MarkDelivered(w, t) PROVE PostInv'
  <2>1. /\ target[t].state = "SUCCEEDED" /\ ticket[w].of = t /\ ticket[w].step = "marking"
        /\ ticket[w].msg \in Messages /\ ticket[w].msg \in sent[t] \cup suppressed[t]
    BY <1>18 DEF MarkDelivered, Delivers, LeaseInv, TicketsCurrent, TypeOK, TicketsOK, PostInv, AnnouncingPosted
  <2>2. /\ journal'[t] = journal[t] \cup {ticket[w].msg}
        /\ \A u \in Targets \ {t} : journal'[u] = journal[u]
    BY <1>18, <2>1 DEF MarkDelivered, TypeOK, DataOK
  <2>3. /\ \A u \in Targets \ {t} : target'[u] = target[u]
        /\ target'[t].state = "SUCCEEDED"
        /\ journal'[t] = Messages => ~target'[t].pending
        /\ journal'[t] # Messages => target'[t].pending = target[t].pending
    <3>1. Delivered(target[t]).state = target[t].state /\ ~Delivered(target[t]).pending
      BY DeliveredRow DEF TypeOK, TargetsOK
    <3> QED  BY <1>18, <2>1, <3>1 DEF MarkDelivered, SetTarget, TypeOK, TargetsOK
  <2>4. TicketsKeptOrDone
    BY <1>18, TakeTyped, DropTyped DEF MarkDelivered, TicketsKeptOrDone, TypeOK
  <2>5. PostedOnce' /\ RecordedAfterPost'
    BY <1>18, <2>1, <2>2, <2>3 DEF MarkDelivered, PostInv, PostedOnce, RecordedAfterPost
  <2>6. AnnouncingPosted'
    <3>1. ASSUME NEW v \in Workers, ticket'[v].step \in {"publishing", "marking"}
          PROVE  ticket'[v] = ticket[v] /\ ticket[v].of \in Targets
      BY <3>1, <2>4 DEF TicketsKeptOrDone, TypeOK, TicketsOK
    <3> QED  BY <1>18, <2>1, <2>3, <3>1 DEF MarkDelivered, PostInv, AnnouncingPosted
  <2>7. PostedIsComplete'
    <3>1. ASSUME NEW u \in Targets
          PROVE  posted'[u] > 0 /\ u \in bound' => u \in carried' /\ attempt'[u] = "VERIFIED"
      BY <1>18 DEF MarkDelivered, PostInv, PostedIsComplete
    <3>2. ASSUME NEW u \in Targets PROVE journal'[u] \subseteq sent'[u] \cup suppressed'[u]
      BY <1>18, <2>1, <2>2 DEF MarkDelivered, PostInv, PostedIsComplete
    <3>3. journal[t] \subseteq Messages /\ journal'[t] \subseteq Messages
      BY <2>1, <2>2 DEF TypeOK, DataOK
    <3>4. journal'[t] # Messages => journal[t] # Messages
      BY <2>1, <2>2
    <3>5. ASSUME NEW u \in Targets
          PROVE  target'[u].pending <=> (target'[u].state = "SUCCEEDED" /\ journal'[u] # Messages)
      <4>1. CASE u = t
        BY <4>1, <2>1, <2>3, <3>4 DEF PostInv, PostedIsComplete
      <4>2. CASE u # t
        BY <4>2, <2>2, <2>3 DEF PostInv, PostedIsComplete
      <4> QED  BY <4>1, <4>2
    <3> QED  BY <3>1, <3>2, <3>5 DEF PostedIsComplete
  <2> QED  BY <2>5, <2>6, <2>7 DEF PostInv
<1>19. ASSUME NEW w \in Workers, Rejected(w) PROVE PostInv'
  <2>1. RowsKept
    BY <1>19 DEF Rejected, RowsKept
  <2>2. CopiesKept
    BY <1>19 DEF Rejected, CopiesKept
  <2>3. TicketsKeptOrDone
    BY <1>19, DropTyped DEF Rejected, TicketsKeptOrDone, TypeOK
  <2> QED  BY <1>19, <2>1, <2>2, <2>3, PostKept DEF Rejected
<1>20. ASSUME NEW w \in Workers, Crash(w) PROVE PostInv'
  <2>1. RowsKept
    BY <1>20 DEF Crash, RowsKept
  <2>2. CopiesKept
    BY <1>20 DEF Crash, CopiesKept
  <2>3. TicketsKeptOrDone
    BY <1>20, DropTyped DEF Crash, TicketsKeptOrDone, TypeOK
  <2> QED  BY <1>20, <2>1, <2>2, <2>3, PostKept DEF Crash
<1>21. ASSUME ExpireRequest PROVE PostInv'
  <2>1. RowsKept
    BY <1>21 DEF ExpireRequest, RowsKept
  <2>2. CopiesKept
    BY <1>21 DEF ExpireRequest, CopiesKept
  <2>3. TicketsKeptOrDone
    BY <1>21 DEF ExpireRequest, TicketsKeptOrDone
  <2> QED  BY <1>21, <2>1, <2>2, <2>3, PostKept DEF ExpireRequest
<1>22. ASSUME NEW t \in Targets, ExpireTarget(t) PROVE PostInv'
  <2>1. RowsKept
    BY <1>22, ExpiredRow DEF ExpireTarget, SetTarget, TypeOK, TargetsOK, RowsKept
  <2>2. CopiesKept
    BY <1>22 DEF ExpireTarget, CopiesKept
  <2>3. TicketsKeptOrDone
    BY <1>22 DEF ExpireTarget, TicketsKeptOrDone
  <2> QED  BY <1>22, <2>1, <2>2, <2>3, PostKept DEF ExpireTarget
<1>23. ASSUME NEW x \in Revocable, Revoke(x) PROVE PostInv'
  <2>1. RowsKept
    BY <1>23 DEF Revoke, RowsKept
  <2>2. CopiesKept
    BY <1>23 DEF Revoke, CopiesKept
  <2>3. TicketsKeptOrDone
    BY <1>23 DEF Revoke, TicketsKeptOrDone
  <2> QED  BY <1>23, <2>1, <2>2, <2>3, PostKept DEF Revoke
<1>24. ASSUME NEW G \in SUBSET Targets, Retry(G) PROVE PostInv'
  <2>1. RowsKept
    BY <1>24, RequeuedRow DEF Retry, Retryable, TypeOK, TargetsOK, Open, RowsKept
  <2>2. CopiesKept
    BY <1>24 DEF Retry, CopiesKept
  <2>3. TicketsKeptOrDone
    BY <1>24 DEF Retry, TicketsKeptOrDone
  <2> QED  BY <1>24, <2>1, <2>2, <2>3, PostKept DEF Retry
<1>25. ASSUME UNCHANGED vars PROVE PostInv'
  BY <1>25, PostKept DEF vars, RowsKept, CopiesKept, TicketsKeptOrDone
<1> QED
  BY <1>1, <1>2, <1>3, <1>4, <1>5, <1>6, <1>7, <1>8, <1>9, <1>10, <1>11, <1>12, <1>13, <1>14, <1>15, <1>16, <1>17, <1>18, <1>19, <1>20, <1>21, <1>22, <1>23, <1>24, <1>25
  DEF Next, WorkerStep, Resolve, Copy, Deliver, Expire

---------------------------------------------------------------------------
LEMMA PostInit == Init => PostInv
<1> SUFFICES ASSUME Init PROVE PostInv
  OBVIOUS
<1>1. Messages # {}
  BY MessagesAssumption DEF Messages
<1>2. PostedOnce /\ RecordedAfterPost /\ AnnouncingPosted
  BY DEF Init, NewTarget, Idle, PostedOnce, RecordedAfterPost, AnnouncingPosted
<1>3. PostedIsComplete
  BY <1>1 DEF Init, NewTarget, PostedIsComplete
<1> QED  BY <1>2, <1>3 DEF PostInv

LEMMA PostInvariant == Spec => [](ForwardInv /\ PostInv)
<1>1. ForwardInv /\ ForwardInv' /\ PostInv /\ [Next]_vars => PostInv'
  BY PostStep DEF ForwardInv
<1> QED  BY ForwardInvariant, PostInit, <1>1, PTL DEF Spec

\* What was posted has the verified copy of every attachment its target was
\* bound to, and it is pending until its last message is recorded as announced
\* or gone.
THEOREM PostedComplete == Spec => []PostedIsComplete
<1>1. PostInv => PostedIsComplete
  BY DEF PostInv
<1> QED  BY <1>1, PostInvariant, PTL

---------------------------------------------------------------------------
(***************************************************************************)
(* The refinement. The promise sees a target's row through three questions *)
(* and the request's through one; a step that changes none of the answers  *)
(* is a stutter.                                                           *)
(***************************************************************************)
AnswersKept ==
    /\ (request'.state = "NONE") <=> (request.state = "NONE")
    /\ \A t \in Targets :
          /\ (target'[t].state = "SUCCEEDED") <=> (target[t].state = "SUCCEEDED")
          /\ (target'[t].state = "FAILED") <=> (target[t].state = "FAILED")
          /\ target[t].state = "FAILED" => target'[t].retryable = target[t].retryable

LEMMA Stutters ==
    ASSUME AnswersKept, UNCHANGED <<posted, sent>>
    PROVE  UNCHANGED Promise!vars
<1>1. outcome' = outcome
  BY DEF outcome, AnswersKept
<1>2. barred' = barred
  BY DEF barred, AnswersKept
<1> QED  BY <1>1, <1>2 DEF Promise!vars

\* A target that is neither posted to nor refused is posted to.
LEMMA Posts ==
    ASSUME TypeOK, PostInv, request.state # "NONE", request'.state # "NONE",
           NEW t \in Targets, target[t].state \in Open, Posted(t)
    PROVE  Promise!Next
<1>1. /\ target'[t].state = "SUCCEEDED"
      /\ \A u \in Targets \ {t} : target'[u] = target[u]
  BY SucceededRow DEF Posted, SetTarget, TypeOK, TargetsOK
<1>2. posted[t] = 0
  BY DEF PostInv, PostedOnce, Open
<1>3. posted' = [posted EXCEPT ![t] = 1]
  BY <1>2 DEF Posted
<1>4. outcome[t] = "waiting" /\ outcome' = [outcome EXCEPT ![t] = "posted"]
  BY <1>1 DEF outcome, Open
<1>5. barred' = barred
  BY <1>1 DEF barred, Open
<1>6. Promise!Post(t)
  BY <1>3, <1>4, <1>5 DEF Promise!Post, Posted
<1> QED  BY <1>6 DEF Promise!Next

\* Some targets that were open are refused, for good unless they may be retried.
LEMMA Refuses ==
    ASSUME request.state # "NONE", request'.state # "NONE", UNCHANGED <<posted, sent>>,
           NEW S \in SUBSET Targets, NEW r \in BOOLEAN,
           \A t \in S : /\ target[t].state \in Open
                        /\ target'[t].state = "FAILED" /\ target'[t].retryable = r,
           \A t \in Targets \ S : target'[t] = target[t]
    PROVE  Promise!Next
<1> DEFINE B == IF r THEN {} ELSE S
<1>1. \A t \in S : outcome[t] = "waiting"
  BY DEF outcome, Open
<1>2. outcome' = [t \in Targets |-> IF t \in S THEN "refused" ELSE outcome[t]]
  BY DEF outcome
<1>3. barred' = barred \cup B
  BY DEF barred, Open
<1>4. Promise!Refuse(S, B)
  BY <1>1, <1>2, <1>3 DEF Promise!Refuse
<1>5. B \in SUBSET Targets
  OBVIOUS
<1> QED  BY <1>4, <1>5 DEF Promise!Next

\* Every step of the forward is one of the promise or a stutter.
LEMMA PromiseStep ==
    ASSUME ForwardInv, ForwardInv', PostInv, [Next]_vars
    PROVE  [Promise!Next]_(Promise!vars)
<1> USE DEF rows, history, budget, ForwardInv
<1>1. ASSUME NEW f \in BOOLEAN, Prepare(f) PROVE [Promise!Next]_(Promise!vars)
  <2> DEFINE D == Targets \cap revoked
  <2>1. /\ request'.state # "NONE" /\ request.state = "NONE"
        /\ \A t \in Targets : /\ ~target'[t].retryable
                             /\ target'[t].state = IF t \in D THEN "FAILED" ELSE "PENDING"
    BY <1>1, SummaryTyped DEF Prepare, NewTarget, NoRequest
  <2>2. /\ \A t \in Targets : outcome[t] = "none"
        /\ outcome' = [t \in Targets |-> IF t \in D THEN "refused" ELSE "waiting"]
    BY <2>1 DEF outcome
  <2>3. barred' = D
    BY <2>1 DEF barred
  <2>4. Promise!Accept(D)
    BY <1>1, <2>2, <2>3 DEF Promise!Accept, Prepare
  <2> QED  BY <2>4 DEF Promise!Next
<1>2. ASSUME NEW t \in Targets, CompleteText(t) PROVE [Promise!Next]_(Promise!vars)
  <2>1. request.state = "RUNNING" /\ target[t].state \in Open /\ Posted(t)
    BY <1>2 DEF CompleteText, TextCompletable, Open
  <2>2. request'.state # "NONE"
    BY <1>2, SummaryTyped DEF CompleteText, Unleased, TypeOK, RequestOK, RequestRow
  <2> QED  BY <2>1, <2>2, Posts
<1>3. ASSUME NEW t \in Targets, DenyText(t) PROVE [Promise!Next]_(Promise!vars)
  <2>1. AnswersKept
    BY <1>3 DEF DenyText, AnswersKept
  <2>2. UNCHANGED <<posted, sent>>
    BY <1>3 DEF DenyText
  <2> QED  BY <2>1, <2>2, Stutters
<1>4. ASSUME NEW t \in Targets, RejectText(t) PROVE [Promise!Next]_(Promise!vars)
  <2>1. request.state # "NONE"
    BY <1>4 DEF RejectText, StateInv, NothingBeforeRequest
  <2>2. request'.state # "NONE"
    BY <1>4, RecomputeTyped, SummaryTyped DEF RejectText, TypeOK
  <2>3. CASE target[t].state = "PENDING" /\ ~target[t].live
    <3>1. /\ target'[t].state = "FAILED" /\ target'[t].retryable = FALSE
          /\ \A u \in Targets \ {t} : target'[u] = target[u]
      <4>1. target[t] \in TargetRow
        BY DEF TypeOK, TargetsOK
      <4>2. Failed(target[t], FALSE).state = "FAILED" /\ Failed(target[t], FALSE).retryable = FALSE
        BY <4>1, FailedRow
      <4> QED  BY <1>4, <2>3, <4>2 DEF RejectText, SetTarget, TypeOK, TargetsOK
    <3>2. target[t].state \in Open /\ UNCHANGED <<posted, sent>>
      BY <1>4, <2>3 DEF RejectText, Open
    <3>3. {t} \in SUBSET Targets /\ FALSE \in BOOLEAN
      OBVIOUS
    <3>4. /\ \A u \in {t} : /\ target[u].state \in Open
                            /\ target'[u].state = "FAILED" /\ target'[u].retryable = FALSE
          /\ \A u \in Targets \ {t} : target'[u] = target[u]
      BY <3>1, <3>2
    <3> QED  BY <2>1, <2>2, <3>2, <3>3, <3>4, Refuses
  <2>4. CASE ~(target[t].state = "PENDING" /\ ~target[t].live)
    <3>1. AnswersKept /\ UNCHANGED <<posted, sent>>
      BY <1>4, <2>1, <2>2, <2>4 DEF RejectText, AnswersKept
    <3> QED  BY <3>1, Stutters
  <2> QED  BY <2>3, <2>4
<1>5. ASSUME NEW w \in Workers, ClaimRequest(w) PROVE [Promise!Next]_(Promise!vars)
  <2>1. AnswersKept
    BY <1>5 DEF ClaimRequest, Claimed, TypeOK, RequestOK, RequestRow, AnswersKept
  <2>2. UNCHANGED <<posted, sent>>
    BY <1>5 DEF ClaimRequest
  <2> QED  BY <2>1, <2>2, Stutters
<1>6. ASSUME NEW w \in Workers, FreezeSources(w) PROVE [Promise!Next]_(Promise!vars)
  <2>1. AnswersKept
    BY <1>6 DEF FreezeSources, Unleased, TypeOK, RequestOK, RequestRow, AnswersKept
  <2>2. UNCHANGED <<posted, sent>>
    BY <1>6 DEF FreezeSources
  <2> QED  BY <2>1, <2>2, Stutters
<1>7. ASSUME NEW w \in Workers, NEW r \in BOOLEAN, FailRequest(w, r) PROVE [Promise!Next]_(Promise!vars)
  <2> DEFINE R == {t \in Targets : target[t].state = "PENDING"}
  <2>1. request.state # "NONE"
    BY <1>7 DEF FailRequest, Resolves, Matches, StateInv, NothingBeforeRequest
  <2>2. request'.state # "NONE" /\ UNCHANGED <<posted, sent>>
    BY <1>7 DEF FailRequest, Unleased, TypeOK, RequestOK, RequestRow
  <2>3. \A t \in Targets : Failed(target[t], r).state = "FAILED" /\ Failed(target[t], r).retryable = r
    BY FailedRow DEF TypeOK, TargetsOK
  <2>4. /\ \A t \in R : /\ target[t].state \in Open
                       /\ target'[t].state = "FAILED" /\ target'[t].retryable = r
        /\ \A t \in Targets \ R : target'[t] = target[t]
        /\ R \in SUBSET Targets
    BY <1>7, <2>3 DEF FailRequest, Open
  <2> HIDE DEF R
  <2> QED  BY <2>1, <2>2, <2>4, Refuses
<1>8. ASSUME NEW w \in Workers, NEW t \in Targets, ClaimTarget(w, t) PROVE [Promise!Next]_(Promise!vars)
  <2>1. AnswersKept
    BY <1>8, CopyingRow DEF ClaimTarget, SetTarget, TypeOK, TargetsOK, Open, AnswersKept
  <2>2. UNCHANGED <<posted, sent>>
    BY <1>8 DEF ClaimTarget
  <2> QED  BY <2>1, <2>2, Stutters
<1>9. ASSUME NEW w \in Workers, NEW t \in Targets, Reserve(w, t) PROVE [Promise!Next]_(Promise!vars)
  <2>1. AnswersKept
    BY <1>9, StateRow DEF Reserve, Checkpoint, Works, SetTarget, TypeOK, TargetsOK, Open, LeaseInv, TicketsCurrent, AnswersKept
  <2>2. UNCHANGED <<posted, sent>>
    BY <1>9 DEF Reserve, Checkpoint
  <2> QED  BY <2>1, <2>2, Stutters
<1>10. ASSUME NEW w \in Workers, NEW t \in Targets, Verify(w, t) PROVE [Promise!Next]_(Promise!vars)
  <2>1. AnswersKept
    BY <1>10, StateRow DEF Verify, Checkpoint, Works, SetTarget, TypeOK, TargetsOK, Open, LeaseInv, TicketsCurrent, AnswersKept
  <2>2. UNCHANGED <<posted, sent>>
    BY <1>10 DEF Verify, Checkpoint
  <2> QED  BY <2>1, <2>2, Stutters
<1>11. ASSUME NEW w \in Workers, NEW t \in Targets, MarkReady(w, t) PROVE [Promise!Next]_(Promise!vars)
  <2>1. AnswersKept
    BY <1>11, StateRow DEF MarkReady, Checkpoint, Works, SetTarget, TypeOK, TargetsOK, Open, LeaseInv, TicketsCurrent, AnswersKept
  <2>2. UNCHANGED <<posted, sent>>
    BY <1>11 DEF MarkReady, Checkpoint
  <2> QED  BY <2>1, <2>2, Stutters
<1>12. ASSUME NEW w \in Workers, NEW t \in Targets, Commit(w, t) PROVE [Promise!Next]_(Promise!vars)
  <2>1. request.state = "RUNNING" /\ target[t].state \in Open /\ Posted(t)
    BY <1>12 DEF Commit, Committable, Open
  <2>2. request'.state # "NONE"
    BY <1>12, RecomputeTyped, SummaryTyped DEF Commit, TypeOK
  <2> QED  BY <2>1, <2>2, Posts
<1>13. ASSUME NEW w \in Workers, NEW t \in Targets, CommitDenied(w, t) PROVE [Promise!Next]_(Promise!vars)
  <2>1. AnswersKept
    BY <1>13 DEF CommitDenied, AnswersKept
  <2>2. UNCHANGED <<posted, sent>>
    BY <1>13 DEF CommitDenied
  <2> QED  BY <2>1, <2>2, Stutters
<1>14. ASSUME NEW w \in Workers, NEW t \in Targets, NEW r \in BOOLEAN, FailTarget(w, t, r) PROVE [Promise!Next]_(Promise!vars)
  <2>1. request.state # "NONE" /\ target[t].state \in Open
    BY <1>14 DEF FailTarget, Works, LeaseInv, TicketsCurrent, StateInv, NothingBeforeRequest, Open
  <2>2. request'.state # "NONE"
    BY <1>14, RecomputeTyped, SummaryTyped DEF FailTarget, TypeOK
  <2>3. /\ target'[t].state = "FAILED" /\ target'[t].retryable = r
        /\ \A u \in Targets \ {t} : target'[u] = target[u]
    BY <1>14, FailTargetEffect
  <2>4. /\ \A u \in {t} : /\ target[u].state \in Open
                          /\ target'[u].state = "FAILED" /\ target'[u].retryable = r
        /\ {t} \in SUBSET Targets /\ UNCHANGED <<posted, sent>>
    BY <1>14, <2>1, <2>3 DEF FailTarget
  <2> QED  BY <2>1, <2>2, <2>3, <2>4, Refuses
<1>15. ASSUME NEW w \in Workers, NEW t \in Targets, ClaimDelivery(w, t) PROVE [Promise!Next]_(Promise!vars)
  <2>1. AnswersKept
    BY <1>15, ClaimedRow DEF ClaimDelivery, SetTarget, TypeOK, TargetsOK, AnswersKept
  <2>2. UNCHANGED <<posted, sent>>
    BY <1>15 DEF ClaimDelivery
  <2> QED  BY <2>1, <2>2, Stutters
<1>16. ASSUME NEW w \in Workers, NEW t \in Targets, NEW m \in Messages, ReadDelivery(w, t, m) PROVE [Promise!Next]_(Promise!vars)
  <2>1. AnswersKept
    BY <1>16 DEF ReadDelivery, AnswersKept
  <2>2. UNCHANGED <<posted, sent>>
    BY <1>16 DEF ReadDelivery
  <2> QED  BY <2>1, <2>2, Stutters
<1>17. ASSUME NEW w \in Workers, Publish(w) PROVE [Promise!Next]_(Promise!vars)
  <2> DEFINE t == ticket[w].of
             m == ticket[w].msg
  <2>1. t \in Targets /\ m \in Messages /\ target[t].state = "SUCCEEDED"
    BY <1>17 DEF Publish, TypeOK, TicketsOK, PostInv, AnnouncingPosted
  <2>2. request.state # "NONE"
    BY <2>1 DEF StateInv, NothingBeforeRequest
  <2>3. outcome[t] = "posted" /\ outcome' = outcome /\ barred' = barred
    BY <1>17, <2>1, <2>2 DEF outcome, barred, Publish
  <2>4. sent' = [sent EXCEPT ![t] = @ \cup {m}] /\ posted' = posted
    BY <1>17 DEF Publish
  <2> HIDE DEF t, m
  <2>5. Promise!Announce(t, m)
    BY <2>3, <2>4 DEF Promise!Announce
  <2> QED  BY <2>1, <2>5 DEF Promise!Next
<1>18. ASSUME NEW w \in Workers, NEW t \in Targets, MarkDelivered(w, t) PROVE [Promise!Next]_(Promise!vars)
  <2>1. AnswersKept
    BY <1>18, DeliveredRow DEF MarkDelivered, SetTarget, TypeOK, TargetsOK, AnswersKept
  <2>2. UNCHANGED <<posted, sent>>
    BY <1>18 DEF MarkDelivered
  <2> QED  BY <2>1, <2>2, Stutters
<1>19. ASSUME NEW w \in Workers, Rejected(w) PROVE [Promise!Next]_(Promise!vars)
  <2>1. AnswersKept
    BY <1>19 DEF Rejected, AnswersKept
  <2>2. UNCHANGED <<posted, sent>>
    BY <1>19 DEF Rejected
  <2> QED  BY <2>1, <2>2, Stutters
<1>20. ASSUME NEW w \in Workers, Crash(w) PROVE [Promise!Next]_(Promise!vars)
  <2>1. AnswersKept
    BY <1>20 DEF Crash, AnswersKept
  <2>2. UNCHANGED <<posted, sent>>
    BY <1>20 DEF Crash
  <2> QED  BY <2>1, <2>2, Stutters
<1>21. ASSUME ExpireRequest PROVE [Promise!Next]_(Promise!vars)
  <2>1. AnswersKept
    BY <1>21 DEF ExpireRequest, Expired, TypeOK, RequestOK, RequestRow, AnswersKept
  <2>2. UNCHANGED <<posted, sent>>
    BY <1>21 DEF ExpireRequest
  <2> QED  BY <2>1, <2>2, Stutters
<1>22. ASSUME NEW t \in Targets, ExpireTarget(t) PROVE [Promise!Next]_(Promise!vars)
  <2>1. AnswersKept
    BY <1>22, ExpiredRow DEF ExpireTarget, SetTarget, TypeOK, TargetsOK, AnswersKept
  <2>2. UNCHANGED <<posted, sent>>
    BY <1>22 DEF ExpireTarget
  <2> QED  BY <2>1, <2>2, Stutters
<1>23. ASSUME NEW x \in Revocable, Revoke(x) PROVE [Promise!Next]_(Promise!vars)
  <2>1. AnswersKept
    BY <1>23 DEF Revoke, AnswersKept
  <2>2. UNCHANGED <<posted, sent>>
    BY <1>23 DEF Revoke
  <2> QED  BY <2>1, <2>2, Stutters
<1>24. ASSUME NEW G \in SUBSET Targets, Retry(G) PROVE [Promise!Next]_(Promise!vars)
  <2> DEFINE R == {t \in Retryable(G) : target[t].state = "FAILED"}
  <2>1. request.state # "NONE" /\ request'.state # "NONE"
    BY <1>24, RecomputeTyped, SummaryTyped DEF Retry, TypeOK
  <2>2. Retryable(G) \subseteq Targets /\ R \in SUBSET Targets
    BY DEF Retryable
  <2>3. \A t \in Targets : /\ Requeued(target[t]).state \notin {"FAILED", "SUCCEEDED"}
    BY RequeuedRow DEF TypeOK, TargetsOK
  <2>4. \A t \in R : target[t].state = "FAILED" /\ target[t].retryable
    BY DEF Retryable, Open
  <2>5. /\ \A t \in R : target'[t].state \notin {"FAILED", "SUCCEEDED"}
        /\ \A t \in Targets \ R :
              \/ target'[t] = target[t]
              \/ /\ target'[t].state \notin {"FAILED", "SUCCEEDED"}
                 /\ target[t].state \notin {"FAILED", "SUCCEEDED"}
    BY <1>24, <2>2, <2>3 DEF Retry, Retryable, Open
  <2> HIDE DEF R
  <2>6. \A t \in R : outcome[t] = "refused" /\ t \notin barred
    BY <2>1, <2>2, <2>4 DEF outcome, barred
  <2>7. outcome' = [t \in Targets |-> IF t \in R THEN "waiting" ELSE outcome[t]]
    BY <2>1, <2>2, <2>5 DEF outcome
  <2>8. barred' = barred
    BY <2>1, <2>2, <2>4, <2>5 DEF barred
  <2>9. Promise!Reopen(R)
    BY <1>24, <2>6, <2>7, <2>8 DEF Promise!Reopen, Retry
  <2> QED  BY <2>2, <2>9 DEF Promise!Next
<1>25. ASSUME UNCHANGED vars PROVE [Promise!Next]_(Promise!vars)
  BY <1>25, Stutters DEF vars, AnswersKept
<1> QED
  BY <1>1, <1>2, <1>3, <1>4, <1>5, <1>6, <1>7, <1>8, <1>9, <1>10, <1>11, <1>12, <1>13, <1>14, <1>15, <1>16, <1>17, <1>18, <1>19, <1>20, <1>21, <1>22, <1>23, <1>24, <1>25
  DEF Next, WorkerStep, Resolve, Copy, Deliver, Expire

LEMMA PromiseInit == Init => Promise!Init
<1> SUFFICES ASSUME Init PROVE Promise!Init
  OBVIOUS
<1>1. outcome = [t \in Targets |-> "none"] /\ barred = {}
  BY DEF Init, NoRequest, outcome, barred
<1> QED  BY <1>1 DEF Init, Promise!Init

\* The forward keeps its promise: a target's messages enter its history once or
\* not at all, never after the target was refused for good, and are announced
\* only when they are there, whatever workers crash, leases lapse or retries
\* race.
THEOREM PromiseKept == Spec => KeepsPromise
<1>1. ForwardInv /\ ForwardInv' /\ PostInv /\ [Next]_vars => [Promise!Next]_(Promise!vars)
  BY PromiseStep
<1> QED  BY PostInvariant, PromiseInit, <1>1, PTL DEF Spec, KeepsPromise, Promise!Spec
===========================================================================

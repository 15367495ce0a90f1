-------------------------- MODULE ForwardPromise --------------------------
(***************************************************************************)
(* What a group forward promises the user who asked for it, target group   *)
(* by target group: the forwarded messages enter the group's history once  *)
(* or not at all, a group that was refused for good is never posted to,    *)
(* and a message is announced to the group's members only after it is in   *)
(* the history.                                                            *)
(***************************************************************************)
EXTENDS Naturals

CONSTANTS Targets, Messages

VARIABLES
    outcome,    \* per target: not asked yet, waiting, posted or refused
    copies,     \* how many times the messages entered the target's history
    barred,     \* the targets refused for good
    announced   \* the messages announced to the members of each target

vars == <<outcome, copies, barred, announced>>

Init ==
    /\ outcome = [t \in Targets |-> "none"]
    /\ copies = [t \in Targets |-> 0]
    /\ barred = {}
    /\ announced = [t \in Targets |-> {}]

\* The request is accepted; the groups in S are refused at once.
Accept(S) ==
    /\ \A t \in Targets : outcome[t] = "none"
    /\ outcome' = [t \in Targets |-> IF t \in S THEN "refused" ELSE "waiting"]
    /\ barred' = S
    /\ UNCHANGED <<copies, announced>>

Post(t) ==
    /\ outcome[t] = "waiting"
    /\ outcome' = [outcome EXCEPT ![t] = "posted"]
    /\ copies' = [copies EXCEPT ![t] = 1]
    /\ UNCHANGED <<barred, announced>>

\* Some waiting groups are refused; those in B for good.
Refuse(S, B) ==
    /\ \A t \in S : outcome[t] = "waiting"
    /\ B \subseteq S
    /\ outcome' = [t \in Targets |-> IF t \in S THEN "refused" ELSE outcome[t]]
    /\ barred' = barred \cup B
    /\ UNCHANGED <<copies, announced>>

Reopen(S) ==
    /\ \A t \in S : outcome[t] = "refused" /\ t \notin barred
    /\ outcome' = [t \in Targets |-> IF t \in S THEN "waiting" ELSE outcome[t]]
    /\ UNCHANGED <<copies, barred, announced>>

Announce(t, m) ==
    /\ outcome[t] = "posted"
    /\ announced' = [announced EXCEPT ![t] = @ \cup {m}]
    /\ UNCHANGED <<outcome, copies, barred>>

Next ==
    \/ \E S \in SUBSET Targets : Accept(S) \/ Reopen(S)
    \/ \E S, B \in SUBSET Targets : Refuse(S, B)
    \/ \E t \in Targets : Post(t) \/ \E m \in Messages : Announce(t, m)

Spec == Init /\ [][Next]_vars
===========================================================================

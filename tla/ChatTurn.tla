------------------------------ MODULE ChatTurn ------------------------------
(***************************************************************************)
(* What the session-stream subsystem promises of one chat turn, whoever    *)
(* reads its stream: after the worker has ended the turn, the answer       *)
(* message is saved, the persistence observers run, and only then is the   *)
(* terminal record acknowledged. Nothing of it is ever taken back.         *)
(***************************************************************************)
VARIABLES
    ended,      \* the worker appended the terminal record
    saved,      \* the answer message is in the database
    notified,   \* every persistence observer has run
    acked       \* the terminal record is acknowledged

tvars == <<ended, saved, notified, acked>>

Init == ended = FALSE /\ saved = FALSE /\ notified = FALSE /\ acked = FALSE

End == ~ended /\ ended' = TRUE /\ UNCHANGED <<saved, notified, acked>>
Save == ended /\ ~saved /\ saved' = TRUE /\ UNCHANGED <<ended, notified, acked>>
Notify == saved /\ ~notified /\ notified' = TRUE /\ UNCHANGED <<ended, saved, acked>>
Acknowledge == notified /\ ~acked /\ acked' = TRUE /\ UNCHANGED <<ended, saved, notified>>

Next == End \/ Save \/ Notify \/ Acknowledge

TurnSafe == Init /\ [][Next]_tvars

\* The turn goes on once the worker has ended it; nothing obliges the worker to.
Turn == TurnSafe /\ WF_tvars(Save) /\ WF_tvars(Notify) /\ WF_tvars(Acknowledge)
=============================================================================

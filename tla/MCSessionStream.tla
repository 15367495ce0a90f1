-------------------------- MODULE MCSessionStream --------------------------
(* Model-checking instances of SessionStream. *)
EXTENDS SessionStream, TLC

\* Instances are interchangeable: Init lets any of them own the listener.
Symmetry == Permutations(Inst)

\* A bound of turn_stall: a listener is lost to a pause beyond both keys or to a
\* renewal that throws, not to one after the other.
OneListenerLost == faults["stall"] > 0 \/ faults["renew"] = MaxRenewFaults
=============================================================================

--------------------------- MODULE MCSessionStop ---------------------------
(* Model-checking instances of SessionStop. *)
EXTENDS SessionStop, TLC

\* Instances are interchangeable here too.
Symmetry == Permutations(Inst)
=============================================================================

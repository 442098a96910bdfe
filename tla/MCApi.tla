------------------------------- MODULE MCApi -------------------------------
(* The engine and its answers on small instances, with the invariant of    *)
(* the proofs.  No definition distinguishes one task from another.         *)
EXTENDS Api, EngineInvariant

Symmetry == Permutations(Tasks)
=============================================================================

----------------------------- MODULE MCMetrics -----------------------------
(* The metrics on small instances.  No definition distinguishes one task   *)
(* from another.                                                           *)
EXTENDS Metrics

Symmetry == Permutations(Tasks)
=============================================================================

------------------------------ MODULE MCEngine ------------------------------
(* The matching engine on small instances.  No definition distinguishes    *)
(* one task from another, nor one symbol from another.                     *)
EXTENDS EngineInvariant

Symmetry == Permutations(Tasks) \cup Permutations(Symbols)
=============================================================================

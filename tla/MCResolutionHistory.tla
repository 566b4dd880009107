------------------------ MODULE MCResolutionHistory ------------------------
(* A small instance: a texture set and one copy of it.  History objects,   *)
(* sets and sizes are interchangeable.                                     *)
EXTENDS ResolutionHistory

Symmetry == Permutations(History) \cup Permutations(Set) \cup Permutations(Size)
=============================================================================

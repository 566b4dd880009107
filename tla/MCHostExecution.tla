--------------------------- MODULE MCHostExecution ---------------------------
(* Small instances of HostExecution for TLC. *)
EXTENDS HostExecution, TLC

VersionSymmetry == Permutations(Id) \cup Permutations(Generation)
=============================================================================

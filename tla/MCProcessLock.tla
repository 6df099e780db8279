--------------------------- MODULE MCProcessLock ---------------------------
(* Instances of ProcessLock for TLC.                                       *)
EXTENDS ProcessLock, TLC

Symmetry == Permutations(Procs) \cup Permutations(Pids)
=============================================================================

--------------------------- MODULE MCLedgerStore ---------------------------
(* Instances of LedgerStore for TLC.                                       *)
EXTENDS LedgerStore, TLC

Symmetry == Permutations(Commands \ Unlocked) \cup Permutations(Unlocked)
=============================================================================

------------------------------- MODULE Mutex -------------------------------
(***************************************************************************)
(* What a lock of the plug-in promises to the commands that take it: at    *)
(* most one command is inside `with ledger_lock(...)` at a time, and the   *)
(* lock is free again once that command has left, or has died.             *)
(***************************************************************************)
CONSTANTS
    Procs,      \* the commands that may take the lock
    None        \* nobody

VARIABLE
    holder      \* the command inside the critical section, or None

Init == holder = None

Acquire(p) ==
    /\ holder = None
    /\ holder' = p

\* Leaving the critical section, by returning, raising or dying.
Release(p) ==
    /\ holder = p
    /\ holder' = None

Next == \E p \in Procs : Acquire(p) \/ Release(p)

Spec == Init /\ [][Next]_holder
=============================================================================

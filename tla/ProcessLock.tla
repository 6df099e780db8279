---------------------------- MODULE ProcessLock ----------------------------
(***************************************************************************)
(* scripts/process_lock.py: the lock under ledger_lock and                 *)
(* continuity_lock.  A command takes a non-blocking flock on the advisory  *)
(* inode, looks at the marker file left beside it, recovers a marker whose *)
(* process is gone, and writes a marker of its own.                        *)
(*                                                                         *)
(* One element of Procs is a command that is run over and over: every life *)
(* of it has a process id of its own and one attempt to lock.  Markers are *)
(* created and removed by these commands only; an older installation at    *)
(* work on the same data root is not modelled.                             *)
(***************************************************************************)
EXTENDS Naturals, FiniteSets

CONSTANTS
    Procs,      \* commands that use process_lock
    Pids,       \* process ids of the host
    Partial,    \* content of a marker that was created and not yet written
    None,       \* no process, no pid, no file
    MaxCrashes  \* bound on the number of kills in a behaviour

ASSUME NoneIsNothing == None \notin Procs \cup Pids
ASSUME PartialIsNoPid == Partial \notin Pids
ASSUME CrashBound == MaxCrashes \in Nat

VARIABLES
    pc,         \* where each command is in process_lock
    pid,        \* the process id of each running command, None when it is off
    seen,       \* the pid a command has read from the marker
    flock,      \* the command holding LOCK_EX on the advisory inode
    inode,      \* the command that created the marker now in place, or None
    content,    \* what that marker contains: Partial or a pid
    aliens,     \* pids in use by processes that have nothing to do with us
    crashes     \* kills so far

vars == <<pc, pid, seen, flock, inode, content, aliens, crashes>>

States == {"off", "start", "locked", "reading", "probing", "unlinking",
           "creating", "writing", "critical", "unlocking"}

TypeOK ==
    /\ pc \in [Procs -> States]
    /\ pid \in [Procs -> Pids \cup {None}]
    /\ seen \in [Procs -> Pids \cup {None}]
    /\ flock \in Procs \cup {None}
    /\ inode \in Procs \cup {None}
    /\ content \in Pids \cup {Partial}
    /\ aliens \subseteq Pids
    /\ crashes \in 0 .. MaxCrashes

Init ==
    /\ pc = [p \in Procs |-> "off"]
    /\ pid = [p \in Procs |-> None]
    /\ seen = [p \in Procs |-> None]
    /\ flock = None
    /\ inode = None
    /\ content = Partial
    /\ aliens = {}
    /\ crashes = 0

-----------------------------------------------------------------------------
\* os.kill(pid, 0) succeeds, or is refused for another user's process.
Live(d) == d \in aliens \/ \E p \in Procs : pid[p] = d

Goto(p, s) == pc' = [pc EXCEPT ![p] = s]

\* The process ends: its pid is free again, and the kernel drops its flock.
Ends(p) ==
    /\ pc' = [pc EXCEPT ![p] = "off"]
    /\ pid' = [pid EXCEPT ![p] = None]
    /\ seen' = [seen EXCEPT ![p] = None]
    /\ flock' = IF flock = p THEN None ELSE flock

Start(p) ==
    /\ pc[p] = "off"
    /\ \E d \in Pids :
          /\ ~Live(d)
          /\ pid' = [pid EXCEPT ![p] = d]
    /\ Goto(p, "start")
    /\ UNCHANGED <<seen, flock, inode, content, aliens, crashes>>

\* Mutated form: the flock is not taken exclusively.
SharedTryFlock(p) ==
    /\ pc[p] = "start"
    /\ flock' = p
    /\ Goto(p, "locked")
    /\ UNCHANGED <<pid, seen, inode, content, aliens, crashes>>

\* flock(LOCK_EX | LOCK_NB): taken at once, or the command is refused.
TryFlock(p) ==
    /\ pc[p] = "start"
    /\ \/ /\ flock = None
          /\ flock' = p
          /\ Goto(p, "locked")
          /\ UNCHANGED <<pid, seen>>
       \/ /\ flock # None
          /\ Ends(p)
    /\ UNCHANGED <<inode, content, aliens, crashes>>

\* if path.exists()
LookForMarker(p) ==
    /\ pc[p] = "locked"
    /\ Goto(p, IF inode = None THEN "creating" ELSE "reading")
    /\ UNCHANGED <<pid, seen, flock, inode, content, aliens, crashes>>

\* The marker is read; one that is gone again or holds no pid is an error.
ReadMarker(p) ==
    /\ pc[p] = "reading"
    /\ \/ /\ inode # None /\ content \in Pids
          /\ seen' = [seen EXCEPT ![p] = content]
          /\ Goto(p, "probing")
          /\ UNCHANGED <<pid, flock>>
       \/ /\ inode = None \/ content = Partial
          /\ Ends(p)
    /\ UNCHANGED <<inode, content, aliens, crashes>>

\* Mutated form: a proven dead owner is refused like a live one.
TimidProbe(p) ==
    /\ pc[p] = "probing"
    /\ Ends(p)
    /\ UNCHANGED <<inode, content, aliens, crashes>>

\* Mutated form: a refusal of os.kill, which is what the process of another
\* user answers, is taken for its death.
BoldProbe(p) ==
    /\ pc[p] = "probing"
    /\ \/ /\ \A q \in Procs : pid[q] # seen[p]
          /\ Goto(p, "unlinking")
          /\ UNCHANGED <<pid, seen, flock>>
       \/ /\ \E q \in Procs : pid[q] = seen[p]
          /\ Ends(p)
    /\ UNCHANGED <<inode, content, aliens, crashes>>

\* os.kill(pid, 0): only ProcessLookupError goes on, all else is refused.
ProbeOwner(p) ==
    /\ pc[p] = "probing"
    /\ \/ /\ ~Live(seen[p])
          /\ Goto(p, "unlinking")
          /\ UNCHANGED <<pid, seen, flock>>
       \/ /\ Live(seen[p])
          /\ Ends(p)
    /\ UNCHANGED <<inode, content, aliens, crashes>>

\* path.unlink(): whatever marker is there now; a missing one is an error.
UnlinkStale(p) ==
    /\ pc[p] = "unlinking"
    /\ \/ /\ inode # None
          /\ inode' = None
          /\ content' = Partial
          /\ Goto(p, "creating")
          /\ UNCHANGED <<pid, seen, flock>>
       \/ /\ inode = None
          /\ Ends(p)
          /\ UNCHANGED <<inode, content>>
    /\ UNCHANGED <<aliens, crashes>>

\* write_marker, first half: open("x").
CreateMarker(p) ==
    /\ pc[p] = "creating"
    /\ \/ /\ inode = None
          /\ inode' = p
          /\ content' = Partial
          /\ Goto(p, "writing")
          /\ UNCHANGED <<pid, seen, flock>>
       \/ /\ inode # None
          /\ Ends(p)
          /\ UNCHANGED <<inode, content>>
    /\ UNCHANGED <<aliens, crashes>>

\* Mutated form: what goes into the file is not the pid of this process.
NamelessMarker(p) ==
    /\ pc[p] = "writing"
    /\ content' = IF inode = p THEN seen[p] ELSE content
    /\ Goto(p, "critical")
    /\ UNCHANGED <<pid, seen, flock, inode, aliens, crashes>>

\* write_marker, second half: the pid goes into the file this command opened,
\* which is the marker in place unless somebody has unlinked it since.
WriteMarker(p) ==
    /\ pc[p] = "writing"
    /\ content' = IF inode = p THEN pid[p] ELSE content
    /\ Goto(p, "critical")
    /\ UNCHANGED <<pid, seen, flock, inode, aliens, crashes>>

\* The write raises (a full disk): nothing unlinks the half-made marker.
WriteMarkerFails(p) ==
    /\ pc[p] = "writing"
    /\ Ends(p)
    /\ UNCHANGED <<inode, content, aliens, crashes>>

\* The body of the with statement is over, or raised: unlink(missing_ok).
Leave(p) ==
    /\ pc[p] = "critical"
    /\ inode' = None
    /\ content' = Partial
    /\ Goto(p, "unlocking")
    /\ UNCHANGED <<pid, seen, flock, aliens, crashes>>

\* flock(LOCK_UN) and the end of the command.
Unlock(p) ==
    /\ pc[p] = "unlocking"
    /\ Ends(p)
    /\ UNCHANGED <<inode, content, aliens, crashes>>

-----------------------------------------------------------------------------
\* The process is killed.
Crash(p) ==
    /\ pc[p] # "off"
    /\ crashes < MaxCrashes
    /\ crashes' = crashes + 1
    /\ Ends(p)
    /\ UNCHANGED <<inode, content, aliens>>

\* Unrelated processes come and go, and may reuse the pid of a dead owner.
AlienStarts(d) ==
    /\ ~Live(d)
    /\ aliens' = aliens \cup {d}
    /\ UNCHANGED <<pc, pid, seen, flock, inode, content, crashes>>

AlienEnds(d) ==
    /\ d \in aliens
    /\ aliens' = aliens \ {d}
    /\ UNCHANGED <<pc, pid, seen, flock, inode, content, crashes>>

Step(p) ==
    \/ Start(p) \/ TryFlock(p) \/ LookForMarker(p) \/ ReadMarker(p) \/ ProbeOwner(p)
    \/ UnlinkStale(p) \/ CreateMarker(p) \/ WriteMarker(p) \/ Leave(p) \/ Unlock(p)

Next ==
    \/ \E p \in Procs : Step(p) \/ WriteMarkerFails(p) \/ Crash(p)
    \/ \E d \in Pids : AlienStarts(d) \/ AlienEnds(d)

Spec == Init /\ [][Next]_vars

\* A command that runs goes on to its next statement, and a refused command
\* is issued again; nothing is asked of kills or of unrelated processes.
FairSpec == Spec /\ \A p \in Procs : WF_vars(Step(p))

-----------------------------------------------------------------------------
\* The command inside the critical section.
Inside(p) == pc[p] = "critical"

\* At most one command is between the creation of its marker and its removal:
\* what `with ledger_lock` is for.
MutualExclusion ==
    \A p, q \in Procs : Inside(p) /\ Inside(q) => p = q

\* A command inside the critical section is named by the marker in place, so
\* that whoever looks at the marker only stays out too.
InsideIsMarked ==
    \A p \in Procs : Inside(p) => inode = p /\ content = pid[p]

\* process_lock.py:26, "Only a proven dead owner can have its transient marker
\* recovered": when a command decides to unlink, the marker then in place, and
\* not only the one it read, names a process that is gone; and until it unlinks
\* nobody puts another marker there, not even if the pid is taken again.
OnlyProvenDeadRecovered ==
    [][\A p \in Procs : pc'[p] = "unlinking" =>
          \/ /\ pc[p] = "probing"
             /\ inode # None /\ content \in Pids /\ ~Live(content)
          \/ /\ pc[p] = "unlinking"
             /\ UNCHANGED <<inode, content>>]_vars

\* The marker of a killed command does not bar the lock for ever: it is
\* recovered, unless its pid is in use again.
DeadMarkerRecovered ==
    \A d \in Pids :
        (inode # None /\ content = d /\ ~Live(d))
            ~> (inode = None \/ content # d \/ Live(d))

\* The lock seen from outside.
Holder ==
    IF \E p \in Procs : Inside(p) THEN CHOOSE p \in Procs : Inside(p) ELSE None

AbstractLock == INSTANCE Mutex WITH holder <- Holder

\* process_lock implements the lock of Mutex.
ImplementsMutex == AbstractLock!Spec
=============================================================================

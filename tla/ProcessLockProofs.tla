------------------------- MODULE ProcessLockProofs -------------------------
(***************************************************************************)
(* What ProcessLock promises for any number of commands, pids and kills.   *)
(* The flock alone excludes commands from each other, so the inductive     *)
(* invariant ties the holder of the flock to the states from "locked" to   *)
(* "unlocking", the marker in place to its holder, and what a command has  *)
(* read from the marker to the marker in place.                            *)
(***************************************************************************)
EXTENDS ProcessLock, TLAPS

HoldingStates == States \ {"off", "start"}

FlockTiesHolder ==
    \A p \in Procs : flock = p <=> pc[p] \in HoldingStates

MarkerTiesOwner ==
    \A p \in Procs :
        /\ pc[p] \in {"writing", "critical"} => inode = p
        /\ pc[p] = "critical" => content = pid[p]

SeenIsInPlace ==
    \A p \in Procs :
        pc[p] \in {"probing", "unlinking"} =>
            inode # None /\ content \in Pids /\ seen[p] = content

RunningHasPid ==
    \A p \in Procs : pc[p] = "off" <=> pid[p] = None

TypeInv == TypeOK /\ RunningHasPid

IInv == TypeInv /\ FlockTiesHolder /\ MarkerTiesOwner /\ SeenIsInPlace

USE NoneIsNothing, PartialIsNoPid, CrashBound

-----------------------------------------------------------------------------
\* Every step of every command keeps each variable in its type, and a
\* command has a pid exactly while it runs.
LEMMA TypeStep == TypeInv /\ [Next]_vars => TypeInv'
<1>1. SUFFICES ASSUME TypeInv, [Next]_vars PROVE TypeInv'
  OBVIOUS
<1> USE <1>1 DEF TypeInv, TypeOK, RunningHasPid, States
<1>2. CASE UNCHANGED vars
  BY <1>2 DEF vars
<1>3. ASSUME NEW p \in Procs, Step(p) \/ WriteMarkerFails(p) \/ Crash(p)
      PROVE  TypeInv'
  <2>1. CASE TryFlock(p) \/ LookForMarker(p) \/ ReadMarker(p) \/ ProbeOwner(p) \/ UnlinkStale(p)
    <3>1. CASE TryFlock(p)
      BY <2>1, <3>1 DEF TryFlock, Goto, Ends
    <3>2. CASE LookForMarker(p)
      BY <3>2 DEF LookForMarker, Goto
    <3>3. CASE ReadMarker(p)
      BY <3>3 DEF ReadMarker, Goto, Ends
    <3>4. CASE ProbeOwner(p)
      BY <3>4 DEF ProbeOwner, Goto, Ends
    <3>5. CASE UnlinkStale(p)
      BY <3>5 DEF UnlinkStale, Goto, Ends
    <3> QED
      BY <2>1, <3>1, <3>2, <3>3, <3>4, <3>5
  <2>2. CASE Start(p)
    BY <2>2 DEF Start, Goto
  <2>3. CASE CreateMarker(p)
    BY <2>3 DEF CreateMarker, Goto, Ends
  <2>4. CASE WriteMarker(p)
    <3>1. content' \in Pids \cup {Partial}
      BY <2>4 DEF WriteMarker
    <3> QED
      BY <2>4, <3>1 DEF WriteMarker, Goto
  <2>5. CASE Leave(p)
    BY <2>5 DEF Leave, Goto
  <2>6. CASE Unlock(p)
    BY <2>6 DEF Unlock, Ends
  <2>7. CASE WriteMarkerFails(p)
    BY <2>7 DEF WriteMarkerFails, Ends
  <2>8. CASE Crash(p)
    BY <2>8 DEF Crash, Ends
  <2> QED
    BY <1>3, <2>1, <2>2, <2>3, <2>4, <2>5, <2>6, <2>7, <2>8 DEF Step
<1>4. ASSUME NEW d \in Pids, AlienStarts(d) \/ AlienEnds(d)
      PROVE  TypeInv'
  BY <1>4 DEF AlienStarts, AlienEnds
<1> QED
  BY <1>2, <1>3, <1>4 DEF Next

LEMMA TypeInit == Init => TypeInv
BY DEF Init, TypeInv, TypeOK, RunningHasPid, States

\* The variables of process_lock keep their types for any number of commands,
\* pids and kills.
THEOREM TypeCorrect == Spec => []TypeOK
<1>1. TypeInv => TypeOK
  BY DEF TypeInv
<1> QED
  BY TypeInit, TypeStep, <1>1, PTL DEF Spec

-----------------------------------------------------------------------------
LEMMA IndInit == Init => IInv
BY TypeInit DEF Init, IInv, FlockTiesHolder, MarkerTiesOwner, SeenIsInPlace,
   HoldingStates, States

\* Only the holder of the flock touches the marker.
LEMMA IndStep == IInv /\ [Next]_vars => IInv'
<1>1. SUFFICES ASSUME IInv, [Next]_vars PROVE (FlockTiesHolder /\ MarkerTiesOwner /\ SeenIsInPlace)'
  BY TypeStep DEF IInv
<1>2. TypeInv'
  BY <1>1, TypeStep DEF IInv
<1> USE <1>1, <1>2
    DEF IInv, TypeInv, TypeOK, FlockTiesHolder, MarkerTiesOwner, SeenIsInPlace,
        HoldingStates, States
<1>3. CASE UNCHANGED vars
  BY <1>3 DEF vars
<1>4. ASSUME NEW p \in Procs, Step(p) \/ WriteMarkerFails(p) \/ Crash(p)
      PROVE  (FlockTiesHolder /\ MarkerTiesOwner /\ SeenIsInPlace)'
  <2>1. CASE TryFlock(p)
    BY <2>1 DEF TryFlock, Goto, Ends
  <2>2. CASE LookForMarker(p)
    BY <2>2 DEF LookForMarker, Goto
  <2>3. CASE ReadMarker(p)
    BY <2>3 DEF ReadMarker, Goto, Ends
  <2>4. CASE ProbeOwner(p)
    BY <2>4 DEF ProbeOwner, Goto, Ends
  <2>5. CASE UnlinkStale(p)
    BY <2>5 DEF UnlinkStale, Goto, Ends
  <2>6. CASE Start(p)
    BY <2>6 DEF Start, Goto
  <2>7. CASE CreateMarker(p)
    BY <2>7 DEF CreateMarker, Goto, Ends
  <2>8. CASE WriteMarker(p)
    BY <2>8 DEF WriteMarker, Goto
  <2>9. CASE Leave(p)
    BY <2>9 DEF Leave, Goto
  <2>10. CASE Unlock(p)
    BY <2>10 DEF Unlock, Ends
  <2>11. CASE WriteMarkerFails(p)
    BY <2>11 DEF WriteMarkerFails, Ends
  <2>12. CASE Crash(p)
    BY <2>12 DEF Crash, Ends
  <2> QED
    BY <1>4, <2>1, <2>2, <2>3, <2>4, <2>5, <2>6, <2>7, <2>8, <2>9, <2>10, <2>11,
       <2>12 DEF Step
<1>5. ASSUME NEW d \in Pids, AlienStarts(d) \/ AlienEnds(d)
      PROVE  (FlockTiesHolder /\ MarkerTiesOwner /\ SeenIsInPlace)'
  BY <1>5 DEF AlienStarts, AlienEnds
<1> QED
  BY <1>3, <1>4, <1>5 DEF Next

\* At most one command is inside `with ledger_lock`, however
\* many commands there are and whenever they are killed.
THEOREM MutualExclusionHolds == Spec => []MutualExclusion
<1>1. IInv => MutualExclusion
  BY DEF IInv, TypeInv, TypeOK, FlockTiesHolder, HoldingStates, States,
     MutualExclusion, Inside
<1> QED
  BY IndInit, IndStep, <1>1, PTL DEF Spec

\* The command inside is the one the marker in place names.
THEOREM InsideIsMarkedHolds == Spec => []InsideIsMarked
<1>1. IInv => InsideIsMarked
  BY DEF IInv, MarkerTiesOwner, InsideIsMarked, Inside
<1> QED
  BY IndInit, IndStep, <1>1, PTL DEF Spec

\* A command that comes to "unlinking" has just probed.
LEMMA OnlyProbeDecides ==
    ASSUME TypeOK, [Next]_vars, NEW p \in Procs,
           pc[p] # "unlinking", pc'[p] = "unlinking"
    PROVE  ProbeOwner(p)
<1> USE DEF TypeOK
<1>1. CASE UNCHANGED vars
  BY <1>1 DEF vars
<1>2. ASSUME NEW q \in Procs, Step(q) \/ WriteMarkerFails(q) \/ Crash(q), ~ProbeOwner(q)
      PROVE  pc'[p] # "unlinking"
  BY <1>2 DEF Step, TryFlock, LookForMarker, ReadMarker, UnlinkStale, Start,
     CreateMarker, WriteMarker, Leave, Unlock, WriteMarkerFails, Crash, Goto, Ends
<1>3. ASSUME NEW q \in Procs, ProbeOwner(q)
      PROVE  q = p
  BY <1>3 DEF ProbeOwner, Goto, Ends
<1>4. ASSUME NEW d \in Pids, AlienStarts(d) \/ AlienEnds(d)
      PROVE  pc'[p] # "unlinking"
  BY <1>4 DEF AlienStarts, AlienEnds
<1> QED
  BY <1>1, <1>2, <1>3, <1>4 DEF Next

\* While a command is about to unlink, nobody else touches the marker.
LEMMA UnlinkingKeepsMarker ==
    ASSUME IInv, [Next]_vars, NEW p \in Procs,
           pc[p] = "unlinking", pc'[p] = "unlinking"
    PROVE  UNCHANGED <<inode, content>>
<1>1. \A q \in Procs :
          pc[q] \in {"unlinking", "creating", "writing", "critical"} => q = p
  BY DEF IInv, TypeInv, TypeOK, FlockTiesHolder, HoldingStates, States
<1>2. CASE UNCHANGED vars
  BY <1>2 DEF vars
<1>3. ASSUME NEW q \in Procs, Step(q) \/ WriteMarkerFails(q) \/ Crash(q)
      PROVE  UNCHANGED <<inode, content>>
  <2>1. CASE UnlinkStale(q) \/ CreateMarker(q) \/ WriteMarker(q) \/ Leave(q)
    <3>1. q = p
      BY <1>1, <2>1 DEF UnlinkStale, CreateMarker, WriteMarker, Leave
    <3> QED
      BY <2>1, <3>1 DEF UnlinkStale, CreateMarker, WriteMarker, Leave, Goto,
         Ends, IInv, TypeInv, TypeOK
  <2>2. CASE ~(UnlinkStale(q) \/ CreateMarker(q) \/ WriteMarker(q) \/ Leave(q))
    BY <1>3, <2>2 DEF Step, Start, TryFlock, LookForMarker, ReadMarker,
       ProbeOwner, Unlock, WriteMarkerFails, Crash
  <2> QED
    BY <2>1, <2>2
<1>4. ASSUME NEW d \in Pids, AlienStarts(d) \/ AlienEnds(d)
      PROVE  UNCHANGED <<inode, content>>
  BY <1>4 DEF AlienStarts, AlienEnds
<1> QED
  BY <1>2, <1>3, <1>4 DEF Next

\* process_lock.py:26: a marker is unlinked as stale only if the process it
\* names was gone when that was decided, and it is still the marker in place.
THEOREM OnlyProvenDeadRecoveredHolds == Spec => OnlyProvenDeadRecovered
<1>1. ASSUME IInv, IInv', [Next]_vars, NEW p \in Procs, pc'[p] = "unlinking"
      PROVE  \/ /\ pc[p] = "probing"
                /\ inode # None /\ content \in Pids /\ ~Live(content)
             \/ /\ pc[p] = "unlinking"
                /\ UNCHANGED <<inode, content>>
  <2>1. CASE pc[p] = "unlinking"
    BY <1>1, <2>1, UnlinkingKeepsMarker
  <2>2. CASE pc[p] # "unlinking"
    <3>1. ProbeOwner(p)
      BY <1>1, <2>2, OnlyProbeDecides DEF IInv, TypeInv
    <3>2. pc[p] = "probing" /\ ~Live(seen[p])
      BY <1>1, <3>1 DEF ProbeOwner, Ends, IInv, TypeInv, TypeOK
    <3> QED
      BY <1>1, <3>2 DEF IInv, SeenIsInPlace
  <2> QED
    BY <2>1, <2>2
<1>2. Spec => []IInv
  BY IndInit, IndStep, PTL DEF Spec
<1>3. IInv /\ IInv' /\ [Next]_vars =>
          \A p \in Procs : pc'[p] = "unlinking" =>
              \/ /\ pc[p] = "probing"
                 /\ inode # None /\ content \in Pids /\ ~Live(content)
              \/ /\ pc[p] = "unlinking"
                 /\ UNCHANGED <<inode, content>>
  BY <1>1
<1> QED
  BY <1>2, <1>3, PTL DEF Spec, OnlyProvenDeadRecovered

-----------------------------------------------------------------------------
\* A step moves one command at most.
LEMMA OneMoves ==
    ASSUME TypeOK, [Next]_vars
    PROVE  pc' = pc \/ \E p \in Procs : \A q \in Procs : q # p => pc'[q] = pc[q]
<1>1. CASE UNCHANGED vars
  BY <1>1 DEF vars
<1>2. ASSUME NEW p \in Procs, Step(p) \/ WriteMarkerFails(p) \/ Crash(p)
      PROVE  \A q \in Procs : q # p => pc'[q] = pc[q]
  BY <1>2 DEF TypeOK, Step, TryFlock, LookForMarker,
     ReadMarker, ProbeOwner, UnlinkStale, Start, CreateMarker, WriteMarker, Leave,
     Unlock, WriteMarkerFails, Crash, Goto, Ends
<1>3. ASSUME NEW d \in Pids, AlienStarts(d) \/ AlienEnds(d)
      PROVE  pc' = pc
  BY <1>3 DEF AlienStarts, AlienEnds
<1> QED
  BY <1>1, <1>2, <1>3 DEF Next

\* A step changes the holder only when a command enters or leaves.
LEMMA HolderStep ==
    ASSUME IInv, IInv', [Next]_vars
    PROVE  AbstractLock!Next \/ Holder' = Holder
<1>1. \A p, q \in Procs : Inside(p) /\ Inside(q) => p = q
  BY IInv DEF IInv, TypeInv, TypeOK, FlockTiesHolder, HoldingStates,
     States, Inside
<1>2. \A p, q \in Procs : Inside(p)' /\ Inside(q)' => p = q
  BY IInv' DEF IInv, TypeInv, TypeOK, FlockTiesHolder, HoldingStates,
     States, Inside
<1>3. pc' = pc \/ \E p \in Procs : \A q \in Procs : q # p => pc'[q] = pc[q]
  BY OneMoves DEF IInv, TypeInv
<1>4. ASSUME NEW p \in Procs, Inside(p) PROVE Holder = p
  BY <1>1, <1>4 DEF Holder
<1>5. ASSUME NEW p \in Procs, Inside(p)' PROVE Holder' = p
  BY <1>2, <1>5 DEF Holder
<1>6. CASE \E p \in Procs : Inside(p) /\ Inside(p)'
  BY <1>4, <1>5, <1>6
<1>7. ASSUME NEW p \in Procs, Inside(p), ~Inside(p)'
      PROVE  AbstractLock!Next
  <2>1. \A q \in Procs : ~Inside(q)'
    BY <1>1, <1>3, <1>7 DEF Inside
  <2>2. Holder = p /\ Holder' = None
    BY <1>4, <1>7, <2>1 DEF Holder
  <2> QED
    BY <2>2 DEF AbstractLock!Next, AbstractLock!Release
<1>8. CASE \A p \in Procs : ~Inside(p)
  <2>1. Holder = None
    BY <1>8 DEF Holder
  <2>2. CASE \A p \in Procs : ~Inside(p)'
    BY <2>1, <2>2 DEF Holder
  <2>3. ASSUME NEW p \in Procs, Inside(p)' PROVE AbstractLock!Next
    BY <1>5, <2>1, <2>3 DEF AbstractLock!Next, AbstractLock!Acquire
  <2> QED
    BY <2>2, <2>3
<1> QED
  BY <1>6, <1>7, <1>8

\* process_lock implements the abstract lock: commands enter one at a time, and
\* one that leaves or dies lets the next one in.
THEOREM Implements == Spec => ImplementsMutex
<1>1. Init => AbstractLock!Init
  BY DEF Init, Holder, Inside, AbstractLock!Init
<1>2. IInv /\ IInv' /\ [Next]_vars => [AbstractLock!Next]_Holder
  BY HolderStep
<1>3. Spec => []IInv
  BY IndInit, IndStep, PTL DEF Spec
<1> QED
  BY <1>1, <1>2, <1>3, PTL DEF Spec, ImplementsMutex, AbstractLock!Spec
=============================================================================

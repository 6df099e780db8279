----------------------------- MODULE SafetyProofs -----------------------------
(***************************************************************************)
(* What the components of the composed system rely on while the others go  *)
(* on: invariants and action properties of Governance for any number of    *)
(* tasks, windows, objects and cases, and with any file lost.  Each rests  *)
(* on the types of GovernanceProofs and on one strengthening of its own.   *)
(***************************************************************************)
EXTENDS GovernanceProofs

-----------------------------------------------------------------------------
(* What steps leave alone. *)

LEMMA LedgerFrame ==
    ASSUME LedgerNext
    PROVE  UNCHANGED recovery /\ recovery.state \in ClosedStates
BY DEF LedgerNext, AddTask, TransitionTask, RecordCompletionSignal, RecordCorrection,
   VerifyCorrection, RecordWait, ResolveWait, ReconcileOutline, RegisterWindow, ImportOutline,
   ReviseOutline, RegisterSubAgent, ClaimObject, Commit

LEMMA OccupancyFrame ==
    ASSUME OccupancyNext
    PROVE  /\ recovery.state \in ClosedStates
           /\ UNCHANGED <<directionVars, recovery, validationFiles, recoveryFiles>>
<1>1. ASSUME NEW r, NEW t, NEW requests, NEW choice, NEW kept,
             Reserve(r, t, requests, choice, kept)
      PROVE  /\ recovery.state \in ClosedStates
             /\ UNCHANGED <<directionVars, recovery, validationFiles, recoveryFiles>>
  BY <1>1 DEF Reserve, Commit
<1>2. ASSUME NEW r, NEW t, NEW requests, NEW crossModule, NEW kept,
             Block(r, t, requests, crossModule, kept)
      PROVE  /\ recovery.state \in ClosedStates
             /\ UNCHANGED <<directionVars, recovery, validationFiles, recoveryFiles>>
  BY <1>2 DEF Block, Commit
<1> QED
  BY <1>1, <1>2 DEF OccupancyNext

\* C10 writes the ledger outside a freeze only.
LEMMA DispatchFrame ==
    ASSUME DispatchNext
    PROVE  /\ UNCHANGED <<directionVars, claims, recovery, validationFiles, recoveryFiles>>
           /\ UNCHANGED status \/ recovery.state \in ClosedStates
BY DEF DispatchNext, Prepare, Confirm, PrepareAppend, ConfirmAppend, RecordReturn,
   RecordQualityReview, ledgerVars, occupancyVars, taskVars, files, Commit

\* So does C06, but for the completion signal that supersedes a conflict.
LEMMA ValidationFrame ==
    ASSUME AssessNext \/ SupersedingNext \/ ClosingNext
    PROVE  /\ UNCHANGED <<directionVars, recovery, recoveryFiles>>
           /\ UNCHANGED <<status, claims>> \/ recovery.state \in ClosedStates
<1> DEFINE Goal == /\ UNCHANGED <<directionVars, recovery, recoveryFiles>>
                   /\ UNCHANGED <<status, claims>> \/ recovery.state \in ClosedStates
<1>1. ASSUME NEW v, NEW t, NEW w, NEW outcome, NEW kept, Assess(v, t, w, outcome, kept)
      PROVE  Goal
  BY <1>1 DEF Assess, CommitValidation, Commit
<1>2. ASSUME NEW t, NEW v, NEW s, RecordSupersedingSignal(t, v, s)
      PROVE  Goal
  BY <1>2 DEF RecordSupersedingSignal, files, occupancyVars
<1>3. ASSUME NEW v, NEW kept, Approve(v, kept)
      PROVE  Goal
  BY <1>3 DEF Approve, CommitValidation, Commit
<1>4. ASSUME NEW v, NEW kept, Reject(v, kept)
      PROVE  Goal
  BY <1>4 DEF Reject, CommitValidation, Commit, ledgerVars
<1>5. ASSUME NEW v, RecordAdjudication(v)
      PROVE  Goal
  BY <1>5 DEF RecordAdjudication, Commit, ledgerVars
<1>6. ASSUME NEW t, NEW v, NEW u, ResolveConflict(t, v, u)
      PROVE  Goal
  BY <1>6 DEF ResolveConflict, Commit, files
<1>7. ASSUME NEW t, NEW v, ReleaseDoneTask(t, v)
      PROVE  Goal
  BY <1>7 DEF ReleaseDoneTask, Commit
<1>8. ASSUME NEW t, CancelUnstarted(t)
      PROVE  Goal
  BY <1>8 DEF CancelUnstarted, Commit, files
<1> HIDE DEF Goal
<1>9. Goal
  BY <1>1, <1>2, <1>3, <1>4, <1>5, <1>6, <1>7, <1>8 DEF AssessNext, SupersedingNext, ClosingNext
<1> QED
  BY <1>9 DEF Goal

LEMMA StuttersFrame ==
    ASSUME UNCHANGED vars
    PROVE  UNCHANGED <<status, signals, directionVars, corrections, verifications, waits, impacts,
                       windows, agents, claims, stops, recovery, decisions,
                       finalizations, acceptance, recoveryFiles, incidents, replaced>>
BY DEF vars, ledgerVars, taskVars, directionVars, runtimeVars, occupancyVars, files,
   validationFiles, recoveryFiles

\* Only a freeze opens a case, and it does so under a new epoch.
LEMMA CasesAndEpochs ==
    ASSUME TypeInv, [Next]_vars
    PROVE  \/ UNCHANGED incidents /\ recovery'.epoch = recovery.epoch
           \/ \E c \in Cases, kept \in Keeping, type \in IncidentTypes, t \in Tasks \cup {None},
                 target \in Windows \cup Agents \cup {None} : Freeze(c, type, t, target, kept)
<1> recovery \in RecoveryRecords
  BY DEF TypeInv, TypeOK, LedgerTypeOK
<1>1. CASE RecoveryNext
  <2>1. ASSUME NEW c, NEW epoch, NEW kept, Takeover(c, epoch, kept) \/ Resume(c, epoch, kept)
        PROVE  UNCHANGED incidents /\ recovery'.epoch = recovery.epoch
    BY <2>1 DEF Takeover, Resume, RecoveryRecords
  <2>2. ASSUME NEW c, NEW action, NEW kept, Decide(c, action, kept)
        PROVE  UNCHANGED incidents /\ recovery'.epoch = recovery.epoch
    BY <2>2 DEF Decide, RecoveryRecords
  <2>3. ASSUME NEW c, NEW v, NEW kept, Release(c, v, kept)
        PROVE  UNCHANGED incidents /\ recovery'.epoch = recovery.epoch
    BY <2>3 DEF Release, RecoveryRecords
  <2> QED
    BY <1>1, <2>1, <2>2, <2>3 DEF RecoveryNext
<1>2. CASE RecoveredNext
  BY <1>2 DEF RecoveredNext, RecordRecoveredSignal, files, recoveryFiles, RecoveryRecords
<1>3. CASE UNCHANGED vars
  BY <1>3, StuttersFrame
<1> QED
  BY <1>1, <1>2, <1>3, LedgerFrame, OccupancyFrame, DispatchFrame, ValidationFrame
     DEF Next, files, recoveryFiles

-----------------------------------------------------------------------------
(* Cases and epochs. *)

LEMMA EpochStep ==
    ASSUME TypeInv, EpochsTellCasesApart, [Next]_vars
    PROVE  EpochsTellCasesApart'
<1>1. CASE UNCHANGED incidents /\ recovery'.epoch = recovery.epoch
  BY <1>1 DEF EpochsTellCasesApart
<1>2. ASSUME NEW c \in Cases, NEW kept \in Keeping, NEW type \in IncidentTypes,
             NEW t \in Tasks \cup {None}, NEW target \in Windows \cup Agents \cup {None},
             Freeze(c, type, t, target, kept)
      PROVE  EpochsTellCasesApart'
  <2>1. recovery.epoch \in Nat /\ recovery'.epoch = recovery.epoch + 1
    BY <1>2 DEF Freeze, FrozenBy, TypeInv, TypeOK, LedgerTypeOK, RecoveryRecords
  <2>2. \A d \in Cases : incidents[d] # None => incidents[d].epoch \in Nat
    BY DEF TypeInv, TypeOK, FilesTypeOK, Incidents
  <2>3. \A d \in Cases : \/ incidents'[d] = incidents[d]
                         \/ d = c /\ incidents'[d].epoch = recovery.epoch + 1
    BY <1>2 DEF Freeze, FrozenBy, TypeInv, TypeOK, FilesTypeOK
  <2> QED
    BY <2>1, <2>2, <2>3 DEF EpochsTellCasesApart
<1> QED
  BY <1>1, <1>2, CasesAndEpochs

\* However many cases come and go and however many of their files are lost, no
\* two cases share an epoch and none is ahead of the ledger (freeze): an
\* authorization that names a case and an epoch names one freeze.
THEOREM EpochsTellCasesApartAlways == Spec => []EpochsTellCasesApart
<1>1. Init => EpochsTellCasesApart
  BY DEF Init, FilesInit, EpochsTellCasesApart
<1>2. TypeInv /\ EpochsTellCasesApart /\ [Next]_vars => EpochsTellCasesApart'
  BY EpochStep
<1> QED
  BY <1>1, <1>2, TypeInvAlways, PTL DEF Spec

-----------------------------------------------------------------------------
(* The freeze. *)

FrozenCases == recovery.state \in Frozen => recovery.case \in Cases

LEMMA FreezeStep ==
    ASSUME TypeInv, FrozenCases, FreezeHolds, [Next]_vars
    PROVE  FrozenCases' /\ FreezeHolds'
<1> recovery \in RecoveryRecords
  BY DEF TypeInv, TypeOK, LedgerTypeOK
<1>1. Frozen \cap ClosedStates = {}
  BY DEF Frozen, ClosedStates
<1>2. CASE UNCHANGED <<recovery, incidents, status, claims>>
  BY <1>2 DEF FrozenCases, FreezeHolds
<1>3. CASE recovery'.state \in ClosedStates
  BY <1>1, <1>3 DEF FrozenCases, FreezeHolds
<1>4. CASE LedgerNext \/ OccupancyNext \/ DispatchNext \/ AssessNext \/ SupersedingNext
           \/ ClosingNext \/ UNCHANGED vars
  BY <1>2, <1>3, <1>4, LedgerFrame, OccupancyFrame, DispatchFrame, ValidationFrame, StuttersFrame
     DEF recoveryFiles, Next
<1>5. CASE RecoveredNext
  <2>1. recovery'.state = "CLOSED"
    BY <1>5 DEF RecoveredNext, RecordRecoveredSignal, RecoveryRecords
  <2> QED
    BY <1>3, <2>1 DEF ClosedStates
<1>6. CASE RecoveryNext
  <2>1. ASSUME NEW c \in Cases, NEW kept, NEW type \in IncidentTypes,
               NEW t \in Tasks \cup {None}, NEW target \in Windows \cup Agents \cup {None},
               Freeze(c, type, t, target, kept)
        PROVE  FrozenCases' /\ FreezeHolds'
    <3>1. recovery'.case = c /\ UNCHANGED claims
      BY <2>1 DEF Freeze, FrozenBy, occupancyVars
    <3>2. CASE incidents'[c] = None
      BY <3>1, <3>2 DEF FrozenCases, FreezeHolds
    <3>3. CASE incidents'[c] # None
      <4>1. incidents'[c].claims = claims /\ incidents'[c].task = t
        BY <2>1, <3>3 DEF Freeze, TypeInv, TypeOK, FilesTypeOK
      <4>2. t # None => status'[t] \in {"BLOCKED"} \cup Terminal
        BY <2>1 DEF Freeze, BlockedTask, TypeInv, TypeOK, LedgerTypeOK
      <4> QED
        BY <3>1, <4>1, <4>2 DEF FrozenCases, FreezeHolds
    <3> QED
      BY <3>2, <3>3
  <2>2. ASSUME NEW c \in Cases, NEW epoch, NEW kept, Takeover(c, epoch, kept)
        PROVE  FrozenCases' /\ FreezeHolds'
    <3>1. /\ recovery.state \in Frozen /\ recovery.case = c
          /\ recovery'.case = c /\ recovery'.epoch = recovery.epoch
          /\ UNCHANGED <<status, claims, incidents>>
      BY <2>2 DEF Takeover, RecoveryRecords, Frozen, taskVars, occupancyVars
    <3> QED
      BY <3>1 DEF FrozenCases, FreezeHolds
  <2>3. ASSUME NEW c \in Cases, NEW action \in DOMAIN StateAfter, NEW kept,
               Decide(c, action, kept)
        PROVE  FrozenCases' /\ FreezeHolds'
    <3>1. /\ recovery.state \in Frozen /\ recovery.case = c
          /\ recovery'.case = c /\ recovery'.epoch = recovery.epoch
          /\ UNCHANGED <<claims, incidents>>
      BY <2>3 DEF Decide, RecoveryRecords, Frozen, occupancyVars
    <3>2. \/ UNCHANGED status
          \/ incidents[c].task \in Tasks /\ status'[incidents[c].task] = "CANCELLED"
      BY <2>3 DEF Decide, TypeInv, TypeOK, LedgerTypeOK, FilesTypeOK, Incidents
    <3> QED
      BY <3>1, <3>2 DEF FrozenCases, FreezeHolds, Terminal
  <2>4. ASSUME NEW c \in Cases, NEW epoch, NEW v, NEW kept,
               Resume(c, epoch, kept) \/ Release(c, v, kept)
        PROVE  FrozenCases' /\ FreezeHolds'
    <3>1. recovery'.state = "CLOSED"
      BY <2>4 DEF Resume, Release, RecoveryRecords
    <3> QED
      BY <1>3, <3>1 DEF ClosedStates
  <2> QED
    BY <1>6, <2>1, <2>2, <2>3, <2>4 DEF RecoveryNext
<1> QED
  BY <1>4, <1>5, <1>6 DEF Next

\* From the freeze of a case to its end no command of any component changes a
\* claim or moves the task of the case, but the boss's own decision to cancel
\* it (commit_mutation's gate, freeze, decide).
THEOREM FreezeHoldsAlways == Spec => []FreezeHolds
<1>1. Init => FrozenCases /\ FreezeHolds
  BY DEF Init, LedgerInit, FrozenCases, FreezeHolds, Frozen
<1>2. TypeInv /\ (FrozenCases /\ FreezeHolds) /\ [Next]_vars => (FrozenCases /\ FreezeHolds)'
  BY FreezeStep
<1> QED
  BY <1>1, <1>2, TypeInvAlways, PTL DEF Spec

-----------------------------------------------------------------------------
(* Tasks that are over stay so, and no task goes back to its plan. *)

Onward ==
    \A t \in Tasks : status'[t] # status[t] =>
        /\ status[t] \notin Terminal
        /\ status[t] = "ABSENT" \/ status'[t] \notin {"ABSENT", "PLANNED"}

LEMMA OnwardStep ==
    ASSUME TypeInv, [Next]_vars
    PROVE  Onward
<1> USE DEF Onward, Terminal
<1> status \in [Tasks -> Statuses \cup {"ABSENT"}]
  BY DEF TypeInv, TypeOK, LedgerTypeOK
<1>1. ASSUME UNCHANGED status
      PROVE  Onward
  BY <1>1
<1>2. ASSUME NEW t \in Tasks, NEW s, status[t] \notin Terminal,
             status[t] = "ABSENT" \/ s \notin {"ABSENT", "PLANNED"},
             status' = [status EXCEPT ![t] = s]
      PROVE  Onward
  BY <1>2
<1>3. CASE LedgerNext
  <2>1. ASSUME NEW t \in Tasks, NEW os, AddTask(t, os)
        PROVE  Onward
    BY <1>2, <2>1 DEF AddTask, Known
  <2>2. ASSUME NEW t \in Tasks, NEW to, TransitionTask(t, to)
        PROVE  Onward
    <3>1. status[t] \in Statuses
      BY <2>2 DEF TransitionTask, Known
    <3>2. /\ \A s \in Statuses : Transitions[s] \cap {"ABSENT", "PLANNED"} = {}
          /\ \A s \in Terminal : Transitions[s] = {}
      BY DEF Transitions, Statuses
    <3>3. status[t] \notin Terminal /\ to \notin {"ABSENT", "PLANNED"}
      BY <2>2, <3>1, <3>2 DEF TransitionTask
    <3> QED
      BY <1>2, <2>2, <3>3 DEF TransitionTask
  <2>3. ASSUME NEW t \in Tasks, NEW s, RecordCompletionSignal(t, s)
        PROVE  Onward
    BY <1>2, <2>3 DEF RecordCompletionSignal
  <2> QED
    BY <1>1, <1>3, <2>1, <2>2, <2>3 DEF LedgerNext, RecordCorrection, VerifyCorrection, RecordWait,
       ResolveWait, ReconcileOutline, RegisterWindow, ImportOutline, ReviseOutline,
       RegisterSubAgent, ClaimObject, taskVars
<1>4. CASE OccupancyNext
  <2>1. ASSUME NEW r, NEW t \in Tasks, NEW requests, NEW choice, NEW kept,
               Reserve(r, t, requests, choice, kept)
        PROVE  Onward
    BY <1>2, <2>1 DEF Reserve, Reviewable
  <2>2. ASSUME NEW r, NEW t \in Tasks, NEW requests, NEW crossModule, NEW kept,
               Block(r, t, requests, crossModule, kept)
        PROVE  Onward
    BY <1>2, <2>2 DEF Block, Reviewable
  <2> QED
    BY <1>4, <2>1, <2>2 DEF OccupancyNext
<1>5. CASE DispatchNext
  <2>1. ASSUME NEW d \in Dispatches, NEW w, NEW kept, Confirm(d, w, kept)
        PROVE  Onward
    <3>1. plans[d].task \in Tasks
      BY <2>1 DEF Confirm, TypeInv, TypeOK, FilesTypeOK, Plans
    <3> QED
      BY <1>2, <2>1, <3>1 DEF Confirm
  <2> QED
    BY <1>1, <1>5, <2>1 DEF DispatchNext, Prepare, PrepareAppend, ConfirmAppend, RecordReturn,
       RecordQualityReview, ledgerVars, taskVars
<1>6. CASE AssessNext \/ SupersedingNext \/ ClosingNext
  <2>1. ASSUME NEW v, NEW t \in Tasks, NEW w, NEW outcome \in AssessedOutcomes, NEW kept,
               Assess(v, t, w, outcome, kept)
        PROVE  Onward
    <3>1. StatusAfter[outcome] \notin {"ABSENT", "PLANNED"}
      BY DEF StatusAfter, AssessedOutcomes
    <3> QED
      BY <1>2, <2>1, <3>1 DEF Assess, Supersedes, Superseded
  <2>2. ASSUME NEW v \in Validations, NEW kept, Approve(v, kept)
        PROVE  Onward
    <3>1. decisions[v].task \in Tasks
      BY <2>2 DEF Approve, TypeInv, TypeOK, FilesTypeOK, ValidationDecisions
    <3> QED
      BY <1>2, <2>2, <3>1 DEF Approve, Finalizable
  <2>3. ASSUME NEW t \in Tasks, CancelUnstarted(t)
        PROVE  Onward
    BY <1>2, <2>3 DEF CancelUnstarted
  <2>4. ASSUME NEW t, NEW v, NEW s, RecordSupersedingSignal(t, v, s)
        PROVE  Onward
    BY <1>1, <2>4 DEF RecordSupersedingSignal
  <2>5. ASSUME NEW t, NEW v, NEW u, NEW kept,
               \/ Reject(v, kept) \/ RecordAdjudication(v)
               \/ ResolveConflict(t, v, u) \/ ReleaseDoneTask(t, v)
        PROVE  Onward
    BY <1>1, <2>5 DEF Reject, RecordAdjudication, ResolveConflict, ReleaseDoneTask, ledgerVars,
       taskVars
  <2> HIDE DEF Onward
  <2> QED
    BY <1>6, <2>1, <2>2, <2>3, <2>4, <2>5 DEF AssessNext, SupersedingNext, ClosingNext
<1>7. CASE RecoveryNext
  <2>1. ASSUME NEW c, NEW kept, NEW type, NEW t \in Tasks \cup {None}, NEW target,
               Freeze(c, type, t, target, kept)
        PROVE  Onward
    BY <2>1 DEF Freeze, BlockedTask
  <2>2. ASSUME NEW c \in Cases, NEW action, NEW kept, Decide(c, action, kept)
        PROVE  Onward
    BY <2>2 DEF Decide
  <2>3. ASSUME NEW c \in Cases, NEW epoch, NEW kept, Resume(c, epoch, kept)
        PROVE  Onward
    BY <2>3 DEF Resume
  <2>4. ASSUME NEW c, NEW epoch, NEW v, NEW kept, Takeover(c, epoch, kept) \/ Release(c, v, kept)
        PROVE  Onward
    BY <1>1, <2>4 DEF Takeover, Release, taskVars
  <2> HIDE DEF Onward
  <2> QED
    BY <1>7, <2>1, <2>2, <2>3, <2>4 DEF RecoveryNext
<1>8. CASE RecoveredNext
  <2>1. ASSUME NEW c, NEW t \in Tasks, NEW w, NEW s, RecordRecoveredSignal(c, t, w, s)
        PROVE  Onward
    BY <1>2, <2>1 DEF RecordRecoveredSignal, ReturnPrepared
  <2> QED
    BY <1>8, <2>1 DEF RecoveredNext
<1>9. CASE UNCHANGED vars
  BY <1>1, <1>9, StuttersFrame
<1> QED
  BY <1>3, <1>4, <1>5, <1>6, <1>7, <1>8, <1>9 DEF Next

\* No command of any component brings a finished or a cancelled task back, not
\* even the recovery of the window that worked for it.
THEOREM GovernedTerminalIsFinal == Spec => TerminalIsFinal
<1>1. TypeInv /\ [Next]_vars =>
          [\A t \in Tasks : status[t] \in Terminal => status'[t] = status[t]]_ledgerVars
  BY OnwardStep DEF Onward
<1> QED
  BY <1>1, TypeInvAlways, PTL DEF Spec, TerminalIsFinal

-----------------------------------------------------------------------------
(* Claims. *)

\* What a step may do to claims: drop those of one task that is over and that
\* no stop names, or drop none.
ClaimsDropped ==
    \/ \A o \in Objects : claims[o] \subseteq claims'[o]
    \/ \E t \in Tasks : /\ claims' = ClaimsWithout(t)
                        /\ status'[t] \in Terminal
                        /\ ~HasStop(t)
                        /\ UNCHANGED stops

LEMMA ClaimsDroppedStep ==
    ASSUME TypeInv, [Next]_vars
    PROVE  ClaimsDropped
<1> USE DEF ClaimsDropped
<1> claims \in [Objects -> SUBSET Claims] /\ status \in [Tasks -> Statuses \cup {"ABSENT"}]
  BY DEF TypeInv, TypeOK, LedgerTypeOK
<1>1. ASSUME UNCHANGED claims
      PROVE  ClaimsDropped
  BY <1>1
<1>2. CASE LedgerNext
  <2>1. ASSUME NEW o, NEW x, NEW intent, ClaimObject(o, x, intent)
        PROVE  ClaimsDropped
    BY <2>1 DEF ClaimObject
  <2> QED
    BY <1>1, <1>2, <2>1 DEF LedgerNext, AddTask, TransitionTask, RecordCompletionSignal,
       RecordCorrection, VerifyCorrection, RecordWait, ResolveWait, ReconcileOutline,
       RegisterWindow, ImportOutline, ReviseOutline, RegisterSubAgent, occupancyVars
<1>3. CASE OccupancyNext
  <2>1. ASSUME NEW r, NEW t, NEW requests, NEW choice, NEW kept,
               Reserve(r, t, requests, choice, kept)
        PROVE  ClaimsDropped
    BY <2>1 DEF Reserve
  <2>2. ASSUME NEW r, NEW t, NEW requests, NEW crossModule, NEW kept,
               Block(r, t, requests, crossModule, kept)
        PROVE  ClaimsDropped
    BY <1>1, <2>2 DEF Block
  <2> QED
    BY <1>3, <2>1, <2>2 DEF OccupancyNext
<1>4. CASE DispatchNext
  BY <1>1, <1>4, DispatchFrame
<1>5. CASE AssessNext \/ SupersedingNext \/ ClosingNext
  <2>1. ASSUME NEW t \in Tasks, NEW v, ReleaseDoneTask(t, v)
        PROVE  ClaimsDropped
    BY <2>1 DEF ReleaseDoneTask, taskVars, Terminal
  <2>2. ASSUME NEW t \in Tasks, CancelUnstarted(t)
        PROVE  ClaimsDropped
    BY <2>2 DEF CancelUnstarted, Terminal
  <2>3. ASSUME NEW v, NEW t, NEW w, NEW u, NEW outcome, NEW kept, NEW s,
               \/ Assess(v, t, w, outcome, kept) \/ RecordSupersedingSignal(t, v, s)
               \/ Approve(v, kept) \/ Reject(v, kept) \/ RecordAdjudication(v)
               \/ ResolveConflict(t, v, u)
        PROVE  UNCHANGED claims
    BY <2>3 DEF Assess, RecordSupersedingSignal, Approve, Reject, RecordAdjudication,
       ResolveConflict, ledgerVars, occupancyVars
  <2> HIDE DEF ClaimsDropped
  <2> QED
    BY <1>1, <1>5, <2>1, <2>2, <2>3 DEF AssessNext, SupersedingNext, ClosingNext
<1>6. CASE RecoveryNext
  <2>1. ASSUME NEW c \in Cases, NEW v, NEW kept, Release(c, v, kept)
        PROVE  ClaimsDropped
    <3>1. incidents[c].task \in Tasks
      BY <2>1 DEF Release, TypeInv, TypeOK, FilesTypeOK, Incidents
    <3> QED
      BY <2>1, <3>1 DEF Release, TaskIsOver, taskVars
  <2>2. ASSUME NEW c, NEW kept, NEW type, NEW t, NEW target, NEW epoch, NEW action,
               \/ Freeze(c, type, t, target, kept) \/ Takeover(c, epoch, kept)
               \/ Decide(c, action, kept) \/ Resume(c, epoch, kept)
        PROVE  UNCHANGED claims
    BY <2>2 DEF Freeze, Takeover, Decide, Resume, occupancyVars
  <2> HIDE DEF ClaimsDropped
  <2> QED
    BY <1>1, <1>6, <2>1, <2>2 DEF RecoveryNext
<1>7. CASE RecoveredNext
  BY <1>1, <1>7 DEF RecoveredNext, RecordRecoveredSignal, occupancyVars
<1>8. CASE UNCHANGED vars
  BY <1>1, <1>8, StuttersFrame
<1> QED
  BY <1>2, <1>3, <1>4, <1>5, <1>6, <1>7, <1>8 DEF Next

\* Through conflicts, freezes, replacements and cancellations a task loses no
\* claim before it is over and no hard stop names it (release_done_task_occupancy,
\* cancel_unstarted_task, release).
THEOREM ClaimsOutliveWorkAlways == Spec => ClaimsOutliveWork
<1>1. ASSUME TypeInv, [Next]_vars, NEW t \in Tasks, TaskClaims(t) \ TaskClaims(t)' # {}
      PROVE  status'[t] \in Terminal /\ ~HasStop(t)
  <2>1. PICK p \in TaskClaims(t) : p \notin TaskClaims(t)'
    BY <1>1
  <2>2. PICK o \in Objects : p \in {[object |-> o, claim |-> c] : c \in OwnClaims(o, t)}
    BY <2>1 DEF TaskClaims
  <2>3. PICK c \in OwnClaims(o, t) : p = [object |-> o, claim |-> c]
    BY <2>2
  <2>4. c \in claims[o] /\ c.owner = t /\ c \notin claims'[o]
    <3>1. c \notin OwnClaims(o, t)'
      BY <2>1, <2>3 DEF TaskClaims
    <3> QED
      BY <2>3, <3>1 DEF OwnClaims
  <2>5. PICK u \in Tasks : /\ claims' = ClaimsWithout(u)
                           /\ status'[u] \in Terminal
                           /\ ~HasStop(u)
    BY <1>1, <2>4, ClaimsDroppedStep DEF ClaimsDropped
  <2>6. c.owner = u
    BY <2>4, <2>5 DEF ClaimsWithout, OwnClaims
  <2> QED
    BY <2>4, <2>5, <2>6
<1>2. TypeInv /\ [Next]_vars =>
          [\A t \in Tasks :
              TaskClaims(t) \ TaskClaims(t)' # {} => status'[t] \in Terminal /\ ~HasStop(t)]_vars
  BY <1>1
<1> QED
  BY <1>2, TypeInvAlways, PTL DEF Spec, ClaimsOutliveWork

\* A claim a step adds is a declaration, unless C05 reserves it: a declared
\* claim beside others comes with a stop, and one to write is for a task that
\* nothing holds.
Declared ==
    \A o \in Objects : \A c \in claims'[o] \ claims[o] :
        /\ c.review = None
        /\ \A d \in claims'[o] : d = c \/ ObjectStop(o) \in stops'
        /\ TaskOf(c.owner)' = TaskOf(c.owner)
        /\ c.intent = "WRITE" /\ TaskOf(c.owner) # None => DirectionReady(TaskOf(c.owner))

\* Everybody but C05.
ElsewhereThanReviews ==
    \/ LedgerNext \/ DispatchNext \/ AssessNext \/ SupersedingNext \/ ClosingNext
    \/ RecoveryNext \/ RecoveredNext

LEMMA DeclaredElsewhere ==
    ASSUME TypeInv, ElsewhereThanReviews
    PROVE  Declared
<1> claims \in [Objects -> SUBSET Claims]
  BY DEF TypeInv, TypeOK, LedgerTypeOK
<1>1. ASSUME UNCHANGED claims
      PROVE  Declared
  BY <1>1 DEF Declared
<1>2. CASE LedgerNext
  <2>1. ASSUME NEW o \in Objects, NEW x, NEW intent, ClaimObject(o, x, intent)
        PROVE  Declared
    <3> DEFINE new == [owner |-> x, intent |-> intent, key |-> o, exclusive |-> FALSE,
                       review |-> None]
    <3>1. /\ claims' = [claims EXCEPT ![o] = @ \cup {new}]
          /\ stops' = IF claims[o] = {} THEN stops ELSE stops \cup {ObjectStop(o)}
          /\ intent = "WRITE" /\ TaskOf(x) # None => DirectionReady(TaskOf(x))
      BY <2>1 DEF ClaimObject
    <3>2. new.owner = x /\ new.intent = intent /\ new.review = None
      OBVIOUS
    <3>3. TaskOf(x)' = TaskOf(x)
      BY <2>1 DEF ClaimObject, TaskOf, CurrentTask, Registered, runtimeVars
    <3> HIDE DEF new
    <3> QED
      BY <3>1, <3>2, <3>3 DEF Declared
  <2> QED
    BY <1>1, <1>2, <2>1 DEF LedgerNext, AddTask, TransitionTask, RecordCompletionSignal,
       RecordCorrection, VerifyCorrection, RecordWait, ResolveWait, ReconcileOutline,
       RegisterWindow, ImportOutline, ReviseOutline, RegisterSubAgent, occupancyVars
<1>4. ASSUME NEW t \in Tasks, claims' = ClaimsWithout(t)
      PROVE  Declared
  BY <1>4 DEF ClaimsWithout, Declared
<1>5. CASE AssessNext \/ SupersedingNext \/ ClosingNext
  <2>1. ASSUME NEW t \in Tasks, NEW v, ReleaseDoneTask(t, v) \/ CancelUnstarted(t)
        PROVE  Declared
    BY <1>4, <2>1 DEF ReleaseDoneTask, CancelUnstarted
  <2>2. ASSUME NEW v, NEW t, NEW w, NEW u, NEW outcome, NEW kept, NEW s,
               \/ Assess(v, t, w, outcome, kept) \/ RecordSupersedingSignal(t, v, s)
               \/ Approve(v, kept) \/ Reject(v, kept) \/ RecordAdjudication(v)
               \/ ResolveConflict(t, v, u)
        PROVE  UNCHANGED claims
    BY <2>2 DEF Assess, RecordSupersedingSignal, Approve, Reject, RecordAdjudication,
       ResolveConflict, ledgerVars, occupancyVars
  <2> QED
    BY <1>1, <1>5, <2>1, <2>2 DEF AssessNext, SupersedingNext, ClosingNext
<1>6. CASE RecoveryNext
  <2>1. ASSUME NEW c \in Cases, NEW v, NEW kept, Release(c, v, kept)
        PROVE  Declared
    <3>1. incidents[c].task \in Tasks
      BY <2>1 DEF Release, TypeInv, TypeOK, FilesTypeOK, Incidents
    <3> QED
      BY <1>4, <2>1, <3>1 DEF Release
  <2>2. ASSUME NEW c, NEW kept, NEW type, NEW t, NEW target, NEW epoch, NEW action,
               \/ Freeze(c, type, t, target, kept) \/ Takeover(c, epoch, kept)
               \/ Decide(c, action, kept) \/ Resume(c, epoch, kept)
        PROVE  UNCHANGED claims
    BY <2>2 DEF Freeze, Takeover, Decide, Resume, occupancyVars
  <2> QED
    BY <1>1, <1>6, <2>1, <2>2 DEF RecoveryNext
<1>7. CASE DispatchNext
  BY <1>1, <1>7, DispatchFrame
<1>8. CASE RecoveredNext
  BY <1>1, <1>8 DEF RecoveredNext, RecordRecoveredSignal, occupancyVars
<1> QED
  BY <1>2, <1>5, <1>6, <1>7, <1>8 DEF ElsewhereThanReviews

LEMMA DeclaredOrReserved ==
    ASSUME TypeInv, [Next]_vars
    PROVE  \/ Declared
           \/ \E r \in Reviews, t \in Tasks, requests \in RequestSets, kept \in Keeping :
                 \E choice \in WindowChoices(t) : Reserve(r, t, requests, choice, kept)
<1>1. ASSUME UNCHANGED claims
      PROVE  Declared
  BY <1>1 DEF Declared
<1>2. CASE OccupancyNext
  <2>1. ASSUME NEW r, NEW t, NEW requests, NEW crossModule, NEW kept,
               Block(r, t, requests, crossModule, kept)
        PROVE  Declared
    BY <1>1, <2>1 DEF Block
  <2> QED
    BY <1>2, <2>1 DEF OccupancyNext
<1>3. CASE UNCHANGED vars
  BY <1>1, <1>3, StuttersFrame
<1> QED
  BY <1>2, <1>3, DeclaredElsewhere DEF Next, ElsewhereThanReviews

LEMMA ReservationStep ==
    ASSUME ReservationsDoNotConflict, NEW r \in Reviews, NEW t \in Tasks,
           NEW requests \in RequestSets, NEW choice, NEW kept,
           Reserve(r, t, requests, choice, kept)
    PROVE  ReservationsDoNotConflict'
<1> DEFINE asked == {Reservation(t, r, q) : q \in requests}
<1>1. \A p \in asked : p.claim.owner = t
  BY DEF Reservation
<1>2. \A p \in asked, q \in AllClaims : ~ClaimsConflict(p, q) /\ ~ClaimsConflict(q, p)
  <2>1. \A p \in asked, q \in AllClaims : ~ClaimsConflict(p, q)
    BY DEF Reserve, RequestsConflict
  <2> QED
    BY <2>1 DEF ClaimsConflict
<1>3. ASSUME NEW p \in AllClaims'
      PROVE  p \in AllClaims \/ p \in asked
  <2>1. PICK o \in Objects : p \in {[object |-> o, claim |-> c] : c \in claims'[o]}
    BY DEF AllClaims
  <2>2. PICK c \in claims'[o] : p = [object |-> o, claim |-> c]
    BY <2>1
  <2>3. CASE c \in claims[o]
    BY <2>2, <2>3 DEF AllClaims
  <2>4. CASE c \notin claims[o]
    <3>1. c \in {x.claim : x \in {y \in asked : y.object = o}}
      BY <2>2, <2>4 DEF Reserve
    <3>2. PICK x \in asked : x.object = o /\ c = x.claim
      BY <3>1
    <3>3. x = [object |-> o, claim |-> c]
      BY <3>2 DEF Reservation
    <3> QED
      BY <2>2, <3>2, <3>3
  <2> QED
    BY <2>3, <2>4
<1>4. ASSUME NEW p \in AllClaims', NEW q \in AllClaims',
             p.claim.review # None, q.claim.review # None, p.claim.owner # q.claim.owner
      PROVE  ~ClaimsConflict(p, q)
  <2> HIDE DEF asked
  <2>1. CASE p \in AllClaims /\ q \in AllClaims
    BY <1>4, <2>1 DEF ReservationsDoNotConflict
  <2> QED
    BY <1>1, <1>2, <1>3, <1>4, <2>1
<1> QED
  BY <1>4 DEF ReservationsDoNotConflict, ClaimsConflict

\* No two tasks ever hold reservations that conflict under either of their
\* names, whatever is declared, released, frozen and replaced in between
\* (check_occupancy, claim_conflicts).
THEOREM ReservationsDoNotConflictAlways == Spec => []ReservationsDoNotConflict
<1>1. Init => ReservationsDoNotConflict
  BY DEF Init, LedgerInit, ReservationsDoNotConflict, AllClaims
<1>2. ASSUME TypeInv, ReservationsDoNotConflict, [Next]_vars
      PROVE  ReservationsDoNotConflict'
  <2>1. CASE Declared
    <3>1. ASSUME NEW p \in AllClaims', p.claim.review # None
          PROVE  p \in AllClaims
      <4>1. PICK o \in Objects : p \in {[object |-> o, claim |-> c] : c \in claims'[o]}
        BY DEF AllClaims
      <4>2. PICK c \in claims'[o] : p = [object |-> o, claim |-> c]
        BY <4>1
      <4>3. c \in claims[o]
        BY <2>1, <3>1, <4>2 DEF Declared
      <4> QED
        BY <4>2, <4>3 DEF AllClaims
    <3> QED
      BY <1>2, <3>1 DEF ReservationsDoNotConflict, ClaimsConflict
  <2> QED
    BY <1>2, <2>1, DeclaredOrReserved, ReservationStep
<1> QED
  BY <1>1, <1>2, TypeInvAlways, PTL DEF Spec

-----------------------------------------------------------------------------
(* Acceptance. *)

DecisionsAreKept == \A t \in Tasks : status[t] = "DONE" => decisions[acceptance[t]] # None

DirectionStands(t) ==
    /\ corrections'[t] = corrections[t]
    /\ verifications[t] \subseteq verifications'[t]
    /\ \A w \in Waits : waits'[t][w] = "WAITING" => waits[t][w] = "WAITING"

\* All steps but an approval: no task becomes DONE, the direction of those that
\* are stands, and a decision once kept is kept.
NothingAccepted ==
    /\ \A t \in Tasks : status'[t] = "DONE" => status[t] = "DONE" /\ DirectionStands(t)
    /\ \A v \in Validations : decisions[v] # None => decisions'[v] = decisions[v]
    /\ UNCHANGED acceptance
    /\ \A v \in Validations : Accepted(v)' <=> Accepted(v)

LEMMA StandingDirection ==
    ASSUME UNCHANGED directionVars
    PROVE  \A t \in Tasks : DirectionStands(t)
BY DEF directionVars, DirectionStands

LEMMA AcceptedOrNot ==
    ASSUME TypeInv, [Next]_vars
    PROVE  NothingAccepted \/ \E v \in Validations, kept \in Keeping : Approve(v, kept)
<1> status \in [Tasks -> Statuses \cup {"ABSENT"}]
  BY DEF TypeInv, TypeOK, LedgerTypeOK
<1> decisions \in [Validations -> ValidationDecisions \cup {None}]
  BY DEF TypeInv, TypeOK, FilesTypeOK
<1>1. CASE LedgerNext /\ UNCHANGED files
  <2>0. UNCHANGED <<decisions, acceptance, finalizations>>
    BY <1>1 DEF files, validationFiles
  <2>1. ASSUME NEW t \in Tasks, NEW os, AddTask(t, os)
        PROVE  NothingAccepted
    BY <2>0, <2>1, StandingDirection DEF AddTask, NothingAccepted, Accepted
  <2>2. ASSUME NEW t \in Tasks, NEW to, TransitionTask(t, to)
        PROVE  NothingAccepted
    BY <2>0, <2>2, StandingDirection DEF TransitionTask, NothingAccepted, Accepted
  <2>3. ASSUME NEW t \in Tasks, NEW s, RecordCompletionSignal(t, s)
        PROVE  NothingAccepted
    BY <2>0, <2>3, StandingDirection DEF RecordCompletionSignal, NothingAccepted, Accepted
  <2>4. ASSUME NEW t \in Tasks, NEW r, RecordCorrection(t, r)
        PROVE  NothingAccepted
    <3>1. status[t] # "DONE"
      BY <2>4 DEF RecordCorrection, ClosedToDirection
    <3> QED
      BY <2>0, <2>4, <3>1 DEF RecordCorrection, NothingAccepted, Accepted, DirectionStands,
         taskVars, TypeInv,
         TypeOK, LedgerTypeOK
  <2>5. ASSUME NEW t \in Tasks, NEW r, VerifyCorrection(t, r)
        PROVE  NothingAccepted
    BY <2>0, <2>5 DEF VerifyCorrection, NothingAccepted, Accepted, DirectionStands, taskVars,
       TypeInv,
       TypeOK, LedgerTypeOK
  <2>6. ASSUME NEW t \in Tasks, NEW w \in Waits, NEW r, RecordWait(t, w) \/ ResolveWait(t, w, r)
        PROVE  NothingAccepted
    <3>1. status[t] # "DONE"
      BY <2>6 DEF RecordWait, ResolveWait, ClosedToDirection
    <3>2. \A u \in Tasks : u # t => waits'[u] = waits[u]
      BY <2>6 DEF RecordWait, ResolveWait, TypeInv, TypeOK, LedgerTypeOK
    <3>3. UNCHANGED <<status, corrections, verifications>>
      BY <2>6 DEF RecordWait, ResolveWait, taskVars
    <3> QED
      BY <2>0, <3>1, <3>2, <3>3 DEF NothingAccepted, Accepted, DirectionStands
  <2>7. ASSUME NEW t, NEW i, NEW rs, NEW w, NEW trusted,
               ReconcileOutline(t, i, rs) \/ RegisterWindow(w, t, trusted)
        PROVE  NothingAccepted
    <3>1. UNCHANGED <<status, corrections, verifications, waits>>
      BY <2>7 DEF ReconcileOutline, RegisterWindow, taskVars, directionVars
    <3> QED
      BY <2>0, <3>1 DEF NothingAccepted, Accepted, DirectionStands
  <2>8. ASSUME NEW c, NEW a, NEW o, NEW x, NEW w, NEW intent,
               \/ ImportOutline(c) \/ ReviseOutline(c) \/ RegisterSubAgent(a, w)
               \/ ClaimObject(o, x, intent)
        PROVE  NothingAccepted
    <3>1. UNCHANGED <<status, corrections, verifications, waits>>
      BY <2>8 DEF ImportOutline, ReviseOutline, RegisterSubAgent, ClaimObject, taskVars,
         directionVars
    <3> QED
      BY <2>0, <3>1 DEF NothingAccepted, Accepted, DirectionStands
  <2> QED
    BY <1>1, <2>1, <2>2, <2>3, <2>4, <2>5, <2>6, <2>7, <2>8 DEF LedgerNext
<1>2. CASE OccupancyNext
  <2>1. UNCHANGED <<decisions, acceptance, finalizations, directionVars>>
    BY <1>2, OccupancyFrame DEF validationFiles
  <2>2. \A t \in Tasks : status'[t] = "DONE" => status[t] = "DONE"
    <3>1. ASSUME NEW r, NEW t \in Tasks, NEW requests, NEW choice, NEW kept,
                 Reserve(r, t, requests, choice, kept)
          PROVE  \A u \in Tasks : status'[u] = "DONE" => status[u] = "DONE"
      BY <3>1 DEF Reserve
    <3>2. ASSUME NEW r, NEW t \in Tasks, NEW requests, NEW crossModule, NEW kept,
                 Block(r, t, requests, crossModule, kept)
          PROVE  \A u \in Tasks : status'[u] = "DONE" => status[u] = "DONE"
      BY <3>2 DEF Block
    <3> QED
      BY <1>2, <3>1, <3>2 DEF OccupancyNext
  <2> QED
    BY <2>1, <2>2, StandingDirection DEF NothingAccepted, Accepted
<1>3. CASE DispatchNext
  <2>1. UNCHANGED <<decisions, acceptance, finalizations, directionVars>>
    BY <1>3, DispatchFrame DEF validationFiles
  <2>2. ASSUME NEW d \in Dispatches, NEW w, NEW kept, Confirm(d, w, kept)
        PROVE  \A u \in Tasks : status'[u] = "DONE" => status[u] = "DONE"
    BY <2>2 DEF Confirm
  <2>3. \A t \in Tasks : status'[t] = "DONE" => status[t] = "DONE"
    BY <1>3, <2>2 DEF DispatchNext, Prepare, PrepareAppend, ConfirmAppend, RecordReturn,
       RecordQualityReview, ledgerVars, taskVars
  <2> QED
    BY <2>1, <2>3, StandingDirection DEF NothingAccepted, Accepted
<1>4. CASE AssessNext \/ SupersedingNext \/ ClosingNext
  <2>1. ASSUME NEW v \in Validations, NEW t \in Tasks, NEW w, NEW outcome \in AssessedOutcomes,
               NEW kept, Assess(v, t, w, outcome, kept)
        PROVE  NothingAccepted
    <3>1. StatusAfter[outcome] # "DONE"
      BY DEF StatusAfter, AssessedOutcomes
    <3> QED
      BY <2>1, <3>1, StandingDirection DEF Assess, NothingAccepted, Accepted
  <2>2. ASSUME NEW t \in Tasks, CancelUnstarted(t)
        PROVE  NothingAccepted
    BY <2>2, StandingDirection DEF CancelUnstarted, NothingAccepted, Accepted, files,
       validationFiles
  <2>3. ASSUME NEW v, NEW t, NEW u, NEW kept, NEW s,
               \/ RecordSupersedingSignal(t, v, s) \/ RecordAdjudication(v)
               \/ ResolveConflict(t, v, u) \/ ReleaseDoneTask(t, v)
        PROVE  NothingAccepted
    <3>1. UNCHANGED <<status, decisions, acceptance, finalizations, directionVars>>
      BY <2>3 DEF RecordSupersedingSignal, RecordAdjudication, ResolveConflict,
         ReleaseDoneTask, ledgerVars, taskVars, files, validationFiles
    <3> QED
      BY <3>1, StandingDirection DEF NothingAccepted, Accepted
  <2>4. ASSUME NEW v \in Validations, NEW kept, Reject(v, kept)
        PROVE  NothingAccepted
    <3>1. UNCHANGED <<status, decisions, acceptance, directionVars>>
      BY <2>4 DEF Reject, ledgerVars, taskVars
    <3>2. \A u \in Validations : Accepted(u)' <=> Accepted(u)
      BY <2>4 DEF Reject, Finalizable, KeepFinalization, Accepted, TypeInv, TypeOK, FilesTypeOK
    <3> QED
      BY <3>1, <3>2, StandingDirection DEF NothingAccepted
  <2> HIDE DEF NothingAccepted
  <2> QED
    BY <1>4, <2>1, <2>2, <2>3, <2>4 DEF AssessNext, SupersedingNext, ClosingNext
<1>5. CASE RecoveryNext
  <2>1. ASSUME NEW c, NEW kept, NEW type, NEW t \in Tasks \cup {None}, NEW target,
               Freeze(c, type, t, target, kept)
        PROVE  NothingAccepted
    BY <2>1, StandingDirection DEF Freeze, BlockedTask, NothingAccepted, Accepted, validationFiles
  <2>2. ASSUME NEW c \in Cases, NEW action, NEW kept, Decide(c, action, kept)
        PROVE  NothingAccepted
    BY <2>2, StandingDirection DEF Decide, NothingAccepted, Accepted, validationFiles
  <2>3. ASSUME NEW c \in Cases, NEW epoch, NEW kept, Resume(c, epoch, kept)
        PROVE  NothingAccepted
    BY <2>3, StandingDirection DEF Resume, NothingAccepted, Accepted, validationFiles
  <2>4. ASSUME NEW c, NEW epoch, NEW v, NEW kept, Takeover(c, epoch, kept) \/ Release(c, v, kept)
        PROVE  NothingAccepted
    BY <2>4, StandingDirection DEF Takeover, Release, taskVars, NothingAccepted, Accepted,
       validationFiles
  <2> QED
    BY <1>5, <2>1, <2>2, <2>3, <2>4 DEF RecoveryNext
<1>6. CASE RecoveredNext
  <2>1. ASSUME NEW c, NEW t \in Tasks, NEW w, NEW s, RecordRecoveredSignal(c, t, w, s)
        PROVE  NothingAccepted
    BY <2>1, StandingDirection DEF RecordRecoveredSignal, NothingAccepted, Accepted, files,
       validationFiles
  <2> QED
    BY <1>6, <2>1 DEF RecoveredNext
<1>7. CASE UNCHANGED vars
  BY <1>7, StuttersFrame, StandingDirection DEF NothingAccepted, Accepted
<1> QED
  BY <1>1, <1>2, <1>3, <1>4, <1>5, <1>6, <1>7 DEF Next

LEMMA AcceptanceStep ==
    ASSUME TypeInv, DecisionsAreKept, DoneIsAccepted, [Next]_vars
    PROVE  DecisionsAreKept' /\ DoneIsAccepted'
<1>1. CASE NothingAccepted
  <2>1. ASSUME NEW t \in Tasks, status'[t] = "DONE"
        PROVE  /\ status[t] = "DONE"
               /\ acceptance'[t] = acceptance[t]
               /\ acceptance[t] \in Validations
               /\ decisions[acceptance[t]] # None
               /\ decisions'[acceptance[t]] = decisions[acceptance[t]]
    BY <1>1, <2>1 DEF NothingAccepted, DecisionsAreKept, DoneIsAccepted, TypeInv, TypeOK,
       FilesTypeOK
  <2>2. ASSUME NEW t \in Tasks, status'[t] = "DONE"
        PROVE  corrections'[t] = corrections[t] /\ ~DirectionHold(t)' /\ ActiveWaits(t)' = {}
    <3>1. DirectionStands(t) /\ ~DirectionHold(t) /\ ActiveWaits(t) = {}
      BY <1>1, <2>1, <2>2 DEF NothingAccepted, DoneIsAccepted
    <3> QED
      BY <3>1 DEF DirectionStands, DirectionHold, ActiveWaits
  <2> QED
    BY <2>1, <2>2 DEF DecisionsAreKept, DoneIsAccepted
<1>2. ASSUME NEW v \in Validations, NEW kept, Approve(v, kept)
      PROVE  DecisionsAreKept' /\ DoneIsAccepted'
  <2> DEFINE t == decisions[v].task
  <2>1. /\ t \in Tasks
        /\ status' = [status EXCEPT ![t] = "DONE"]
        /\ acceptance' = [acceptance EXCEPT ![t] = v]
        /\ UNCHANGED <<directionVars, decisions>>
    BY <1>2 DEF Approve, TypeInv, TypeOK, FilesTypeOK, ValidationDecisions
  <2>2. /\ decisions[v] # None
        /\ decisions[v].outcome \in {"PASS", "HISTORICAL"}
        /\ decisions[v].direction = corrections[t]
        /\ ~DirectionHold(t) /\ ActiveWaits(t) = {}
    BY <1>2 DEF Approve, Finalizable, DirectionReady
  <2>3. v # None
    BY NoneIsNothing
  <2>4. ASSUME NEW u \in Tasks
        PROVE  (DirectionHold(u)' <=> DirectionHold(u)) /\ ActiveWaits(u)' = ActiveWaits(u)
    BY <2>1 DEF directionVars, DirectionHold, ActiveWaits
  <2>5. UNCHANGED corrections
    BY <2>1 DEF directionVars
  <2>6. /\ status \in [Tasks -> Statuses \cup {"ABSENT"}]
        /\ acceptance \in [Tasks -> Validations \cup {None}]
    BY DEF TypeInv, TypeOK, LedgerTypeOK, FilesTypeOK
  <2> HIDE DEF t
  <2>7. ASSUME NEW u \in Tasks, status'[u] = "DONE", u # t
        PROVE  status[u] = "DONE" /\ acceptance'[u] = acceptance[u]
    BY <2>1, <2>6, <2>7
  <2>8. acceptance'[t] = v
    BY <2>1, <2>6
  <2> QED
    BY <2>1, <2>2, <2>3, <2>4, <2>5, <2>7, <2>8 DEF DecisionsAreKept, DoneIsAccepted, t
<1> QED
  BY <1>1, <1>2, AcceptedOrNot

LEMMA AcceptanceAlways == Spec => [](DecisionsAreKept /\ DoneIsAccepted)
<1>1. Init => DecisionsAreKept /\ DoneIsAccepted
  BY DEF Init, LedgerInit, DecisionsAreKept, DoneIsAccepted
<1>2. TypeInv /\ (DecisionsAreKept /\ DoneIsAccepted) /\ [Next]_vars
          => (DecisionsAreKept /\ DoneIsAccepted)'
  BY AcceptanceStep
<1> QED
  BY <1>1, <1>2, TypeInvAlways, PTL DEF Spec

\* A task is DONE only by a decision about it under the direction it ended
\* with, with no correction or wait open, then and ever after (finalize,
\* require_direction_open).
THEOREM DoneIsAcceptedAlways == Spec => []DoneIsAccepted
BY AcceptanceAlways, PTL

-----------------------------------------------------------------------------
(***************************************************************************)
(* The life of a window in the composed system, for any number of them: it *)
(* serves at most two tasks, and once replaced it rests.                   *)
(***************************************************************************)

OutOfUse == {"FROZEN", "DISCONNECTED", "CANCELLED", "CLOSED"}

ReplacedWindow(w, t) ==
    [windows[w] EXCEPT !.status = "REPLACED_READ_ONLY", !.current = None,
                       !.history = ReplacedAssignments(@, t)]

\* All that ever happens to a window: it is registered for a task nothing
\* holds, taken out of use by a recovery, reserved, put to work, vacated or
\* replaced.
WindowStep(w) ==
    \/ windows'[w] = windows[w]
    \/ /\ windows[w] = None
       /\ \E t \in Tasks, trusted \in BOOLEAN :
             DirectionReady(t) /\ windows'[w] = NewWindow(t, trusted)
    \/ /\ windows[w] # None
       /\ \E s \in OutOfUse : windows'[w] = [windows[w] EXCEPT !.status = s]
    \/ /\ ReusableWindow(w)
       /\ \E t \in Tasks, r \in Reviews : windows'[w] = ReservedWindow(w, t, r)
    \/ \E t \in Tasks : CurrentTask(w) = t /\ windows'[w] = ConfirmedWindow(w, t, "CURRENT")
    \/ /\ windows[w] # None
       /\ \E t \in Tasks, r \in Reviews :
             /\ status[t] = "READY"
             /\ DirectionReady(t)
             /\ ReadyForSecond(w, t, r)
             /\ windows'[w] = ConfirmedWindow(w, t, "SECOND")
    \/ CurrentTask(w) \in Tasks /\ windows'[w] = VacatedWindow(w)
    \/ /\ CurrentTask(w) \in Tasks
       /\ \E t \in Tasks : windows'[w] = ReplacedWindow(w, t)

\* A task's latest replacement is of a window that is replaced in this step.
ReplacementStep ==
    \A t \in Tasks :
        \/ replaced'[t] = replaced[t]
        \/ /\ replaced'[t].window \in Windows
           /\ windows[replaced'[t].window] # None
           /\ \E u \in Tasks : windows'[replaced'[t].window] = ReplacedWindow(replaced'[t].window, u)

LEMMA ReplacedWindowIsWindow ==
    ASSUME NEW w, windows[w] \in WindowRecords, NEW t \in Tasks
    PROVE  ReplacedWindow(w, t) \in WindowRecords
<1>1. ReplacedAssignments(windows[w].history, t) \in Seq(Assignments)
  BY ReplacedAssignmentsTyped DEF WindowRecords
<1> QED
  BY <1>1 DEF ReplacedWindow, WindowRecords, WindowStatuses

LEMMA OutOfUseStep ==
    ASSUME TypeInv, NEW ws \in SUBSET Windows, \A w \in ws : Registered(w), NEW s \in OutOfUse,
           windows' = WindowsBecome(ws, s)
    PROVE  \A w \in Windows : WindowStep(w)
BY DEF TypeInv, TypeOK, LedgerTypeOK, WindowsBecome, WindowStep, Registered

LEMMA WindowSteps ==
    ASSUME TypeInv, [Next]_vars
    PROVE  (\A w \in Windows : WindowStep(w)) /\ ReplacementStep
<1> windows \in [Windows -> WindowRecords \cup {None}]
  BY DEF TypeInv, TypeOK, LedgerTypeOK
<1>1. ASSUME UNCHANGED windows
      PROVE  \A w \in Windows : WindowStep(w)
  BY <1>1 DEF WindowStep
<1>2. ASSUME UNCHANGED replaced
      PROVE  ReplacementStep
  BY <1>2 DEF ReplacementStep
<1>3. CASE LedgerNext /\ UNCHANGED files
  <2>1. ASSUME NEW w \in Windows, NEW t \in Tasks, NEW trusted \in BOOLEAN,
               RegisterWindow(w, t, trusted)
        PROVE  \A x \in Windows : WindowStep(x)
    BY <2>1 DEF RegisterWindow, Registered, WindowStep
  <2>2. \/ UNCHANGED windows
        \/ \E w \in Windows, t \in Tasks, trusted \in BOOLEAN : RegisterWindow(w, t, trusted)
    BY <1>3 DEF LedgerNext, AddTask, TransitionTask, RecordCompletionSignal, RecordCorrection,
       VerifyCorrection, RecordWait, ResolveWait, ReconcileOutline, ImportOutline, ReviseOutline,
       RegisterSubAgent, ClaimObject, runtimeVars
  <2>3. UNCHANGED replaced
    BY <1>3 DEF files, recoveryFiles
  <2> QED
    BY <1>1, <1>2, <2>1, <2>2, <2>3
<1>4. CASE OccupancyNext
  <2>1. ASSUME NEW r \in Reviews, NEW t \in Tasks, NEW requests, NEW choice \in WindowChoices(t),
               NEW kept, Reserve(r, t, requests, choice, kept)
        PROVE  \A w \in Windows : WindowStep(w)
    <3>1. CASE choice.reuse = "SECOND"
      <4>1. choice.window \in Windows /\ ReusableWindow(choice.window)
        BY <3>1 DEF WindowChoices, Choice
      <4>2. windows' = [windows EXCEPT ![choice.window] = ReservedWindow(choice.window, t, r)]
        BY <2>1, <3>1 DEF Reserve
      <4> QED
        BY <4>1, <4>2 DEF WindowStep
    <3>2. CASE choice.reuse # "SECOND"
      BY <1>1, <2>1, <3>2 DEF Reserve
    <3> QED
      BY <3>1, <3>2
  <2>2. ASSUME NEW r, NEW t, NEW requests, NEW crossModule, NEW kept,
               Block(r, t, requests, crossModule, kept)
        PROVE  UNCHANGED windows
    BY <2>2 DEF Block, runtimeVars
  <2>3. UNCHANGED replaced
    BY <1>4, OccupancyFrame DEF recoveryFiles
  <2> QED
    BY <1>1, <1>2, <1>4, <2>1, <2>2, <2>3 DEF OccupancyNext
<1>5. CASE DispatchNext
  <2>1. ASSUME NEW d \in Dispatches, NEW w \in Windows, NEW kept, Confirm(d, w, kept)
        PROVE  \A x \in Windows : WindowStep(x)
    <3> DEFINE p == plans[d]
    <3>1. p.task \in Tasks /\ p.review \in Reviews /\ p.reuse \in Reuses
      BY <2>1 DEF Confirm, TypeInv, TypeOK, FilesTypeOK, Plans
    <3>2. /\ windows' = [windows EXCEPT ![w] = ConfirmedWindow(w, p.task, p.reuse)]
          /\ status[p.task] = "READY"
          /\ DirectionReady(p.task)
          /\ p.reuse = "NEW" => windows[w] = None
          /\ p.reuse # "NEW" => windows[w] # None
          /\ p.reuse = "CURRENT" => CurrentTask(w) = p.task
          /\ p.reuse = "SECOND" => ReadyForSecond(w, p.task, p.review)
      BY <2>1 DEF Confirm, PlannedWindow, Registered
    <3> HIDE DEF p
    <3>3. ConfirmedWindow(w, p.task, "NEW") = NewWindow(p.task, TRUE)
      BY DEF ConfirmedWindow
    <3>4. WindowStep(w)
      BY <3>1, <3>2, <3>3 DEF WindowStep, Reuses
    <3> QED
      BY <3>2, <3>4 DEF WindowStep
  <2>2. UNCHANGED windows \/ \E d \in Dispatches, w \in Windows, kept \in Keeping : Confirm(d, w, kept)
    BY <1>5 DEF DispatchNext, Prepare, PrepareAppend, ConfirmAppend, RecordReturn,
       RecordQualityReview, ledgerVars, runtimeVars
  <2>3. UNCHANGED replaced
    BY <1>5, DispatchFrame DEF recoveryFiles
  <2> QED
    BY <1>1, <1>2, <2>1, <2>2, <2>3
<1>6. CASE AssessNext \/ SupersedingNext \/ ClosingNext
  <2>1. ASSUME NEW v \in Validations, NEW kept, Approve(v, kept)
        PROVE  \A x \in Windows : WindowStep(x)
    <3> DEFINE w == decisions[v].window
    <3>1. w \in Windows /\ decisions[v].task \in Tasks
      BY <2>1 DEF Approve, TypeInv, TypeOK, FilesTypeOK, ValidationDecisions
    <3>2. CurrentTask(w) \in Tasks /\ windows' = [windows EXCEPT ![w] = VacatedWindow(w)]
      BY <2>1, <3>1 DEF Approve, Finalizable
    <3> HIDE DEF w
    <3> QED
      BY <3>1, <3>2 DEF WindowStep
  <2>2. ASSUME NEW v, NEW t, NEW w, NEW u, NEW outcome, NEW kept, NEW s,
               \/ Assess(v, t, w, outcome, kept) \/ RecordSupersedingSignal(t, v, s)
               \/ Reject(v, kept) \/ RecordAdjudication(v) \/ ResolveConflict(t, v, u)
               \/ ReleaseDoneTask(t, v) \/ CancelUnstarted(t)
        PROVE  UNCHANGED windows
    BY <2>2 DEF Assess, RecordSupersedingSignal, Reject, RecordAdjudication, ResolveConflict,
       ReleaseDoneTask, CancelUnstarted, ledgerVars, runtimeVars
  <2>3. UNCHANGED replaced
    BY <1>6, ValidationFrame DEF recoveryFiles
  <2>4. UNCHANGED windows \/ \E v \in Validations, kept \in Keeping : Approve(v, kept)
    BY <1>6, <2>2 DEF AssessNext, SupersedingNext, ClosingNext
  <2> QED
    BY <1>1, <1>2, <2>1, <2>3, <2>4
<1>7. CASE RecoveryNext
  <2> DEFINE Goal == (\A w \in Windows : WindowStep(w)) /\ ReplacementStep
  <2>1. ASSUME NEW c \in Cases, NEW kept, NEW type \in IncidentTypes,
               NEW t \in Tasks \cup {None}, NEW target \in Windows \cup Agents \cup {None},
               Freeze(c, type, t, target, kept)
        PROVE  Goal
    <3>1. windows' = WindowsBecome(AffectedWindows(type, t, target),
                                   IF type = "CENTRAL" THEN "FROZEN" ELSE "DISCONNECTED")
      BY <2>1 DEF Freeze
    <3>2. UNCHANGED replaced /\ ValidIncident(type, t, target)
      BY <2>1 DEF Freeze
    <3> QED
      BY <1>2, <3>1, <3>2, AffectedAreRecorded, OutOfUseStep DEF OutOfUse
  <2>2. ASSUME NEW c, NEW epoch, NEW kept, Takeover(c, epoch, kept)
        PROVE  Goal
    BY <1>1, <1>2, <2>2 DEF Takeover, runtimeVars
  <2>3. ASSUME NEW c \in Cases
        PROVE  /\ incidents[c] # None => incidents[c].windows \in SUBSET Windows
               /\ incidents[c] # None => \A w \in incidents[c].windows : Registered(w)
    BY DEF TypeInv, TypeOK, FilesTypeOK, Incidents, CasesNameRecords
  <2>4. ASSUME NEW c \in Cases, NEW action, NEW kept, Decide(c, action, kept)
        PROVE  Goal
    <3>1. UNCHANGED windows \/ windows' = WindowsBecome(incidents[c].windows, "CANCELLED")
      BY <2>4 DEF Decide
    <3>2. UNCHANGED replaced /\ incidents[c] # None
      BY <2>4 DEF Decide
    <3> QED
      BY <1>1, <1>2, <2>3, <3>1, <3>2, OutOfUseStep DEF OutOfUse
  <2>5. ASSUME NEW c \in Cases, NEW v, NEW kept, Release(c, v, kept)
        PROVE  Goal
    <3>1. windows' = WindowsBecome(incidents[c].windows, "CLOSED")
      BY <2>5 DEF Release
    <3>2. UNCHANGED replaced /\ incidents[c] # None
      BY <2>5 DEF Release
    <3> QED
      BY <1>2, <2>3, <3>1, <3>2, OutOfUseStep DEF OutOfUse
  <2>6. ASSUME NEW c \in Cases, NEW epoch, NEW kept, Resume(c, epoch, kept)
        PROVE  Goal
    <3> DEFINE t == incidents[c].task
               w == incidents[c].target
    <3>1. t \in Tasks /\ w \in Windows /\ windows[w] \in WindowRecords /\ windows[w] # None
      BY <2>6, NoneIsNoRecord DEF Resume, TypeInv, TypeOK, FilesTypeOK, Incidents,
         CasesNameRecords, Registered
    <3>2. CurrentTask(w) = t
      BY <2>6, <3>1 DEF Resume, CurrentTask, Registered
    <3>3. windows' = [windows EXCEPT ![w] = ReplacedWindow(w, t)]
      BY <2>6, <3>1 DEF Resume, ReplacedWindow
    <3>4. replaced' = [replaced EXCEPT ![t] = [case |-> c, window |-> w]]
      BY <2>6 DEF Resume
    <3> HIDE DEF t, w
    <3>5. \A x \in Windows : WindowStep(x)
      BY <3>1, <3>2, <3>3 DEF WindowStep
    <3>6. ReplacementStep
      BY <3>1, <3>3, <3>4 DEF ReplacementStep, TypeInv, TypeOK, FilesTypeOK
    <3> QED
      BY <3>5, <3>6
  <2> HIDE DEF Goal
  <2>7. Goal
    BY <1>7, <2>1, <2>2, <2>4, <2>5, <2>6 DEF RecoveryNext
  <2> QED
    BY <2>7 DEF Goal
<1>8. CASE RecoveredNext
  BY <1>1, <1>2, <1>8 DEF RecoveredNext, RecordRecoveredSignal, runtimeVars, files, recoveryFiles
<1>9. CASE UNCHANGED vars
  BY <1>1, <1>2, <1>9, StuttersFrame
<1> QED
  BY <1>3, <1>4, <1>5, <1>6, <1>7, <1>8, <1>9 DEF Next

-----------------------------------------------------------------------------
(* Replaced windows. *)

\* A window nobody works in and nobody may come to: it is neither free for a
\* second task nor reserved for one.
Resting(w) ==
    /\ windows[w] # None
    /\ windows[w].current = None
    /\ windows[w].status \notin {"AVAILABLE_FOR_REUSE", "RESERVED_FOR_REUSE"}

ReplacedRest == \A t \in Tasks : replaced[t] # None => Resting(replaced[t].window)

LEMMA RestingStep ==
    ASSUME TypeInv, NEW w \in Windows, WindowStep(w), Resting(w)
    PROVE  Resting(w)'
<1>1. windows[w] \in WindowRecords
  BY DEF TypeInv, TypeOK, LedgerTypeOK, Resting
<1>2. ~ReusableWindow(w) /\ CurrentTask(w) \notin Tasks
  BY NoneIsNothing DEF Resting, ReusableWindow, CurrentTask
<1>3. \A t, r : ~ReadyForSecond(w, t, r)
  BY DEF Resting, ReadyForSecond
<1>4. windows'[w] = windows[w] \/ \E s \in OutOfUse : windows'[w] = [windows[w] EXCEPT !.status = s]
  BY <1>2, <1>3 DEF WindowStep, Resting
<1>5. CASE windows'[w] = windows[w]
  BY <1>5 DEF Resting
<1>6. ASSUME NEW s \in OutOfUse, windows'[w] = [windows[w] EXCEPT !.status = s]
      PROVE  Resting(w)'
  <2>1. [windows[w] EXCEPT !.status = s] # None
    BY <1>1, NoneIsNoRecord DEF WindowRecords, WindowStatuses, OutOfUse
  <2> QED
    BY <1>1, <1>6, <2>1 DEF Resting, OutOfUse, WindowRecords
<1> QED
  BY <1>4, <1>5, <1>6

LEMMA ReplacedRestStep ==
    ASSUME TypeInv, ReplacedRest, [Next]_vars
    PROVE  ReplacedRest'
<1>1. (\A w \in Windows : WindowStep(w)) /\ ReplacementStep
  BY WindowSteps
<1>2. ASSUME NEW t \in Tasks, NEW w \in Windows, replaced'[t] # None, replaced'[t].window = w
      PROVE  Resting(w)'
  <2>1. CASE replaced'[t] = replaced[t]
    <3>1. Resting(w)
      BY <1>2, <2>1 DEF ReplacedRest
    <3> QED
      BY <1>1, <3>1, RestingStep
  <2>2. CASE replaced'[t] # replaced[t]
    <3>1. windows[w] # None
      BY <1>1, <1>2, <2>2 DEF ReplacementStep
    <3>2. PICK u \in Tasks : windows'[w] = ReplacedWindow(w, u)
      BY <1>1, <1>2, <2>2 DEF ReplacementStep
    <3>3. windows[w] \in WindowRecords
      BY <3>1 DEF TypeInv, TypeOK, LedgerTypeOK
    <3>4. ReplacedWindow(w, u) \in WindowRecords
      BY <3>3, ReplacedWindowIsWindow
    <3>5. /\ ReplacedWindow(w, u).current = None
          /\ ReplacedWindow(w, u).status = "REPLACED_READ_ONLY"
      BY <3>3 DEF ReplacedWindow, WindowRecords
    <3> QED
      BY <3>2, <3>4, <3>5, NoneIsNoRecord DEF Resting
  <2> QED
    BY <2>1, <2>2
<1>3. ASSUME NEW t \in Tasks, replaced'[t] # None
      PROVE  replaced'[t].window \in Windows
  BY <1>3, TypeInvStep DEF TypeInv, TypeOK, FilesTypeOK, Replacements
<1> QED
  BY <1>2, <1>3 DEF ReplacedRest, Resting

\* A window once replaced never works again: not when the case is released,
\* not when a later case cuts it off or cancels it, not for a second task
\* (resume, window_ready_for_second_assignment).
THEOREM ReplacedWindowsRestAlways == Spec => []ReplacedWindowsRest
<1>1. Init => ReplacedRest
  BY DEF Init, FilesInit, ReplacedRest
<1>2. TypeInv /\ ReplacedRest /\ [Next]_vars => ReplacedRest'
  BY ReplacedRestStep
<1>3. ReplacedRest => ReplacedWindowsRest
  BY DEF ReplacedRest, Resting, ReplacedWindowsRest, CurrentTask
<1> QED
  BY <1>1, <1>2, <1>3, TypeInvAlways, PTL DEF Spec

-----------------------------------------------------------------------------
(* Two tasks at most. *)

\* The assignments h of a window whose record names task t and current task c,
\* given the standing of the tasks.
Serving(h, t, c, standing) ==
    /\ Len(h) \in 1..MaxAssignments
    /\ c # None => h[Len(h)] = [task |-> c, status |-> "ACTIVE"]
    /\ Len(h) = 1 => t = h[1].task
    /\ Len(h) = 2 => /\ h[1].status = "DONE"
                     /\ h[1].task # h[2].task
                     /\ standing[h[1].task] = "DONE"

ServingTwo == \A w \in Windows : windows[w] # None =>
                  Serving(windows[w].history, windows[w].task, windows[w].current, status)

\* What is done to the assignments, for histories of one or two of them.
LEMMA ServingIsKept ==
    ASSUME Onward, status \in [Tasks -> Statuses \cup {"ABSENT"}],
           NEW h \in Seq(Assignments), NEW t, NEW c, Serving(h, t, c, status)
    PROVE  /\ Serving(h, t, c, status')
           /\ Serving(h, t, None, status')
           /\ c # None => Serving(LastActive(h), t, c, status')
           /\ Serving(DoneAssignment(h), t, None, status')
           /\ \A u \in Tasks : Serving(ReplacedAssignments(h, u), t, None, status')
<1>1. /\ Len(h) \in {1, 2}
      /\ h[1] \in Assignments
      /\ Len(h) = 2 => h[2] \in Assignments
  BY DEF Serving, MaxAssignments
<1>2. Len(h) = 2 => status'[h[1].task] = "DONE"
  BY <1>1 DEF Serving, Onward, Terminal, Assignments
<1>3. Serving(h, t, c, status') /\ Serving(h, t, None, status')
  BY <1>2 DEF Serving
<1>4. ASSUME NEW g \in Seq(Assignments), Len(g) = Len(h),
             \A i \in 1..Len(h) : g[i].task = h[i].task,
             Len(h) = 2 => g[1].status = "DONE"
      PROVE  Serving(g, t, None, status')
  BY <1>1, <1>2, <1>4 DEF Serving, MaxAssignments
<1>5. c # None => Serving(LastActive(h), t, c, status')
  <2>1. SUFFICES ASSUME c # None PROVE Serving(LastActive(h), t, c, status')
    OBVIOUS
  <2>2. h[Len(h)].status = "ACTIVE"
    BY <2>1 DEF Serving
  <2>3. h[Len(h)] \in Assignments
    BY <1>1
  <2>4. [h[Len(h)] EXCEPT !.status = "ACTIVE"] = h[Len(h)]
    BY <2>2, <2>3 DEF Assignments
  <2>5. LastActive(h) = h
    BY <1>1, <2>4 DEF LastActive
  <2> QED
    BY <1>3, <2>5
<1>6. Serving(DoneAssignment(h), t, None, status')
  <2> DEFINE g == DoneAssignment(h)
  <2>1. g \in Seq(Assignments) /\ Len(g) = Len(h)
    <3>1. Len(h) \in Nat /\ "DONE" \in {"ACTIVE", "DONE", "DISCONNECTED_REPLACED"}
      BY <1>1
    <3>2. g = [h EXCEPT ![Len(h)].status = "DONE"]
      BY DEF DoneAssignment
    <3> HIDE DEF g
    <3> QED
      BY <3>1, <3>2, HistoryStaysTyped
  <2>2. \A i \in 1..Len(h) : g[i].task = h[i].task
    BY <1>1 DEF DoneAssignment, Assignments
  <2>3. Len(h) = 2 => g[1].status = "DONE"
    BY <1>1 DEF DoneAssignment, Serving
  <2> HIDE DEF g
  <2>4. Serving(g, t, None, status')
    BY <1>4, <2>1, <2>2, <2>3
  <2> QED
    BY <2>4 DEF g
<1>7. ASSUME NEW u \in Tasks
      PROVE  Serving(ReplacedAssignments(h, u), t, None, status')
  <2> DEFINE g == ReplacedAssignments(h, u)
  <2>1. g \in Seq(Assignments) /\ Len(g) = Len(h)
    BY ReplacedAssignmentsTyped
  <2>2. \A i \in 1..Len(h) : g[i].task = h[i].task
    BY <1>1 DEF ReplacedAssignments, Assignments
  <2>3. Len(h) = 2 => g[1].status = "DONE"
    BY <1>1 DEF ReplacedAssignments, Serving
  <2> HIDE DEF g
  <2>4. Serving(g, t, None, status')
    BY <1>4, <2>1, <2>2, <2>3
  <2> QED
    BY <2>4 DEF g
<1> QED
  BY <1>3, <1>5, <1>6, <1>7

LEMMA OneMore ==
    ASSUME NEW h \in Seq(Assignments), Len(h) = 1,
           NEW a \in Assignments, NEW b \in Assignments
    PROVE  /\ Len(Append([h EXCEPT ![1] = a], b)) = 2
           /\ Append([h EXCEPT ![1] = a], b)[1] = a
           /\ Append([h EXCEPT ![1] = a], b)[2] = b
<1>1. h = <<h[1]>>
  OBVIOUS
<1>2. [h EXCEPT ![1] = a] = <<a>>
  BY <1>1
<1>3. <<a>> \in Seq(Assignments) /\ Len(<<a>>) = 1 /\ <<a>>[1] = a
  OBVIOUS
<1>4. Append(<<a>>, b) \in Seq(Assignments) /\ Len(Append(<<a>>, b)) = 2
  BY <1>3
<1>5. Append(<<a>>, b)[1] = a /\ Append(<<a>>, b)[2] = b
  BY <1>3
<1> QED
  BY <1>2, <1>4, <1>5

LEMMA OnlyElement ==
    ASSUME NEW S, NEW h \in Seq(S), Len(h) = 1
    PROVE  h[1] \in S
<1>1. h \in [1 .. Len(h) -> S]
  BY SMT
<1> QED
  BY <1>1, SMT

\* A second task, of its own, after the first is DONE.
LEMMA SecondServing ==
    ASSUME Onward, status \in [Tasks -> Statuses \cup {"ABSENT"}],
           NEW h \in Seq(Assignments), Len(h) = 1, NEW t, t = h[1].task, status[t] = "DONE",
           NEW u \in Tasks, status[u] = "READY"
    PROVE  Serving(SecondAssignment(h, u), u, u, status')
<1>1. h[1] \in Assignments
  BY OnlyElement
<1>2. t \in Tasks /\ t # u /\ status'[t] = "DONE"
  BY <1>1 DEF Onward, Terminal, Assignments
<1> DEFINE first == [h[1] EXCEPT !.status = "DONE"]
           second == [task |-> u, status |-> "ACTIVE"]
<1>3. first.task = t /\ first.status = "DONE" /\ first \in Assignments /\ second \in Assignments
  BY <1>1 DEF Assignments
<1>4. SecondAssignment(h, u) = Append([h EXCEPT ![1] = first], second)
  BY DEF SecondAssignment
<1> HIDE DEF first, second
<1>5. /\ Len(SecondAssignment(h, u)) = 2
      /\ SecondAssignment(h, u)[1] = first
      /\ SecondAssignment(h, u)[2] = second
  BY <1>3, <1>4, OneMore
<1> USE DEF second
<1> QED
  BY <1>2, <1>3, <1>5 DEF Serving, MaxAssignments

LEMMA ServingTwoStep ==
    ASSUME TypeInv, ServingTwo, [Next]_vars
    PROVE  ServingTwo'
<1> status \in [Tasks -> Statuses \cup {"ABSENT"}]
  BY DEF TypeInv, TypeOK, LedgerTypeOK
<1>1. Onward
  BY OnwardStep
<1>2. ASSUME NEW w \in Windows, windows[w] # None
      PROVE  /\ windows[w] \in WindowRecords /\ windows[w].history \in Seq(Assignments)
             /\ Serving(windows[w].history, windows[w].task, windows[w].current, status)
  BY <1>2 DEF TypeInv, TypeOK, LedgerTypeOK, WindowRecords, ServingTwo
<1>3. ASSUME NEW w \in Windows, windows'[w] # None
      PROVE  Serving(windows'[w].history, windows'[w].task, windows'[w].current, status')
  <2> DEFINE h == windows[w].history
             t == windows[w].task
             c == windows[w].current
  <2>1. CASE windows[w] = None
    <3>1. PICK u \in Tasks, trusted \in BOOLEAN : windows'[w] = NewWindow(u, trusted)
      BY <1>3, <2>1, WindowSteps, NoneIsNothing
         DEF WindowStep, ReusableWindow, CurrentTask, Registered
    <3>2. <<[task |-> u, status |-> "ACTIVE"]>>[1] = [task |-> u, status |-> "ACTIVE"]
      OBVIOUS
    <3> QED
      BY <3>1, <3>2 DEF NewWindow, Serving, MaxAssignments
  <2>2. CASE windows[w] # None
    <3>1. h \in Seq(Assignments) /\ Serving(h, t, c, status) /\ windows[w] \in WindowRecords
      BY <1>2, <2>2
    <3>2. /\ Serving(h, t, c, status')
          /\ Serving(h, t, None, status')
          /\ c # None => Serving(LastActive(h), t, c, status')
          /\ Serving(DoneAssignment(h), t, None, status')
          /\ \A u \in Tasks : Serving(ReplacedAssignments(h, u), t, None, status')
      BY <1>1, <3>1, ServingIsKept
    <3>3. CASE windows'[w] = windows[w]
      BY <3>2, <3>3
    <3>4. CASE \E s \in OutOfUse : windows'[w] = [windows[w] EXCEPT !.status = s]
      BY <3>1, <3>2, <3>4 DEF WindowRecords
    <3>5. CASE \E u \in Tasks, r \in Reviews : windows'[w] = ReservedWindow(w, u, r)
      BY <3>1, <3>2, <3>5 DEF ReservedWindow, WindowRecords
    <3>6. CASE \E u \in Tasks : CurrentTask(w) = u /\ windows'[w] = ConfirmedWindow(w, u, "CURRENT")
      <4>1. c # None
        BY <2>2, <3>6, NoneIsNothing DEF CurrentTask, Registered
      <4>2. windows'[w] = [windows[w] EXCEPT !.history = LastActive(@)]
        BY <3>6 DEF ConfirmedWindow
      <4> QED
        BY <3>1, <3>2, <4>1, <4>2 DEF WindowRecords
    <3>7. CASE \E u \in Tasks, r \in Reviews : /\ status[u] = "READY"
                                               /\ ReadyForSecond(w, u, r)
                                               /\ windows'[w] = ConfirmedWindow(w, u, "SECOND")
      <4>1. PICK u \in Tasks, r \in Reviews : /\ status[u] = "READY"
                                              /\ ReadyForSecond(w, u, r)
                                              /\ windows'[w] = ConfirmedWindow(w, u, "SECOND")
        BY <3>7
      <4>2. Len(h) = 1 /\ status[t] = "DONE"
        BY <4>1 DEF ReadyForSecond
      <4>3. t = h[1].task
        BY <3>1, <4>2 DEF Serving
      <4>4. Serving(SecondAssignment(h, u), u, u, status')
        BY <1>1, <3>1, <4>1, <4>2, <4>3, SecondServing
      <4>5. windows'[w] = [windows[w] EXCEPT !.task = u, !.current = u, !.status = "REGISTERED",
                                             !.history = SecondAssignment(@, u),
                                             !.reserved = None, !.reservation = None]
        BY <4>1 DEF ConfirmedWindow
      <4> QED
        BY <3>1, <4>4, <4>5 DEF WindowRecords
    <3>8. CASE windows'[w] = VacatedWindow(w)
      <4>1. /\ windows'[w].history = DoneAssignment(h)
            /\ windows'[w].task = t
            /\ windows'[w].current = None
        BY <3>1, <3>8 DEF VacatedWindow, WindowRecords
      <4> QED
        BY <3>2, <4>1
    <3>9. CASE \E u \in Tasks : windows'[w] = ReplacedWindow(w, u)
      <4>1. PICK u \in Tasks : windows'[w] = ReplacedWindow(w, u)
        BY <3>9
      <4>2. /\ windows'[w].history = ReplacedAssignments(h, u)
            /\ windows'[w].task = t
            /\ windows'[w].current = None
        BY <3>1, <4>1 DEF ReplacedWindow, WindowRecords
      <4> QED
        BY <3>2, <4>2
    <3>10. WindowStep(w)
      BY WindowSteps
    <3> QED
      BY <2>2, <3>3, <3>4, <3>5, <3>6, <3>7, <3>8, <3>9, <3>10 DEF WindowStep
  <2> QED
    BY <2>1, <2>2
<1> QED
  BY <1>3 DEF ServingTwo

\* A window works on its current task as its last assignment, takes a second
\* task of its own only after its first is DONE, and never a third, whichever of
\* reviews, dispatches, approvals and recoveries come in between
\* (resolve_window, window_ready_for_second_assignment, confirm).
THEOREM WindowsServeTwoTasksAlways == Spec => []WindowsServeTwoTasks
<1>1. Init => ServingTwo
  BY DEF Init, LedgerInit, ServingTwo
<1>2. TypeInv /\ ServingTwo /\ [Next]_vars => ServingTwo'
  BY ServingTwoStep
<1>3. ServingTwo => WindowsServeTwoTasks
  BY DEF ServingTwo, Serving, WindowsServeTwoTasks, Registered
<1> QED
  BY <1>1, <1>2, <1>3, TypeInvAlways, PTL DEF Spec

-----------------------------------------------------------------------------
(* What C03 promises by itself, with the other components writing its ledger. *)

\* The gate of commit_mutation: every command passes it or has nothing to pass.
LEMMA GateStep ==
    ASSUME TypeInv, [Next]_vars
    PROVE  CommitRecovery
<1>1. ASSUME UNCHANGED ledgerVars
      PROVE  CommitRecovery
  BY <1>1 DEF ledgerVars, taskVars, runtimeVars, CommitRecovery, HeldTasksStay, NoAgentsForHeldTasks
<1>2. CASE LedgerNext
  BY <1>2 DEF LedgerNext, AddTask, TransitionTask, RecordCompletionSignal, RecordCorrection,
     VerifyCorrection, RecordWait, ResolveWait, ReconcileOutline, RegisterWindow, ImportOutline,
     ReviseOutline, RegisterSubAgent, ClaimObject, Commit
<1>3. CASE OccupancyNext
  <2>1. ASSUME NEW r, NEW t, NEW requests, NEW choice, NEW kept,
               Reserve(r, t, requests, choice, kept)
        PROVE  CommitRecovery
    BY <2>1 DEF Reserve, Commit
  <2>2. ASSUME NEW r, NEW t, NEW requests, NEW crossModule, NEW kept,
               Block(r, t, requests, crossModule, kept)
        PROVE  CommitRecovery
    BY <2>2 DEF Block, Commit
  <2> QED
    BY <1>3, <2>1, <2>2 DEF OccupancyNext
<1>4. CASE DispatchNext
  BY <1>1, <1>4 DEF DispatchNext, Prepare, Confirm, PrepareAppend, ConfirmAppend, RecordReturn,
     RecordQualityReview, Commit
<1>5. CASE AssessNext \/ SupersedingNext \/ ClosingNext
  <2>1. ASSUME NEW v, NEW t, NEW w, NEW outcome, NEW kept, NEW s,
               \/ Assess(v, t, w, outcome, kept) \/ RecordSupersedingSignal(t, v, s)
        PROVE  CommitRecovery
    BY <2>1 DEF Assess, RecordSupersedingSignal, CommitValidation, Commit
  <2>2. ASSUME NEW v, NEW kept, Approve(v, kept)
        PROVE  CommitRecovery
    BY <2>2 DEF Approve, CommitValidation, Commit
  <2>3. ASSUME NEW v, NEW t, NEW u, NEW kept,
               \/ Reject(v, kept) \/ RecordAdjudication(v) \/ ResolveConflict(t, v, u)
               \/ ReleaseDoneTask(t, v) \/ CancelUnstarted(t)
        PROVE  CommitRecovery
    BY <2>3 DEF Reject, RecordAdjudication, ResolveConflict, ReleaseDoneTask, CancelUnstarted,
       CommitValidation, Commit
  <2> QED
    BY <1>5, <2>1, <2>2, <2>3 DEF AssessNext, SupersedingNext, ClosingNext
<1>6. CASE RecoveryNext \/ RecoveredNext
  <2>1. ASSUME NEW c, NEW kept, NEW type, NEW t, NEW target, Freeze(c, type, t, target, kept)
        PROVE  CommitRecovery
    BY <2>1 DEF Freeze
  <2>2. ASSUME NEW c, NEW kept, NEW epoch, NEW action, NEW v,
               \/ Takeover(c, epoch, kept) \/ Decide(c, action, kept)
               \/ Resume(c, epoch, kept) \/ Release(c, v, kept)
        PROVE  CommitRecovery
    BY <2>2 DEF Takeover, Decide, Resume, Release
  <2>3. ASSUME NEW c, NEW t, NEW w, NEW s, RecordRecoveredSignal(c, t, w, s)
        PROVE  CommitRecovery
    BY <2>3 DEF RecordRecoveredSignal
  <2> QED
    BY <1>6, <2>1, <2>2, <2>3 DEF RecoveryNext, RecoveredNext
<1>7. CASE UNCHANGED vars
  BY <1>1, <1>7 DEF vars
<1> QED
  BY <1>2, <1>3, <1>4, <1>5, <1>6, <1>7 DEF Next

\* Who works in a window worked in it before, or is a task that nothing holds.
LEMMA WorkersStep ==
    ASSUME TypeInv, NEW w \in Windows, WindowStep(w), CurrentTask(w)' # None
    PROVE  CurrentTask(w)' = CurrentTask(w) \/ DirectionReady(CurrentTask(w)')
<1>1. windows[w] # None => windows[w] \in WindowRecords
  BY DEF TypeInv, TypeOK, LedgerTypeOK
<1>2. windows'[w] # None /\ windows'[w].current # None /\ CurrentTask(w)' = windows'[w].current
  BY DEF CurrentTask, Registered
<1>3. CASE windows'[w] = windows[w]
  BY <1>3 DEF CurrentTask, Registered
<1>4. CASE windows[w] = None /\ \E t \in Tasks, trusted \in BOOLEAN :
               DirectionReady(t) /\ windows'[w] = NewWindow(t, trusted)
  BY <1>2, <1>4 DEF NewWindow
<1>5. CASE windows[w] # None /\ \E s \in OutOfUse : windows'[w] = [windows[w] EXCEPT !.status = s]
  <2>1. windows'[w].current = windows[w].current
    BY <1>1, <1>5 DEF WindowRecords
  <2> QED
    BY <1>2, <1>5, <2>1 DEF CurrentTask, Registered
<1>6. CASE /\ ReusableWindow(w)
           /\ \E t \in Tasks, r \in Reviews : windows'[w] = ReservedWindow(w, t, r)
  BY <1>1, <1>2, <1>6 DEF ReusableWindow, Registered, ReservedWindow, WindowRecords
<1>7. CASE \E t \in Tasks : CurrentTask(w) = t /\ windows'[w] = ConfirmedWindow(w, t, "CURRENT")
  <2>1. windows[w] # None
    BY <1>7, NoneIsNothing DEF CurrentTask, Registered
  <2>2. windows'[w].current = windows[w].current
    BY <1>1, <1>7, <2>1 DEF ConfirmedWindow, WindowRecords
  <2> QED
    BY <1>2, <2>1, <2>2 DEF CurrentTask, Registered
<1>8. CASE windows[w] # None /\ \E t \in Tasks, r \in Reviews :
               /\ status[t] = "READY"
               /\ DirectionReady(t)
               /\ ReadyForSecond(w, t, r)
               /\ windows'[w] = ConfirmedWindow(w, t, "SECOND")
  BY <1>1, <1>2, <1>8 DEF ConfirmedWindow, WindowRecords
<1>9. CASE CurrentTask(w) \in Tasks /\ windows'[w] = VacatedWindow(w)
  BY <1>1, <1>2, <1>9, NoneIsNothing DEF CurrentTask, Registered, VacatedWindow, WindowRecords
<1>10. CASE CurrentTask(w) \in Tasks /\ \E t \in Tasks : windows'[w] = ReplacedWindow(w, t)
  BY <1>1, <1>2, <1>10, NoneIsNothing DEF CurrentTask, Registered, ReplacedWindow, WindowRecords
<1> QED
  BY <1>3, <1>4, <1>5, <1>6, <1>7, <1>8, <1>9, <1>10 DEF WindowStep

LEMMA GovernedHeldStep ==
    ASSUME TypeInv, [Next]_vars, NEW t \in Tasks, ~DirectionReady(t)
    PROVE  GainsNothing(t)
<1>1. status'[t] # status[t] => status'[t] \notin Advancing
  BY GateStep DEF CommitRecovery, HeldTasksStay
<1>2. ASSUME NEW w \in Windows, CurrentTask(w)' = t
      PROVE  CurrentTask(w) = t
  BY <1>2, WindowSteps, WorkersStep, NoneIsNothing
<1>3. ASSUME NEW a \in Agents, agents[a] = None, agents'[a] # None
      PROVE  CurrentTask(agents[a].window)' # t
  BY <1>3, GateStep, NoneIsNothing
     DEF CommitRecovery, NoAgentsForHeldTasks, CurrentTask, Registered
<1>4. ASSUME NEW o \in Objects, NEW c \in claims'[o] \ claims[o], c.intent = "WRITE"
      PROVE  TaskOf(c.owner)' # t
  <2>1. CASE Declared
    BY <1>4, <2>1, NoneIsNothing DEF Declared
  <2>2. ASSUME NEW r, NEW u \in Tasks, NEW requests, NEW choice, NEW kept,
               Reserve(r, u, requests, choice, kept)
        PROVE  TaskOf(c.owner)' # t
    <3>1. claims'[o] =
              claims[o] \cup {p.claim : p \in {x \in {Reservation(u, r, q) : q \in requests} :
                                              x.object = o}}
      BY <2>2 DEF Reserve
    <3>2. c.owner = u
      BY <1>4, <3>1 DEF Reservation
    <3>3. u # t
      BY <2>2 DEF Reserve, Reviewable
    <3> QED
      BY <3>2, <3>3 DEF TaskOf
  <2> QED
    BY <2>1, <2>2, DeclaredOrReserved
<1> QED
  BY <1>1, <1>2, <1>3, <1>4 DEF GainsNothing

\* A task held by a correction, a wait or an outline change gains nothing from
\* any command of any component: not from a review or a plan made before it was
\* held, not from the approval of what it handed back, not from the recovery of
\* its window (commit_mutation, confirm, finalize, resume).
THEOREM GovernedHeldTaskGainsNothing == Spec => HeldTaskGainsNothing
<1>1. TypeInv /\ [Next]_vars =>
          [\A t \in Tasks : Known(t) /\ ~DirectionReady(t) => GainsNothing(t)]_ledgerVars
  BY GovernedHeldStep
<1> QED
  BY <1>1, TypeInvAlways, PTL DEF Spec, HeldTaskGainsNothing

\* A task no one has registered has no contract; no command unregisters one.
AbsentAreUncontracted == \A t \in Tasks : status[t] = "ABSENT" => registered[t] = None

GovernedInv == TypeInv /\ IInv /\ AbsentAreUncontracted

\* What the other components leave alone of what C03 rests on.
Kept ==
    /\ UNCHANGED <<directionVars, outlineVars>>
    /\ \A t \in Tasks : status'[t] = "ABSENT" => status[t] = "ABSENT"
    /\ \A o \in Objects : ObjectStop(o) \in stops => ObjectStop(o) \in stops'

LEMMA ElsewhereStep ==
    ASSUME TypeInv, [Next]_vars, ~LedgerNext
    PROVE  Kept
<1> status \in [Tasks -> Statuses \cup {"ABSENT"}]
  BY DEF TypeInv, TypeOK, LedgerTypeOK
<1>1. CASE OccupancyNext
  <2>1. ASSUME NEW r, NEW t, NEW requests, NEW choice, NEW kept,
               Reserve(r, t, requests, choice, kept)
        PROVE  Kept
    BY <2>1 DEF Kept, Reserve
  <2>2. ASSUME NEW r, NEW t, NEW requests, NEW crossModule, NEW kept,
               Block(r, t, requests, crossModule, kept)
        PROVE  Kept
    BY <2>2 DEF Kept, Block
  <2> QED
    BY <1>1, <2>1, <2>2 DEF OccupancyNext
<1>2. CASE DispatchNext
  <2>1. ASSUME NEW d, NEW w, NEW kept, Confirm(d, w, kept)
        PROVE  Kept
    BY <2>1 DEF Kept, Confirm, occupancyVars
  <2>2. ASSUME NEW d, NEW r, NEW as, NEW p, NEW kept, NEW a,
               \/ Prepare(d, r, as) \/ PrepareAppend(p, d, as) \/ RecordQualityReview(d)
               \/ ConfirmAppend(p, kept) \/ RecordReturn(a)
        PROVE  Kept
    BY <2>2 DEF Kept, Prepare, PrepareAppend, RecordQualityReview, ConfirmAppend, RecordReturn,
       ledgerVars, taskVars, occupancyVars
  <2> QED
    BY <1>2, <2>1, <2>2 DEF DispatchNext
<1>3. CASE AssessNext \/ SupersedingNext \/ ClosingNext
  <2>1. ASSUME NEW v, NEW t, NEW w, NEW outcome \in AssessedOutcomes, NEW kept,
               Assess(v, t, w, outcome, kept)
        PROVE  Kept
    BY <2>1 DEF Kept, Assess, StatusAfter, AssessedOutcomes
  <2>2. ASSUME NEW v, NEW kept, Approve(v, kept)
        PROVE  Kept
    BY <2>2 DEF Kept, Approve, occupancyVars
  <2>3. ASSUME NEW t, NEW v, NEW u, ResolveConflict(t, v, u)
        PROVE  Kept
    BY <2>3 DEF Kept, ResolveConflict, taskVars, ObjectStop, ValidationStop
  <2>4. ASSUME NEW v, NEW t, NEW kept, NEW s,
               \/ RecordSupersedingSignal(t, v, s) \/ Reject(v, kept) \/ RecordAdjudication(v)
               \/ ReleaseDoneTask(t, v) \/ CancelUnstarted(t)
        PROVE  Kept
    BY <2>4 DEF Kept, RecordSupersedingSignal, Reject, RecordAdjudication, ReleaseDoneTask,
       CancelUnstarted, ledgerVars, taskVars, occupancyVars
  <2> QED
    BY <1>3, <2>1, <2>2, <2>3, <2>4 DEF AssessNext, SupersedingNext, ClosingNext
<1>4. CASE RecoveryNext
  <2>1. ASSUME NEW c, NEW kept, NEW type, NEW t, NEW target, Freeze(c, type, t, target, kept)
        PROVE  Kept
    BY <2>1 DEF Kept, Freeze, BlockedTask, occupancyVars
  <2>2. ASSUME NEW c, NEW kept, NEW epoch, NEW action,
               Takeover(c, epoch, kept) \/ Decide(c, action, kept) \/ Resume(c, epoch, kept)
        PROVE  Kept
    BY <2>2 DEF Kept, Takeover, Decide, Resume, taskVars, occupancyVars
  <2>3. ASSUME NEW c, NEW kept, NEW v, Release(c, v, kept)
        PROVE  Kept
    BY <2>3 DEF Kept, Release, taskVars
  <2> QED
    BY <1>4, <2>1, <2>2, <2>3 DEF RecoveryNext
<1>5. CASE RecoveredNext
  BY <1>5 DEF Kept, RecoveredNext, RecordRecoveredSignal, occupancyVars
<1>6. CASE UNCHANGED vars
  BY <1>6 DEF Kept, vars, ledgerVars, taskVars, occupancyVars
<1> QED
  BY <1>1, <1>2, <1>3, <1>4, <1>5, <1>6 DEF Next

\* An object shared with a writer comes with its stop: a declared claim brings
\* the stop along, and C05 reserves only what conflicts with nothing.
LEMMA SharedWritesStep ==
    ASSUME TypeInv, SharedWritesAreStopped, [Next]_vars, Kept
    PROVE  SharedWritesAreStopped'
<1> claims \in [Objects -> SUBSET Claims]
  BY DEF TypeInv, TypeOK, LedgerTypeOK
<1>1. SUFFICES ASSUME NEW o \in Objects, NEW c \in claims'[o], NEW d \in claims'[o],
                      c.owner # d.owner, c.intent = "WRITE"
               PROVE  ObjectStop(o) \in stops'
  BY DEF SharedWritesAreStopped, ObjectStop
<1>2. CASE c \in claims[o] /\ d \in claims[o]
  BY <1>1, <1>2 DEF SharedWritesAreStopped, Kept
<1>3. CASE Declared
  BY <1>1, <1>2, <1>3 DEF Declared
<1>4. ASSUME NEW r \in Reviews, NEW t \in Tasks, NEW requests, NEW choice, NEW kept,
             Reserve(r, t, requests, choice, kept)
      PROVE  c \in claims[o] /\ d \in claims[o]
  <2> DEFINE asked == {Reservation(t, r, q) : q \in requests}
             Place(x) == [object |-> o, claim |-> x]
  <2>1. claims'[o] = claims[o] \cup {p.claim : p \in {x \in asked : x.object = o}}
    BY <1>4 DEF Reserve
  <2>2. \A p \in asked : p.claim.owner = t /\ p = [object |-> p.object, claim |-> p.claim]
    BY DEF Reservation
  <2>3. \A p \in asked, q \in AllClaims : ~ClaimsConflict(p, q)
    BY <1>4 DEF Reserve, RequestsConflict
  <2> HIDE DEF asked
  <2>4. ASSUME NEW x \in claims'[o], x \notin claims[o]
        PROVE  Place(x) \in asked /\ x.owner = t
    <3>1. PICK p \in asked : p.object = o /\ x = p.claim
      BY <2>1, <2>4
    <3> QED
      BY <2>2, <3>1
  <2>5. ASSUME NEW x \in claims[o]
        PROVE  Place(x) \in AllClaims
    BY <2>5 DEF AllClaims
  <2>6. c \in claims[o] \/ d \in claims[o]
    <3>1. c \notin claims[o] => c.owner = t
      BY <2>4
    <3>2. d \notin claims[o] => d.owner = t
      BY <2>4
    <3> QED
      BY <1>1, <3>1, <3>2
  <2>7. ASSUME NEW x \in claims'[o], NEW y \in claims[o], x \notin claims[o],
               x.intent = "WRITE" \/ y.intent = "WRITE"
        PROVE  FALSE
    <3>1. ~ClaimsConflict(Place(x), Place(y))
      BY <2>3, <2>4, <2>5, <2>7
    <3> QED
      BY <2>7, <3>1 DEF ClaimsConflict
  <2> QED
    BY <1>1, <2>6, <2>7
<1> QED
  BY <1>2, <1>3, <1>4, DeclaredOrReserved

LEMMA GovernedStep == GovernedInv /\ [Next]_vars => GovernedInv'
<1> SUFFICES ASSUME GovernedInv, [Next]_vars PROVE GovernedInv'
  OBVIOUS
<1>1. TypeInv' /\ LedgerTypeOK'
  BY TypeInvStep DEF GovernedInv, TypeInv, TypeOK
<1>2. CASE LedgerNext
  <2>1. IInv'
    BY <1>2, IndStep DEF GovernedInv
  <2>2. AbsentAreUncontracted'
    <3>1. ASSUME NEW t \in Tasks, NEW os, AddTask(t, os)
          PROVE  AbsentAreUncontracted'
      BY <3>1 DEF AddTask, AbsentAreUncontracted, GovernedInv, IInv, LedgerTypeOK
    <3>2. ASSUME NEW t \in Tasks, NEW to \in Statuses, TransitionTask(t, to)
          PROVE  AbsentAreUncontracted'
      BY <3>2 DEF TransitionTask, AbsentAreUncontracted, GovernedInv, IInv, LedgerTypeOK,
         outlineVars, Statuses, Transitions
    <3>3. ASSUME NEW t \in Tasks, NEW s, RecordCompletionSignal(t, s)
          PROVE  AbsentAreUncontracted'
      BY <3>3 DEF RecordCompletionSignal, AbsentAreUncontracted, GovernedInv, IInv, LedgerTypeOK,
         outlineVars
    <3>4. ASSUME UNCHANGED <<status, registered>>
          PROVE  AbsentAreUncontracted'
      BY <3>4 DEF GovernedInv, AbsentAreUncontracted
    <3> QED
      BY <1>2, <3>1, <3>2, <3>3, <3>4 DEF LedgerNext, RecordCorrection, VerifyCorrection,
         RecordWait, ResolveWait, ReconcileOutline, RegisterWindow, ImportOutline, ReviseOutline,
         RegisterSubAgent, ClaimObject, taskVars, outlineVars
  <2> QED
    BY <1>1, <2>1, <2>2 DEF GovernedInv
<1>3. CASE ~LedgerNext
  <2>1. Kept
    BY <1>3, ElsewhereStep DEF GovernedInv
  <2>2. UNCHANGED <<corrections, verifications, impacts, contract, outcomes, registered>>
    BY <2>1 DEF Kept, directionVars, outlineVars
  <2>3. VerificationsAreOfCorrections' /\ RegisteredUnderContracts' /\ AbsentAreUncontracted'
    BY <2>1, <2>2 DEF Kept, GovernedInv, IInv, VerificationsAreOfCorrections,
       RegisteredUnderContracts, AbsentAreUncontracted
  <2>4. SharedWritesAreStopped'
    BY <2>1, SharedWritesStep DEF GovernedInv, IInv
  <2>5. \A t \in Tasks : status[t] \in Terminal => status'[t] = status[t]
    BY OnwardStep DEF Onward, GovernedInv
  <2>6. UnheldTasksAreCurrent'
    BY <2>2, <2>5 DEF UnheldTasksAreCurrent, GovernedInv, IInv, AbsentAreUncontracted
  <2> QED
    BY <1>1, <2>3, <2>4, <2>6 DEF GovernedInv, IInv
<1> QED
  BY <1>2, <1>3

LEMMA GovernedInvAlways == Spec => []GovernedInv
<1>1. Init => GovernedInv
  BY TypeInvInit, IndInit DEF Init, LedgerInit, GovernedInv, AbsentAreUncontracted
<1> QED
  BY <1>1, GovernedStep, PTL DEF Spec

\* Whoever shares an object with a writer does so under the stop that names it,
\* with reservations beside the declarations and with conflicts resolved, tasks
\* approved and cases released in between (claim_object, check_occupancy,
\* resolve_c06_validation_conflict).
THEOREM GovernedSharedWritesAreStopped == Spec => []SharedWritesAreStopped
<1>1. GovernedInv => SharedWritesAreStopped
  BY DEF GovernedInv, IInv
<1> QED
  BY GovernedInvAlways, <1>1, PTL

\* A task free to go on delivers what the outline in force asks for, also one
\* that C05 made READY, C10 set to work and C08 blocked and set going again
\* since its contract was revised (revise-outline).
THEOREM GovernedUnheldTasksAreCurrent == Spec => []UnheldTasksAreCurrent
<1>1. GovernedInv => UnheldTasksAreCurrent
  BY DEF GovernedInv, IInv
<1> QED
  BY GovernedInvAlways, <1>1, PTL

\* A new correction holds its task whichever components run, and nobody but C03
\* makes one (record_correction, direction_hold).
THEOREM GovernedOldVerificationsDoNotFree == Spec => OldVerificationsDoNotFree
<1>1. ASSUME GovernedInv, [Next]_vars
      PROVE  \A t \in Tasks :
                 corrections'[t] # corrections[t] =>
                     /\ corrections'[t] = corrections[t] + 1
                     /\ DirectionHold(t)'
  <2>1. CASE LedgerNext
    BY <1>1, <2>1, CorrectionStep DEF GovernedInv
  <2>2. CASE ~LedgerNext
    BY <1>1, <2>2, ElsewhereStep DEF Kept, GovernedInv, directionVars
  <2> QED
    BY <2>1, <2>2
<1>2. GovernedInv /\ [Next]_vars =>
          [\A t \in Tasks :
              corrections'[t] # corrections[t] =>
                  /\ corrections'[t] = corrections[t] + 1
                  /\ DirectionHold(t)']_ledgerVars
  BY <1>1
<1> QED
  BY GovernedInvAlways, <1>2, PTL DEF Spec, OldVerificationsDoNotFree
=============================================================================

---------------------------- MODULE LedgerProofs -----------------------------
(***************************************************************************)
(* What C03's operations promise for any number of tasks, windows, agents, *)
(* objects, contracts and corrections.  Everything rests on one inductive  *)
(* invariant, whose parts beyond the types say what the handlers never     *)
(* write down: verifications are of corrections that were made, an object  *)
(* shared with a writer comes with its stop, and a task registered under a *)
(* contract is either current or has been told.  SafetyProofs carries it   *)
(* over to the composed system.                                            *)
(***************************************************************************)
EXTENDS Ledger, TLAPS

VerificationsAreOfCorrections ==
    \A t \in Tasks : \A r \in verifications[t] : r <= corrections[t]

RegisteredUnderContracts ==
    \A t \in Tasks : registered[t] # None => contract # None

IInv ==
    /\ LedgerTypeOK
    /\ VerificationsAreOfCorrections
    /\ SharedWritesAreStopped
    /\ RegisteredUnderContracts
    /\ UnheldTasksAreCurrent

-----------------------------------------------------------------------------
(* The state right after C03 was initialized. *)

LEMMA TypeInit == LedgerInit => LedgerTypeOK
BY BoundsAreNumbers DEF LedgerInit, LedgerTypeOK, Statuses, Transitions, RecoveryRecords, Frozen

LEMMA IndInit == LedgerInit => IInv
BY TypeInit DEF LedgerInit, IInv, VerificationsAreOfCorrections, SharedWritesAreStopped,
   RegisteredUnderContracts, UnheldTasksAreCurrent

-----------------------------------------------------------------------------
(* Types. *)

\* A window that is registered now has one assignment, which is active.
LEMMA NewWindowIsWindow ==
    ASSUME NEW t \in Tasks, NEW trusted \in BOOLEAN
    PROVE  NewWindow(t, trusted) \in WindowRecords
<1>1. [task |-> t, status |-> "ACTIVE"] \in Assignments
  BY DEF Assignments
<1>2. <<[task |-> t, status |-> "ACTIVE"]>> \in Seq(Assignments)
  BY <1>1
<1> QED
  BY <1>2 DEF NewWindow, WindowRecords, WindowStatuses

LEMMA TypeStep ==
    ASSUME LedgerTypeOK, LedgerNext
    PROVE  LedgerTypeOK'
<1> USE DEF LedgerTypeOK
<1>1. ASSUME NEW t \in Tasks, NEW os \in SUBSET Outcomes, AddTask(t, os)
      PROVE  LedgerTypeOK'
  BY <1>1 DEF AddTask, Statuses, Transitions, directionVars, runtimeVars, occupancyVars
<1>2. ASSUME NEW t \in Tasks, NEW to \in Statuses, TransitionTask(t, to)
      PROVE  LedgerTypeOK'
  BY <1>2 DEF TransitionTask, directionVars, outlineVars, runtimeVars, occupancyVars
<1>3. ASSUME NEW t \in Tasks, NEW s \in Signals, RecordCompletionSignal(t, s)
      PROVE  LedgerTypeOK'
  BY <1>3 DEF RecordCompletionSignal, Statuses, Transitions, directionVars, outlineVars,
     runtimeVars, occupancyVars
<1>4. ASSUME NEW t \in Tasks, NEW r \in 0..MaxCorrections, RecordCorrection(t, r)
      PROVE  LedgerTypeOK'
  BY <1>4, BoundsAreNumbers DEF RecordCorrection, taskVars, outlineVars, runtimeVars,
     occupancyVars
<1>5. ASSUME NEW t \in Tasks, NEW r \in 0..MaxCorrections, VerifyCorrection(t, r)
      PROVE  LedgerTypeOK'
  BY <1>5, BoundsAreNumbers DEF VerifyCorrection, taskVars, outlineVars, runtimeVars,
     occupancyVars
<1>6. ASSUME NEW t \in Tasks, NEW w \in Waits,
             RecordWait(t, w) \/ \E r \in 0..MaxCorrections : ResolveWait(t, w, r)
      PROVE  LedgerTypeOK'
  <2>1. PICK v \in {"WAITING", "RESOLVED"} : waits' = [waits EXCEPT ![t][w] = v]
    BY <1>6 DEF RecordWait, ResolveWait
  <2>2. waits' \in [Tasks -> [Waits -> {"NONE", "WAITING", "RESOLVED"}]]
    BY <2>1
  <2>3. UNCHANGED <<taskVars, corrections, verifications, bindings, impacts, outlineVars,
                    runtimeVars, occupancyVars, recovery>>
    BY <1>6 DEF RecordWait, ResolveWait
  <2> QED
    BY <2>2, <2>3 DEF taskVars, outlineVars, runtimeVars, occupancyVars
<1>7. ASSUME NEW t \in Tasks, NEW i \in impacts[t], NEW rs \in SUBSET Tasks,
             ReconcileOutline(t, i, rs)
      PROVE  LedgerTypeOK'
  BY <1>7 DEF ReconcileOutline, taskVars, outlineVars, runtimeVars, occupancyVars
<1>8. ASSUME NEW t \in Tasks, NEW w \in Windows, NEW trusted \in BOOLEAN,
             RegisterWindow(w, t, trusted)
      PROVE  LedgerTypeOK'
  BY <1>8, NewWindowIsWindow DEF RegisterWindow, taskVars, directionVars, outlineVars,
     occupancyVars
<1>9. ASSUME NEW c \in Contracts, ImportOutline(c)
      PROVE  LedgerTypeOK'
  BY <1>9 DEF ImportOutline, taskVars, directionVars, runtimeVars, occupancyVars
<1>10. ASSUME NEW c \in Contracts, ReviseOutline(c)
       PROVE  LedgerTypeOK'
  <2>1. [change |-> changes + 1, contract |-> c] \in Impacts
    BY DEF Impacts
  <2> QED
    BY <1>10, <2>1 DEF ReviseOutline, taskVars, runtimeVars, occupancyVars
<1>11. ASSUME NEW a \in Agents, NEW w \in Windows, RegisterSubAgent(a, w)
       PROVE  LedgerTypeOK'
  <2>1. NewAgent(w, None, None) \in AgentRecords
    BY DEF NewAgent, AgentRecords, AgentStatuses, ActiveAgent
  <2> QED
    BY <1>11, <2>1 DEF RegisterSubAgent, taskVars, directionVars, outlineVars, occupancyVars
<1>12. ASSUME NEW o \in Objects, NEW x \in Owners, NEW intent \in {"READ", "WRITE"},
              ClaimObject(o, x, intent)
       PROVE  LedgerTypeOK'
  <2>1. [owner |-> x, intent |-> intent, key |-> o, exclusive |-> FALSE, review |-> None]
            \in Claims
    BY DEF Claims
  <2>2. ObjectStop(o) \in Stops
    BY DEF Stops
  <2> QED
    BY <1>12, <2>1, <2>2 DEF ClaimObject, taskVars, directionVars, outlineVars, runtimeVars
<1> QED
  BY <1>1, <1>2, <1>3, <1>4, <1>5, <1>6, <1>7, <1>8, <1>9, <1>10, <1>11, <1>12 DEF LedgerNext

\* The partitions of the ledger keep their types under all of C03's operations.
THEOREM TypeCorrect == LedgerSpec => []LedgerTypeOK
<1>1. LedgerTypeOK /\ [LedgerNext]_ledgerVars => LedgerTypeOK'
  <2>1. CASE UNCHANGED ledgerVars
    BY <2>1 DEF ledgerVars, taskVars, directionVars, outlineVars, runtimeVars, occupancyVars,
       LedgerTypeOK
  <2> QED
    BY <2>1, TypeStep
<1> QED
  BY TypeInit, <1>1, PTL DEF LedgerSpec

-----------------------------------------------------------------------------
(* The other parts of the invariant, each disturbed by a few operations. *)

LEMMA VerificationsStep ==
    ASSUME IInv, LedgerNext
    PROVE  VerificationsAreOfCorrections'
<1> USE DEF IInv, LedgerTypeOK, VerificationsAreOfCorrections
<1>1. ASSUME UNCHANGED <<corrections, verifications>>
      PROVE  VerificationsAreOfCorrections'
  BY <1>1
<1>2. ASSUME NEW t \in Tasks, NEW r \in 0..MaxCorrections, RecordCorrection(t, r)
      PROVE  VerificationsAreOfCorrections'
  BY <1>2 DEF RecordCorrection
<1>3. ASSUME NEW t \in Tasks, NEW r \in 0..MaxCorrections, VerifyCorrection(t, r)
      PROVE  VerificationsAreOfCorrections'
  BY <1>3, BoundsAreNumbers DEF VerifyCorrection, ProvesLatest
<1> QED
  BY <1>1, <1>2, <1>3 DEF LedgerNext, AddTask, TransitionTask, RecordCompletionSignal,
     RecordWait, ResolveWait, ReconcileOutline, RegisterWindow, ImportOutline, ReviseOutline,
     RegisterSubAgent, ClaimObject, directionVars

LEMMA ClaimsStep ==
    ASSUME IInv, LedgerNext
    PROVE  SharedWritesAreStopped'
<1> USE DEF IInv, LedgerTypeOK, SharedWritesAreStopped
<1>1. ASSUME UNCHANGED occupancyVars
      PROVE  SharedWritesAreStopped'
  BY <1>1 DEF occupancyVars, ObjectStop
<1>2. ASSUME NEW o \in Objects, NEW x \in Owners, NEW intent \in {"READ", "WRITE"},
             ClaimObject(o, x, intent)
      PROVE  SharedWritesAreStopped'
  <2>1. PICK c : claims' = [claims EXCEPT ![o] = @ \cup {c}]
    BY <1>2 DEF ClaimObject
  <2>2. stops \subseteq stops' /\ (claims[o] # {} => ObjectStop(o) \in stops')
    BY <1>2 DEF ClaimObject
  <2> QED
    BY <2>1, <2>2
<1> QED
  BY <1>1, <1>2 DEF LedgerNext, AddTask, TransitionTask, RecordCompletionSignal,
     RecordCorrection, VerifyCorrection, RecordWait, ResolveWait, ReconcileOutline,
     RegisterWindow, ImportOutline, ReviseOutline, RegisterSubAgent

\* What every operation but three leaves alone of a task's standing with the outline.
OutlineStands ==
    /\ UNCHANGED outlineVars
    /\ UNCHANGED impacts
    /\ \A t \in Tasks : status'[t] # status[t] => status[t] \notin Terminal \cup {"ABSENT"}

LEMMA OutlineStep ==
    ASSUME IInv, LedgerNext
    PROVE  RegisteredUnderContracts' /\ UnheldTasksAreCurrent'
<1> USE DEF IInv, LedgerTypeOK, RegisteredUnderContracts, UnheldTasksAreCurrent
<1>1. ASSUME OutlineStands
      PROVE  RegisteredUnderContracts' /\ UnheldTasksAreCurrent'
  BY <1>1 DEF OutlineStands, outlineVars
<1>2. ASSUME NEW t \in Tasks, NEW os \in SUBSET Outcomes, AddTask(t, os)
      PROVE  RegisteredUnderContracts' /\ UnheldTasksAreCurrent'
  BY <1>2, NoneIsNothing DEF AddTask, directionVars, Known
<1>3. ASSUME NEW t \in Tasks, NEW i \in impacts[t], NEW rs \in SUBSET Tasks,
             ReconcileOutline(t, i, rs)
      PROVE  RegisteredUnderContracts' /\ UnheldTasksAreCurrent'
  BY <1>3 DEF ReconcileOutline, taskVars, outlineVars
<1>4. ASSUME NEW c \in Contracts, ImportOutline(c)
      PROVE  RegisteredUnderContracts' /\ UnheldTasksAreCurrent'
  BY <1>4, NoneIsNothing DEF ImportOutline, taskVars, directionVars
<1>5. ASSUME NEW c \in Contracts, ReviseOutline(c)
      PROVE  RegisteredUnderContracts' /\ UnheldTasksAreCurrent'
  <2>1. RegisteredUnderContracts'
    BY <1>5, NoneIsNothing DEF ReviseOutline
  <2>2. ASSUME NEW t \in Tasks, (impacts[t] = {})'
        PROVE  impacts[t] = {} /\ outcomes[t] \cap ChangedOutcomes(contract, c) = {}
    BY <1>5, <2>2 DEF ReviseOutline
  <2>3. UNCHANGED <<status, outcomes, registered>> /\ contract' = c
    BY <1>5 DEF ReviseOutline, taskVars
  <2>4. UnheldTasksAreCurrent'
    <3>1. SUFFICES ASSUME NEW t \in Tasks, status[t] \notin Terminal \cup {"ABSENT"},
                          (impacts[t] = {})', registered[t] # None, NEW o \in outcomes[t]
                   PROVE  registered[t].scope[o] = c.scope[o]
      BY <2>3
    <3>2. registered[t].scope[o] = contract.scope[o]
      BY <2>2, <3>1
    <3>3. contract.scope[o] = c.scope[o]
      BY <2>2, <3>1 DEF ChangedOutcomes
    <3> QED
      BY <3>2, <3>3
  <2> QED
    BY <2>1, <2>4
<1>6. ASSUME NEW t \in Tasks, NEW to \in Statuses, TransitionTask(t, to)
      PROVE  OutlineStands
  BY <1>6 DEF TransitionTask, OutlineStands, directionVars, Transitions, Terminal, Known
<1>7. ASSUME NEW t \in Tasks, NEW s \in Signals, RecordCompletionSignal(t, s)
      PROVE  OutlineStands
  BY <1>7 DEF RecordCompletionSignal, OutlineStands, directionVars, Terminal
<1>8. ASSUME UNCHANGED <<status, impacts, outlineVars>>
      PROVE  OutlineStands
  BY <1>8 DEF OutlineStands
<1> QED
  BY <1>1, <1>2, <1>3, <1>4, <1>5, <1>6, <1>7, <1>8 DEF LedgerNext, RecordCorrection,
     VerifyCorrection, RecordWait, ResolveWait, RegisterWindow, RegisterSubAgent, ClaimObject,
     taskVars, directionVars

LEMMA IndStep == IInv /\ [LedgerNext]_ledgerVars => IInv'
<1>1. SUFFICES ASSUME IInv, [LedgerNext]_ledgerVars PROVE IInv'
  OBVIOUS
<1>2. CASE LedgerNext
  BY <1>1, <1>2, TypeStep, VerificationsStep, ClaimsStep, OutlineStep DEF IInv
<1>3. CASE UNCHANGED ledgerVars
  BY <1>1, <1>3 DEF IInv, LedgerTypeOK, VerificationsAreOfCorrections, SharedWritesAreStopped,
     ObjectStop, RegisteredUnderContracts, UnheldTasksAreCurrent, ledgerVars, taskVars,
     directionVars, outlineVars, runtimeVars, occupancyVars
<1> QED
  BY <1>1, <1>2, <1>3

LEMMA Inductive == LedgerSpec => []IInv
BY IndInit, IndStep, PTL DEF LedgerSpec

-----------------------------------------------------------------------------
\* Whoever shares an object with a writer does so under the stop that names
\* the object, however many owners declare it (claim_object).
THEOREM SharedWritesAreStoppedAlways == LedgerSpec => []SharedWritesAreStopped
<1>1. IInv => SharedWritesAreStopped
  BY DEF IInv
<1> QED
  BY Inductive, <1>1, PTL

\* A task that nothing holds delivers what the outline in force asks for, after
\* any number of revisions (import_outline, changed_outcomes).
THEOREM UnheldTasksAreCurrentAlways == LedgerSpec => []UnheldTasksAreCurrent
<1>1. IInv => UnheldTasksAreCurrent
  BY DEF IInv
<1> QED
  BY Inductive, <1>1, PTL

-----------------------------------------------------------------------------
(* What a step may never do. *)

\* No operation of C03 brings a finished or a cancelled task back
\* (TASK_TRANSITIONS, add_task, record_completion_signal).
THEOREM TerminalIsFinalAlways == LedgerSpec => TerminalIsFinal
<1>1. ASSUME IInv, [LedgerNext]_ledgerVars
      PROVE  \A t \in Tasks : status[t] \in Terminal => status'[t] = status[t]
  <2> USE <1>1 DEF IInv, LedgerTypeOK, Terminal
  <2>1. ASSUME NEW t \in Tasks, NEW os \in SUBSET Outcomes, AddTask(t, os)
        PROVE  \A u \in Tasks : status[u] \in Terminal => status'[u] = status[u]
    BY <2>1 DEF AddTask, Known
  <2>2. ASSUME NEW t \in Tasks, NEW to \in Statuses, TransitionTask(t, to)
        PROVE  \A u \in Tasks : status[u] \in Terminal => status'[u] = status[u]
    BY <2>2 DEF TransitionTask, Transitions
  <2>3. ASSUME NEW t \in Tasks, NEW s \in Signals, RecordCompletionSignal(t, s)
        PROVE  \A u \in Tasks : status[u] \in Terminal => status'[u] = status[u]
    BY <2>3 DEF RecordCompletionSignal
  <2>4. ASSUME UNCHANGED status
        PROVE  \A u \in Tasks : status[u] \in Terminal => status'[u] = status[u]
    BY <2>4
  <2> QED
    BY <2>1, <2>2, <2>3, <2>4 DEF LedgerNext, RecordCorrection, VerifyCorrection, RecordWait,
       ResolveWait, ReconcileOutline, RegisterWindow, ImportOutline, ReviseOutline,
       RegisterSubAgent, ClaimObject, ledgerVars, taskVars
<1> QED
  BY Inductive, <1>1, PTL DEF TerminalIsFinal, LedgerSpec

\* A correction is one more, and no verification is of it yet.
LEMMA CorrectionStep ==
    ASSUME IInv, LedgerNext, NEW t \in Tasks, corrections'[t] # corrections[t]
    PROVE  corrections'[t] = corrections[t] + 1 /\ DirectionHold(t)'
<1> USE DEF IInv, LedgerTypeOK
<1>1. ASSUME NEW u \in Tasks, NEW r \in 0..MaxCorrections, RecordCorrection(u, r)
      PROVE  corrections'[t] = corrections[t] + 1 /\ DirectionHold(t)'
  <2>1. corrections'[t] = corrections[t] + 1 /\ verifications' = verifications
    BY <1>1 DEF RecordCorrection
  <2>2. corrections[t] + 1 \notin verifications[t]
    BY DEF VerificationsAreOfCorrections
  <2> QED
    BY <2>1, <2>2 DEF DirectionHold
<1> QED
  BY <1>1 DEF LedgerNext, AddTask, TransitionTask, RecordCompletionSignal, VerifyCorrection,
     RecordWait, ResolveWait, ReconcileOutline, RegisterWindow, ImportOutline, ReviseOutline,
     RegisterSubAgent, ClaimObject, directionVars

\* A new correction holds its task, whatever was verified before
\* (record_correction, direction_hold).
THEOREM OldVerificationsDoNotFreeAlways == LedgerSpec => OldVerificationsDoNotFree
<1>1. ASSUME IInv, [LedgerNext]_ledgerVars
      PROVE  \A t \in Tasks :
                 corrections'[t] # corrections[t] =>
                     /\ corrections'[t] = corrections[t] + 1
                     /\ DirectionHold(t)'
  BY <1>1, CorrectionStep DEF ledgerVars, directionVars
<1> QED
  BY Inductive, <1>1, PTL DEF OldVerificationsDoNotFree, LedgerSpec

\* The gate of commit_mutation, and the checks of the operations it does not
\* cover (register_window, claim_object), keep a held task from gaining.
LEMMA HeldStep ==
    ASSUME IInv, LedgerNext, NEW t \in Tasks, Known(t), ~DirectionReady(t)
    PROVE  GainsNothing(t)
<1> USE DEF IInv, LedgerTypeOK
<1>1. status'[t] # status[t] => status'[t] \notin Advancing
  BY DEF LedgerNext, AddTask, TransitionTask, RecordCompletionSignal, RecordCorrection,
     VerifyCorrection, RecordWait, ResolveWait, ReconcileOutline, RegisterWindow,
     ImportOutline, ReviseOutline, RegisterSubAgent, ClaimObject, Commit, CommitRecovery,
     HeldTasksStay
<1>2. ASSUME NEW w \in Windows, CurrentTask(w)' = t
      PROVE  CurrentTask(w) = t
  <2>1. ASSUME NEW v \in Windows, NEW u \in Tasks, NEW trusted \in BOOLEAN,
               RegisterWindow(v, u, trusted)
        PROVE  CurrentTask(w) = t
    <3>1. u # t
      BY <2>1 DEF RegisterWindow
    <3>2. v # w
      BY <1>2, <2>1, <3>1, NoneIsNothing, NewWindowIsWindow
      DEF RegisterWindow, CurrentTask, Registered, NewWindow
    <3> QED
      BY <1>2, <2>1, <3>2 DEF RegisterWindow, CurrentTask, Registered
  <2>2. CASE UNCHANGED windows
    BY <1>2, <2>2 DEF CurrentTask, Registered
  <2> QED
    BY <2>1, <2>2 DEF LedgerNext, AddTask, TransitionTask, RecordCompletionSignal,
       RecordCorrection, VerifyCorrection, RecordWait, ResolveWait, ReconcileOutline,
       ImportOutline, ReviseOutline, RegisterSubAgent, ClaimObject, runtimeVars
<1>3. ASSUME NEW a \in Agents, agents[a] = None, agents'[a] # None
      PROVE  CurrentTask(agents[a].window)' # t
  <2>1. NoAgentsForHeldTasks
    BY DEF LedgerNext, AddTask, TransitionTask, RecordCompletionSignal, RecordCorrection,
       VerifyCorrection, RecordWait, ResolveWait, ReconcileOutline, RegisterWindow,
       ImportOutline, ReviseOutline, RegisterSubAgent, ClaimObject, Commit, CommitRecovery
  <2> QED
    BY <1>3, <2>1, NoneIsNothing DEF NoAgentsForHeldTasks, CurrentTask, Registered
<1>4. ASSUME NEW o \in Objects, NEW c \in claims'[o] \ claims[o], c.intent = "WRITE"
      PROVE  TaskOf(c.owner)' # t
  <2>1. ASSUME NEW p \in Objects, NEW x \in Owners, NEW intent \in {"READ", "WRITE"},
               ClaimObject(p, x, intent)
        PROVE  TaskOf(c.owner)' # t
    <3>1. c.owner = x /\ c.intent = intent
      BY <1>4, <2>1 DEF ClaimObject
    <3>2. TaskOf(x)' = TaskOf(x)
      BY <2>1 DEF ClaimObject, TaskOf, CurrentTask, Registered, runtimeVars
    <3>3. TaskOf(x) # None => DirectionReady(TaskOf(x))
      BY <1>4, <2>1, <3>1 DEF ClaimObject
    <3> QED
      BY <3>1, <3>2, <3>3, NoneIsNothing
  <2>2. CASE UNCHANGED claims
    BY <1>4, <2>2
  <2> QED
    BY <2>1, <2>2 DEF LedgerNext, AddTask, TransitionTask, RecordCompletionSignal,
       RecordCorrection, VerifyCorrection, RecordWait, ResolveWait, ReconcileOutline,
       RegisterWindow, ImportOutline, ReviseOutline, RegisterSubAgent, occupancyVars
<1> QED
  BY <1>1, <1>2, <1>3, <1>4 DEF GainsNothing

\* A task held by a correction, a wait or an outline change gains nothing from
\* any of C03's operations.
THEOREM HeldTaskGainsNothingAlways == LedgerSpec => HeldTaskGainsNothing
<1>1. ASSUME IInv, LedgerNext
      PROVE  \A t \in Tasks : Known(t) /\ ~DirectionReady(t) => GainsNothing(t)
  BY <1>1, HeldStep
<1> QED
  BY Inductive, <1>1, PTL DEF HeldTaskGainsNothing, LedgerSpec
=============================================================================

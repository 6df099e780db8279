----------------------------- MODULE LedgerState -----------------------------
(***************************************************************************)
(* The contents of the C03 ledger (ledger_manager.py) as the governance    *)
(* components see them, and the gate every one of their writes passes:     *)
(* commit_mutation.  The components C03, C05, C06, C08 and C10 share one   *)
(* ledger.json and each runs its read-check-write inside ledger_lock, so   *)
(* one operation is one action here; how the file, its lock and its        *)
(* receipts achieve that is the subject of ProcessLock and LedgerStore.    *)
(*                                                                         *)
(* Titles, references, digests, models and permissions are left out; what  *)
(* a window's model and permission evidence is used for is kept as         *)
(* "trusted".                                                              *)
(***************************************************************************)
EXTENDS Naturals, Sequences, FiniteSets

CONSTANTS
    Tasks, Windows, Agents, Objects,   \* keys of the ledger's partitions
    Waits, Signals,                    \* external wait ids, completion signals
    Outcomes, Versions, Editions,      \* what an outline contract is made of
    Contracts,                         \* the contracts a run may import
    Reviews, Validations, Cases,       \* ids of C05, C06 and C08 artifacts
    Dispatches,                        \* ids of C10 dispatches
    None,
    MaxCorrections, MaxChanges         \* bounds on counters

Scopes == [Outcomes -> Editions \cup {None}]

ASSUME ContractsAreContracts == Contracts \subseteq [version: Versions, scope: Scopes]
ASSUME NoneIsNothing ==
    None \notin Tasks \cup Windows \cup Agents \cup Objects \cup Editions \cup Contracts
                \cup Reviews \cup Validations \cup Cases \cup Dispatches
ASSUME OwnersAreDistinct ==
    Tasks \cap Windows = {} /\ Tasks \cap Agents = {} /\ Windows \cap Agents = {}
ASSUME BoundsAreNumbers == MaxCorrections \in Nat /\ MaxChanges \in Nat

VARIABLES
    status,         \* task -> status, "ABSENT" before it is registered
    signals,        \* task -> completionSignalIds
    corrections,    \* task -> revision of its latest direction correction
    verifications,  \* task -> correction revisions verified as applied
    bindings,       \* task -> windows the latest correction was addressed to
    waits,          \* task -> wait id -> "NONE", "WAITING" or "RESOLVED"
    impacts,        \* task -> outline changes it still has to reconcile
    contract,       \* the outline contract in force, or None
    changes,        \* number of outline revisions recorded
    outcomes,       \* task -> outcomes it was registered to deliver
    registered,     \* task -> contract in force when it was registered
    windows,        \* window -> its record, None before it is registered
    agents,         \* sub-agent -> its record, None before it is registered
    claims,         \* object -> claims recorded on it
    stops,          \* hardStops
    recovery        \* the recovery partition

taskVars == <<status, signals>>
directionVars == <<corrections, verifications, bindings, waits, impacts>>
outlineVars == <<contract, changes, outcomes, registered>>
runtimeVars == <<windows, agents>>
occupancyVars == <<claims, stops>>
ledgerVars == <<taskVars, directionVars, outlineVars, runtimeVars, occupancyVars, recovery>>

-----------------------------------------------------------------------------
(* Statuses and record shapes. *)

Transitions ==
    [PLANNED          |-> {"READY", "BLOCKED", "CANCELLED"},
     READY            |-> {"IN_PROGRESS", "BLOCKED", "CANCELLED"},
     IN_PROGRESS      |-> {"NEEDS_REVIEW", "PARTIAL", "CONFLICT", "BLOCKED", "CANCEL_REQUESTED"},
     NEEDS_REVIEW     |-> {"IN_PROGRESS", "PARTIAL", "CONFLICT", "CANCEL_REQUESTED"},
     PARTIAL          |-> {"IN_PROGRESS", "BLOCKED", "CONFLICT", "CANCEL_REQUESTED"},
     CONFLICT         |-> {"BLOCKED", "CANCEL_REQUESTED"},
     BLOCKED          |-> {"READY", "CANCELLED"},
     CANCEL_REQUESTED |-> {"CANCELLED"},
     CANCELLED        |-> {},
     DONE             |-> {}]

Statuses == DOMAIN Transitions
Terminal == {"DONE", "CANCELLED"}
Advancing == {"READY", "IN_PROGRESS", "DONE"}

WindowStatuses ==
    {"REGISTERED", "AVAILABLE_FOR_REUSE", "RESERVED_FOR_REUSE", "RETIRED", "DISCONNECTED",
     "FROZEN", "REPLACED_READ_ONLY", "CANCELLED", "CLOSED"}
ActiveAgent == {"REGISTERED", "FROZEN", "DISCONNECTED"}
AgentStatuses ==
    ActiveAgent \cup {"RETURNED", "COMPLETED", "REPLACED_READ_ONLY", "CANCELLED", "CLOSED"}

Assignments == [task: Tasks, status: {"ACTIVE", "DONE", "DISCONNECTED_REPLACED"}]

WindowRecords ==
    [status: WindowStatuses, task: Tasks, current: Tasks \cup {None},
     history: Seq(Assignments), reserved: Tasks \cup {None},
     reservation: Reviews \cup {None}, trusted: BOOLEAN]
AgentRecords ==
    [window: Windows, status: AgentStatuses, task: Tasks \cup {None},
     dispatch: Dispatches \cup {None}]

ASSUME NoneIsNoRecord == None \notin WindowRecords /\ None \notin AgentRecords

Owners == Tasks \cup Windows \cup Agents
Claims == [owner: Owners, intent: {"READ", "WRITE"}, key: Objects, exclusive: BOOLEAN,
           review: Reviews \cup {None}]

ObjectStop(o) == [code |-> "OBJECT_OCCUPANCY_CONFLICT", task |-> None, ref |-> o]
ReviewStop(t, r) == [code |-> "C05_OCCUPANCY_CONFLICT", task |-> t, ref |-> r]
ValidationStop(t, v) == [code |-> "C06_VALIDATION_CONFLICT", task |-> t, ref |-> v]
Stops == {ObjectStop(o) : o \in Objects}
         \cup {ReviewStop(t, r) : t \in Tasks, r \in Reviews}
         \cup {ValidationStop(t, v) : t \in Tasks, v \in Validations}

Frozen == {"FROZEN_AWAITING_RECOVERY", "CENTRAL_CONTROL_RECOVERED", "FROZEN_BY_BOSS",
           "RESUME_REVIEW_REQUIRED", "TASK_CANCELLED_OCCUPANCY_RETAINED"}
RecoveryRecords ==
    [state: Frozen \cup {"NORMAL", "CLOSED"}, epoch: Nat, case: Cases \cup {None},
     preserved: BOOLEAN]
Impacts == [change: Nat \ {0}, contract: Contracts]

LedgerTypeOK ==
    /\ status \in [Tasks -> Statuses \cup {"ABSENT"}]
    /\ signals \in [Tasks -> SUBSET Signals]
    /\ corrections \in [Tasks -> Nat]
    /\ verifications \in [Tasks -> SUBSET Nat]
    /\ bindings \in [Tasks -> SUBSET Windows]
    /\ waits \in [Tasks -> [Waits -> {"NONE", "WAITING", "RESOLVED"}]]
    /\ impacts \in [Tasks -> SUBSET Impacts]
    /\ contract \in Contracts \cup {None}
    /\ changes \in Nat
    /\ outcomes \in [Tasks -> SUBSET Outcomes]
    /\ registered \in [Tasks -> Contracts \cup {None}]
    /\ windows \in [Windows -> WindowRecords \cup {None}]
    /\ agents \in [Agents -> AgentRecords \cup {None}]
    /\ claims \in [Objects -> SUBSET Claims]
    /\ stops \subseteq Stops
    /\ recovery \in RecoveryRecords

LedgerInit ==
    /\ status = [t \in Tasks |-> "ABSENT"]
    /\ signals = [t \in Tasks |-> {}]
    /\ corrections = [t \in Tasks |-> 0]
    /\ verifications = [t \in Tasks |-> {}]
    /\ bindings = [t \in Tasks |-> {}]
    /\ waits = [t \in Tasks |-> [w \in Waits |-> "NONE"]]
    /\ impacts = [t \in Tasks |-> {}]
    /\ contract = None
    /\ changes = 0
    /\ outcomes = [t \in Tasks |-> {}]
    /\ registered = [t \in Tasks |-> None]
    /\ windows = [w \in Windows |-> None]
    /\ agents = [a \in Agents |-> None]
    /\ claims = [o \in Objects |-> {}]
    /\ stops = {}
    /\ recovery = [state |-> "NORMAL", epoch |-> 0, case |-> None, preserved |-> FALSE]

-----------------------------------------------------------------------------
(* What the handlers read. *)

Known(t) == status[t] # "ABSENT"
Registered(w) == windows[w] # None
CurrentTask(w) == IF Registered(w) THEN windows[w].current ELSE None
ActiveAgents(w) == {a \in Agents : agents[a] # None /\ agents[a].window = w
                                   /\ agents[a].status \in ActiveAgent}

AgentLimit == 3
MaxAssignments == 2

NewAgent(w, t, d) == [window |-> w, status |-> "REGISTERED", task |-> t, dispatch |-> d]

\* Mutant of NewWindow: the window is recorded as ACTIVE, a status of
\* assignments and not of windows.
ActiveWindow(t, trusted) ==
    [status |-> "ACTIVE", task |-> t, current |-> t,
     history |-> <<[task |-> t, status |-> "ACTIVE"]>>,
     reserved |-> None, reservation |-> None, trusted |-> trusted]

NewWindow(t, trusted) ==
    [status |-> "REGISTERED", task |-> t, current |-> t,
     history |-> <<[task |-> t, status |-> "ACTIVE"]>>,
     reserved |-> None, reservation |-> None, trusted |-> trusted]

\* Mutant of DirectionHold: any verification ends the hold.
HeldUntilAnyVerification(t) == corrections[t] > 0 /\ verifications[t] = {}

\* direction_hold: the latest correction has no verification of its own.
DirectionHold(t) == corrections[t] > 0 /\ corrections[t] \notin verifications[t]
ActiveWaits(t) == {w \in Waits : waits[t][w] = "WAITING"}

ClosedStates == {"NORMAL", "CLOSED"}

DirectionReady(t) ==
    /\ impacts[t] = {}
    /\ ~DirectionHold(t)
    /\ ActiveWaits(t) = {}

\* Mutant of HeldTasksStay: waits are forgotten.
CorrectedTasksStay ==
    \A t \in Tasks : status'[t] # status[t] /\ status'[t] \in Advancing => ~DirectionHold(t)

(***************************************************************************)
(* commit_mutation.  Outside a recovery freeze every operation may write,  *)
(* inside one only those whose name starts with C08_.  After the change is *)
(* computed, a task that was held before it may not have become READY,     *)
(* IN_PROGRESS or DONE, and no sub-agent may have been added to a window   *)
(* working for a held task.                                                *)
(***************************************************************************)
HeldTasksStay ==
    \A t \in Tasks : status'[t] # status[t] /\ status'[t] \in Advancing => DirectionReady(t)

NoAgentsForHeldTasks ==
    \A a \in Agents :
        agents[a] = None /\ agents'[a] # None =>
            LET window == windows'[agents'[a].window]
            IN  window # None /\ window.current # None => DirectionReady(window.current)

CommitRecovery == HeldTasksStay /\ NoAgentsForHeldTasks

\* Mutant of Commit: a recovery freeze is not looked at.
CommitDespiteFreeze == CommitRecovery

Commit == recovery.state \in ClosedStates /\ CommitRecovery
CommitValidation(t) == Commit /\ DirectionReady(t)
==============================================================================

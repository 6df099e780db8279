------------------------------- MODULE DataRoot -------------------------------
(***************************************************************************)
(* What C05, C06, C08 and C10 keep beside the ledger: the immutable files  *)
(* in their own directories of the private data root, and the entries of   *)
(* the ledger's histories a later operation looks for.                     *)
(*                                                                         *)
(* Each of these components changes the ledger first and writes its file   *)
(* afterwards.  A kill or a failed write in between loses the file: the    *)
(* ledger has changed and no file says so.  Such an operation is one       *)
(* action here, and "kept" tells whether its file was written.  Writing it *)
(* later is not a case of its own: until it is written the component's own *)
(* operation lock is held, and for everybody else a missing file only      *)
(* disables what needs it.                                                 *)
(***************************************************************************)
EXTENDS LedgerState

CONSTANTS
    Appends,        \* ids of C10 sub-agent append requests
    Keeping         \* whether a file is written: BOOLEAN, or {TRUE} where none is lost

ASSUME KeepingIsBoolean == Keeping \subseteq BOOLEAN

VARIABLES
    reviews,        \* C05: review -> occupancy decision
    plans,          \* C10: dispatch -> plan
    confirmed,      \* C10: dispatch -> runtime confirmation
    appendPlans,    \* C10: append -> plan
    appended,       \* C10: appends with a runtime confirmation
    quality,        \* C10: dispatch -> sub-agents its parent review consolidates
    decisions,      \* C06: validation -> decision
    finalizations,  \* C06: validation -> boss finalization
    acceptance,     \* ledger: task -> validation of its approving finalization
    adjudicated,    \* ledger: validations with a recorded BOSS_DECISION
    released,       \* ledger: validations whose claims were released
    incidents,      \* C08: case -> freeze snapshot
    takeovers,      \* C08: cases with a takeover
    verdicts,       \* C08: case -> recovery decision
    resumed,        \* C08: cases with a replacement authorization
    freed,          \* C08: cases with an occupancy release
    replaced        \* ledger: task -> its latest authorized window replacement

dispatchFiles == <<plans, confirmed, appendPlans, appended, quality>>
validationFiles == <<decisions, finalizations, acceptance, adjudicated, released>>
recoveryFiles == <<incidents, takeovers, verdicts, resumed, freed, replaced>>
files == <<reviews, dispatchFiles, validationFiles, recoveryFiles>>

-----------------------------------------------------------------------------
Reuses == {"NEW", "CURRENT", "SECOND"}   \* OPEN_NEW_WINDOW and the two reuse types
Placed == [object: Objects, claim: Claims]

ReviewDecisions ==
    [task: Tasks, eligible: BOOLEAN, window: Windows \cup {None}, reuse: Reuses,
     claims: SUBSET Placed]
Replacements == [case: Cases, window: Windows]
Plans ==
    [task: Tasks, review: Reviews, direction: Nat, window: Windows \cup {None},
     reuse: Reuses, agents: SUBSET Agents, replacement: Replacements \cup {None}]
Confirmations == [task: Tasks, window: Windows]
AppendPlans == [dispatch: Dispatches, direction: Nat, agents: SUBSET Agents]

(***************************************************************************)
(* derive_outcome, with NEEDS_REVIEW split in two: HISTORICAL is a         *)
(* NEEDS_REVIEW in which only the snapshot from before the work is missing.*)
(***************************************************************************)
AssessedOutcomes == {"PASS", "HISTORICAL", "NEEDS_REVIEW", "PARTIAL", "CONFLICT"}
ValidationDecisions ==
    [task: Tasks, window: Windows, direction: Nat, outcome: AssessedOutcomes]

IncidentTypes == {"CENTRAL", "TASK_WINDOW", "SUB_AGENT"}
Incidents ==
    [type: IncidentTypes, task: Tasks \cup {None}, target: Windows \cup Agents \cup {None},
     windows: SUBSET Windows, agents: SUBSET Agents, epoch: Nat,
     claims: [Objects -> SUBSET Claims]]
Verdicts == {"NONE", "KEEP_FROZEN", "PREPARE_RESUME", "CANCEL_TASK"}

ASSUME NoneIsNoFile ==
    /\ None \notin ReviewDecisions /\ None \notin Plans /\ None \notin Confirmations
    /\ None \notin AppendPlans /\ \A helpers \in SUBSET Agents : None # helpers
    /\ None \notin ValidationDecisions /\ None \notin Incidents /\ None \notin Replacements

FilesTypeOK ==
    /\ reviews \in [Reviews -> ReviewDecisions \cup {None}]
    /\ plans \in [Dispatches -> Plans \cup {None}]
    /\ confirmed \in [Dispatches -> Confirmations \cup {None}]
    /\ appendPlans \in [Appends -> AppendPlans \cup {None}]
    /\ appended \subseteq Appends
    /\ quality \in [Dispatches -> (SUBSET Agents) \cup {None}]
    /\ decisions \in [Validations -> ValidationDecisions \cup {None}]
    /\ finalizations \in [Validations -> {"NONE", "APPROVED", "REJECTED"}]
    /\ acceptance \in [Tasks -> Validations \cup {None}]
    /\ adjudicated \subseteq Validations
    /\ released \subseteq Validations
    /\ incidents \in [Cases -> Incidents \cup {None}]
    /\ takeovers \subseteq Cases
    /\ verdicts \in [Cases -> Verdicts]
    /\ resumed \subseteq Cases
    /\ freed \subseteq Cases
    /\ replaced \in [Tasks -> Replacements \cup {None}]

FilesInit ==
    /\ reviews = [r \in Reviews |-> None]
    /\ plans = [d \in Dispatches |-> None]
    /\ confirmed = [d \in Dispatches |-> None]
    /\ appendPlans = [p \in Appends |-> None]
    /\ appended = {}
    /\ quality = [d \in Dispatches |-> None]
    /\ decisions = [v \in Validations |-> None]
    /\ finalizations = [v \in Validations |-> "NONE"]
    /\ acceptance = [t \in Tasks |-> None]
    /\ adjudicated = {}
    /\ released = {}
    /\ incidents = [c \in Cases |-> None]
    /\ takeovers = {}
    /\ verdicts = [c \in Cases |-> "NONE"]
    /\ resumed = {}
    /\ freed = {}
    /\ replaced = [t \in Tasks |-> None]

-----------------------------------------------------------------------------
\* The claims a task owns, and the ledger without them.
OwnClaims(o, t) == {c \in claims[o] : c.owner = t}
TaskClaims(t) == UNION {{[object |-> o, claim |-> c] : c \in OwnClaims(o, t)} : o \in Objects}
ClaimsWithout(t) == [o \in Objects |-> claims[o] \ OwnClaims(o, t)]
HasClaims(t) == \E o \in Objects : OwnClaims(o, t) # {}
HasStop(t) == \E s \in stops : s.task = t

\* task_window_agents: the helpers C10 gave to window w for task t.
AgentsOf(w, t) == {a \in Agents : agents[a] # None /\ agents[a].window = w /\ agents[a].task = t}
==============================================================================

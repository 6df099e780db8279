------------------------------- MODULE Ledger --------------------------------
(***************************************************************************)
(* C03's own operations on the ledger (ledger_manager.py) and the outline  *)
(* reconciliation of task_lifecycle.py.  Each is one action: it is checked *)
(* and committed inside ledger_lock.  A repeated call that the code        *)
(* answers with an IDEMPOTENT_ status writes nothing and is a stuttering   *)
(* step.                                                                   *)
(***************************************************************************)
EXTENDS LedgerState

-----------------------------------------------------------------------------
(* Tasks. *)

RegisteredOutcomes(c) == {o \in Outcomes : c.scope[o] # None}

\* add_task: under a contract a task must name outcomes the contract registers.
AddTask(t, os) ==
    /\ ~Known(t)
    /\ IF contract = None THEN os = {} ELSE os # {} /\ os \subseteq RegisteredOutcomes(contract)
    /\ status' = [status EXCEPT ![t] = "PLANNED"]
    /\ outcomes' = [outcomes EXCEPT ![t] = os]
    /\ registered' = [registered EXCEPT ![t] = contract]
    /\ UNCHANGED <<signals, directionVars, contract, changes, runtimeVars, occupancyVars, recovery>>
    /\ Commit

TransitionTask(t, to) ==
    /\ Known(t)
    /\ to # "DONE"
    /\ to \in Transitions[status[t]]
    /\ status' = [status EXCEPT ![t] = to]
    /\ UNCHANGED <<signals, directionVars, outlineVars, runtimeVars, occupancyVars, recovery>>
    /\ Commit

RecordCompletionSignal(t, s) ==
    /\ s \notin signals[t]
    /\ status[t] = "IN_PROGRESS"
    /\ signals' = [signals EXCEPT ![t] = @ \cup {s}]
    /\ status' = [status EXCEPT ![t] = "NEEDS_REVIEW"]
    /\ UNCHANGED <<directionVars, outlineVars, runtimeVars, occupancyVars, recovery>>
    /\ Commit

-----------------------------------------------------------------------------
(* Direction corrections and external waits. *)

ClosedToDirection == {"ABSENT", "DONE", "CANCELLED", "CANCEL_REQUESTED"}

\* record_correction: the caller's expected revision must be the current one.
RecordCorrection(t, expected) ==
    /\ expected = corrections[t]
    /\ status[t] \notin ClosedToDirection
    /\ corrections[t] < MaxCorrections
    /\ corrections' = [corrections EXCEPT ![t] = expected + 1]
    /\ bindings' = [bindings EXCEPT ![t] = {w \in Windows : CurrentTask(w) = t}]
    /\ UNCHANGED <<taskVars, verifications, waits, impacts, outlineVars, runtimeVars,
                   occupancyVars, recovery>>
    /\ Commit

\* load_verification: the proof is one about the latest correction.
ProvesLatest(t, revision) == corrections[t] > 0 /\ revision = corrections[t]

\* communication_snapshot: each window the correction was addressed to still
\* works for the task.  That those windows answered APPLIED is up to them.
StillAddressed(t) == \A w \in bindings[t] : CurrentTask(w) = t

VerifyCorrection(t, revision) ==
    /\ ProvesLatest(t, revision)
    /\ revision \notin verifications[t]
    /\ status[t] \notin ClosedToDirection \cup {"CONFLICT"}
    /\ StillAddressed(t)
    /\ verifications' = [verifications EXCEPT ![t] = @ \cup {revision}]
    /\ UNCHANGED <<taskVars, corrections, bindings, waits, impacts, outlineVars, runtimeVars,
                   occupancyVars, recovery>>
    /\ Commit

RecordWait(t, w) ==
    /\ waits[t][w] = "NONE"
    /\ status[t] \notin ClosedToDirection
    /\ waits' = [waits EXCEPT ![t][w] = "WAITING"]
    /\ UNCHANGED <<taskVars, corrections, verifications, bindings, impacts, outlineVars,
                   runtimeVars, occupancyVars, recovery>>
    /\ Commit

\* resolve_wait: the proof was made under direction revision "context".
ResolveWait(t, w, context) ==
    /\ waits[t][w] = "WAITING"
    /\ context = corrections[t]
    /\ status[t] \notin ClosedToDirection
    /\ waits' = [waits EXCEPT ![t][w] = "RESOLVED"]
    /\ UNCHANGED <<taskVars, corrections, verifications, bindings, impacts, outlineVars,
                   runtimeVars, occupancyVars, recovery>>
    /\ Commit

-----------------------------------------------------------------------------
(* The outline contract. *)

ImportOutline(c) ==
    /\ contract = None
    /\ contract' = c
    /\ UNCHANGED <<taskVars, directionVars, changes, outcomes, registered, runtimeVars,
                   occupancyVars, recovery>>
    /\ Commit

\* Mutant of ChangedOutcomes: only dropped outcomes count as changed.
DroppedOutcomes(before, after) ==
    {o \in Outcomes : before.scope[o] # None /\ after.scope[o] = None}

ChangedOutcomes(before, after) == {o \in Outcomes : before.scope[o] # after.scope[o]}

\* import_outline with revise-outline: a new version, and every task that
\* delivers a changed outcome is told to reconcile, whatever its status.
ReviseOutline(c) ==
    /\ contract # None
    /\ c.version # contract.version
    /\ changes < MaxChanges
    /\ contract' = c
    /\ changes' = changes + 1
    /\ LET affected == {t \in Tasks : outcomes[t] \cap ChangedOutcomes(contract, c) # {}}
       IN  impacts' = [t \in Tasks |->
                          IF t \in affected
                          THEN impacts[t] \cup {[change |-> changes + 1, contract |-> c]}
                          ELSE impacts[t]]
    /\ UNCHANGED <<taskVars, corrections, verifications, bindings, waits, outcomes, registered,
                   runtimeVars, occupancyVars, recovery>>
    /\ Commit

\* reconcile-outline: the old task is over, and tasks registered under the
\* contract in force cover what is still to be delivered.
ReconcileOutline(t, i, replacements) ==
    /\ i \in impacts[t]
    /\ status[t] \in Terminal
    /\ t \notin replacements
    /\ contract = i.contract
    /\ \A r \in replacements : /\ status[r] \notin {"ABSENT", "CANCELLED", "CANCEL_REQUESTED"}
                               /\ registered[r] = contract
    /\ outcomes[t] \cap RegisteredOutcomes(contract) \subseteq
           UNION {outcomes[r] : r \in replacements}
    /\ impacts' = [impacts EXCEPT ![t] = @ \ {i}]
    /\ UNCHANGED <<taskVars, corrections, verifications, bindings, waits, outlineVars,
                   runtimeVars, occupancyVars, recovery>>
    /\ Commit

-----------------------------------------------------------------------------
(* Windows, sub-agents and objects. *)

\* register_window: without model and permission evidence it stays UNVERIFIED.
RegisterWindow(w, t, trusted) ==
    /\ ~Registered(w)
    /\ status[t] \notin Terminal \cup {"ABSENT"}
    /\ DirectionReady(t)
    /\ windows' = [windows EXCEPT ![w] = NewWindow(t, trusted)]
    /\ UNCHANGED <<taskVars, directionVars, outlineVars, agents, occupancyVars, recovery>>
    /\ Commit

RegisterSubAgent(a, w) ==
    /\ agents[a] = None
    /\ Registered(w)
    /\ Cardinality(ActiveAgents(w)) < AgentLimit
    /\ agents' = [agents EXCEPT ![a] = NewAgent(w, None, None)]
    /\ UNCHANGED <<taskVars, directionVars, outlineVars, windows, occupancyVars, recovery>>
    /\ Commit

\* ensure_owner, and the task whose direction a write by this owner follows.
OwnerExists(x) ==
    \/ x \in Tasks /\ Known(x)
    \/ x \in Windows /\ Registered(x)
    \/ x \in Agents /\ agents[x] # None

TaskOf(x) == IF x \in Tasks THEN x
             ELSE CurrentTask(IF x \in Windows THEN x ELSE agents[x].window)

\* Mutant of ClaimObject: only a claim beside a write claim stops the project.
UnstoppedClaim(o, x, intent) ==
    /\ OwnerExists(x)
    /\ intent = "WRITE" /\ TaskOf(x) # None => DirectionReady(TaskOf(x))
    /\ ~\E c \in claims[o] : c.owner = x /\ c.intent = intent
    /\ claims' = [claims EXCEPT ![o] = @ \cup {[owner |-> x, intent |-> intent,
                                                key |-> o, exclusive |-> FALSE,
                                                review |-> None]}]
    /\ stops' = IF \E c \in claims[o] : c.intent = "WRITE"
                THEN stops \cup {ObjectStop(o)} ELSE stops
    /\ UNCHANGED <<taskVars, directionVars, outlineVars, runtimeVars, recovery>>
    /\ Commit

\* claim_object: a second claim on an object is recorded all the same, and
\* stops the project.
ClaimObject(o, x, intent) ==
    /\ OwnerExists(x)
    /\ intent = "WRITE" /\ TaskOf(x) # None => DirectionReady(TaskOf(x))
    /\ ~\E c \in claims[o] : c.owner = x /\ c.intent = intent
    /\ claims' = [claims EXCEPT ![o] = @ \cup {[owner |-> x, intent |-> intent,
                                                key |-> o, exclusive |-> FALSE,
                                                review |-> None]}]
    /\ stops' = IF claims[o] = {} THEN stops ELSE stops \cup {ObjectStop(o)}
    /\ UNCHANGED <<taskVars, directionVars, outlineVars, runtimeVars, recovery>>
    /\ Commit

-----------------------------------------------------------------------------
LedgerNext ==
    \/ \E t \in Tasks :
          \/ \E os \in SUBSET Outcomes : AddTask(t, os)
          \/ \E to \in Statuses : TransitionTask(t, to)
          \/ \E s \in Signals : RecordCompletionSignal(t, s)
          \/ \E r \in 0..MaxCorrections : RecordCorrection(t, r) \/ VerifyCorrection(t, r)
          \/ \E w \in Waits : RecordWait(t, w)
          \/ \E w \in Waits, r \in 0..MaxCorrections : ResolveWait(t, w, r)
          \/ \E i \in impacts[t], rs \in SUBSET Tasks : ReconcileOutline(t, i, rs)
          \/ \E w \in Windows, trusted \in BOOLEAN : RegisterWindow(w, t, trusted)
    \/ \E c \in Contracts : ImportOutline(c) \/ ReviseOutline(c)
    \/ \E a \in Agents, w \in Windows : RegisterSubAgent(a, w)
    \/ \E o \in Objects, x \in Owners, intent \in {"READ", "WRITE"} : ClaimObject(o, x, intent)

LedgerSpec == LedgerInit /\ [][LedgerNext]_ledgerVars

-----------------------------------------------------------------------------
(* Properties. *)

(***************************************************************************)
(* While a task is held by a correction, a wait or an outline change, no   *)
(* step moves it to READY, IN_PROGRESS or DONE, gives it a window, adds a  *)
(* sub-agent to a window working for it, or records a write claim for it   *)
(* or for one of its windows and sub-agents.                               *)
(***************************************************************************)
GainsNothing(t) ==
    /\ status'[t] # status[t] => status'[t] \notin Advancing
    /\ \A w \in Windows : CurrentTask(w)' = t => CurrentTask(w) = t
    /\ \A a \in Agents : agents[a] = None /\ agents'[a] # None =>
           CurrentTask(agents[a].window)' # t
    /\ \A o \in Objects : \A c \in claims'[o] \ claims[o] :
           c.intent = "WRITE" => TaskOf(c.owner)' # t

HeldTaskGainsNothing ==
    [][\A t \in Tasks : Known(t) /\ ~DirectionReady(t) => GainsNothing(t)]_ledgerVars

\* Two owners share an object one of them writes only under a hard stop that
\* names the object: the second declaration is kept and stops the project.
SharedWritesAreStopped ==
    \A o \in Objects : \A c, d \in claims[o] :
        c.owner # d.owner /\ c.intent = "WRITE" => ObjectStop(o) \in stops

\* DONE and CANCELLED are final, whatever is done to the task afterwards.
TerminalIsFinal ==
    [][\A t \in Tasks : status[t] \in Terminal => status'[t] = status[t]]_ledgerVars

\* A verification frees only the correction it was made for: after a newer
\* correction the task is held again until that one is verified too.
OldVerificationsDoNotFree ==
    [][\A t \in Tasks :
          corrections'[t] # corrections[t] =>
              /\ corrections'[t] = corrections[t] + 1
              /\ DirectionHold(t)']_ledgerVars

\* A task free to go on delivers what the contract in force asks for: no outcome
\* of a task without impacts was changed or dropped since its registration.
UnheldTasksAreCurrent ==
    \A t \in Tasks :
        /\ status[t] \notin Terminal \cup {"ABSENT"}
        /\ impacts[t] = {}
        /\ registered[t] # None
        => \A o \in outcomes[t] : registered[t].scope[o] = contract.scope[o]
==============================================================================

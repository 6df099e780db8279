------------------------------- MODULE Recovery -------------------------------
(***************************************************************************)
(* C08 (disconnection_recovery_controller.py): a disconnected centre,      *)
(* window or sub-agent freezes the project as a case of a new epoch; a     *)
(* successor takes control over, the boss decides on the case, and it ends *)
(* with a replacement of the window or a release of the task's claims.     *)
(* Every stage is kept as a file and needs the files of the earlier ones.  *)
(***************************************************************************)
EXTENDS Validation

-----------------------------------------------------------------------------
(* validate_incident and affected_context. *)

AffectedWindows(type, t, target) ==
    CASE type = "TASK_WINDOW" -> {target}
      [] type = "SUB_AGENT" -> {agents[target].window}
      [] type = "CENTRAL" ->
            {w \in Windows : Registered(w) /\ windows[w].status \notin {"CLOSED", "CANCELLED"}}

AffectedAgents(type, t, target) ==
    CASE type = "TASK_WINDOW" -> {a \in Agents : agents[a] # None /\ agents[a].window = target}
      [] type = "SUB_AGENT" -> {target}
      [] type = "CENTRAL" ->
            {a \in Agents : agents[a] # None /\ agents[a].status \notin {"CLOSED", "CANCELLED"}}

ValidIncident(type, t, target) ==
    CASE type = "TASK_WINDOW" ->
            /\ t \in Tasks /\ target \in Windows /\ Registered(target)
            /\ t \in {windows[target].task, windows[target].current, windows[target].reserved}
      [] type = "SUB_AGENT" ->
            /\ t \in Tasks /\ target \in Agents
            /\ agents[target] # None
            /\ windows[agents[target].window].task = t
      [] type = "CENTRAL" -> t = None /\ target = None

\* Mutant of FrozenBy: the partition starts anew, and so do its epochs.
FrozenAnew(c) ==
    [state |-> "FROZEN_AWAITING_RECOVERY", epoch |-> 1, case |-> c,
     preserved |-> FALSE]

\* The state after a freeze: a new epoch, and whatever an earlier case left in
\* the recovery partition is gone.
FrozenBy(c) ==
    [state |-> "FROZEN_AWAITING_RECOVERY", epoch |-> recovery.epoch + 1, case |-> c,
     preserved |-> FALSE]

WindowsBecome(ws, s) ==
    [w \in Windows |-> IF w \in ws THEN [windows[w] EXCEPT !.status = s] ELSE windows[w]]
AgentsBecome(as, s) ==
    [a \in Agents |-> IF a \in as THEN [agents[a] EXCEPT !.status = s] ELSE agents[a]]

\* Mutant of BlockedTask: whatever its status, the task is blocked.
AnyTaskBlocked(t) == IF t # None THEN [status EXCEPT ![t] = "BLOCKED"] ELSE status

BlockedTask(t) ==
    IF t # None /\ status[t] \notin Terminal THEN [status EXCEPT ![t] = "BLOCKED"] ELSE status

Freeze(c, type, t, target, kept) ==
    LET ws == AffectedWindows(type, t, target)
        as == AffectedAgents(type, t, target)
    IN  /\ incidents[c] = None
        /\ ValidIncident(type, t, target)
        /\ recovery.state \in ClosedStates
        /\ recovery' = FrozenBy(c)
        /\ windows' = WindowsBecome(ws, IF type = "CENTRAL" THEN "FROZEN" ELSE "DISCONNECTED")
        /\ agents' = [a \in Agents |->
                         IF a \notin as THEN agents[a]
                         ELSE [agents[a] EXCEPT
                                  !.status = IF a = target THEN "DISCONNECTED" ELSE "FROZEN"]]
        /\ status' = BlockedTask(t)
        /\ incidents' = IF kept
                        THEN [incidents EXCEPT ![c] =
                                 [type |-> type, task |-> t, target |-> target, windows |-> ws,
                                  agents |-> as, epoch |-> FrozenBy(c).epoch,
                                  claims |-> claims]]
                        ELSE incidents
        /\ UNCHANGED <<signals, directionVars, outlineVars, occupancyVars, reviews,
                       dispatchFiles, validationFiles, takeovers, verdicts, resumed, freed,
                       replaced>>
        /\ CommitRecovery

Takeover(c, epoch, kept) ==
    /\ incidents[c] # None
    /\ c \notin takeovers
    /\ recovery.state = "FROZEN_AWAITING_RECOVERY"
    /\ recovery.case = c
    /\ recovery.epoch = epoch
    /\ claims = incidents[c].claims
    /\ recovery' = [recovery EXCEPT !.state = "CENTRAL_CONTROL_RECOVERED"]
    /\ takeovers' = IF kept THEN takeovers \cup {c} ELSE takeovers
    /\ UNCHANGED <<taskVars, directionVars, outlineVars, runtimeVars, occupancyVars, reviews,
                   dispatchFiles, validationFiles, incidents, verdicts, resumed, freed, replaced>>
    /\ CommitRecovery

StateAfter == [KEEP_FROZEN    |-> "FROZEN_BY_BOSS",
               PREPARE_RESUME |-> "RESUME_REVIEW_REQUIRED",
               CANCEL_TASK    |-> "TASK_CANCELLED_OCCUPANCY_RETAINED"]

\* decide: cancelling a task cancels its windows and sub-agents, and leaves
\* its claims alone.
Decide(c, action, kept) ==
    LET t == incidents[c].task
        cancel == action = "CANCEL_TASK"
    IN  /\ incidents[c] # None
        /\ c \in takeovers
        /\ verdicts[c] = "NONE"
        /\ recovery.state = "CENTRAL_CONTROL_RECOVERED"
        /\ recovery.case = c
        /\ cancel => t # None /\ status[t] # "DONE"
        /\ recovery' = [recovery EXCEPT !.state = StateAfter[action]]
        /\ status' = IF cancel THEN [status EXCEPT ![t] = "CANCELLED"] ELSE status
        /\ windows' = IF cancel THEN WindowsBecome(incidents[c].windows, "CANCELLED") ELSE windows
        /\ agents' = IF cancel THEN AgentsBecome(incidents[c].agents, "CANCELLED") ELSE agents
        /\ verdicts' = IF kept THEN [verdicts EXCEPT ![c] = action] ELSE verdicts
        /\ UNCHANGED <<signals, directionVars, outlineVars, occupancyVars, reviews,
                       dispatchFiles, validationFiles, incidents, takeovers, resumed, freed,
                       replaced>>
        /\ CommitRecovery

ReplacedAssignments(history, t) ==
    [i \in DOMAIN history |->
        IF history[i].task = t /\ history[i].status = "ACTIVE"
        THEN [history[i] EXCEPT !.status = "DISCONNECTED_REPLACED"] ELSE history[i]]

\* resume: the window of the case becomes read-only, its task READY again, and
\* the freeze ends with the claims kept for the replacement.
Resume(c, epoch, kept) ==
    LET t == incidents[c].task
        w == incidents[c].target
    IN  /\ incidents[c] # None
        /\ c \in takeovers
        /\ c \notin resumed
        /\ incidents[c].type = "TASK_WINDOW"
        /\ verdicts[c] = "PREPARE_RESUME"
        /\ recovery.state = "RESUME_REVIEW_REQUIRED"
        /\ recovery.case = c
        /\ recovery.epoch = epoch
        /\ status[t] = "BLOCKED"
        /\ windows[w].status = "DISCONNECTED"
        /\ windows[w].current = t
        /\ claims = incidents[c].claims
        /\ status' = [status EXCEPT ![t] = "READY"]
        /\ windows' = [windows EXCEPT ![w].status = "REPLACED_READ_ONLY", ![w].current = None,
                                      ![w].history = ReplacedAssignments(@, t)]
        /\ agents' = AgentsBecome(incidents[c].agents, "REPLACED_READ_ONLY")
        /\ recovery' = [recovery EXCEPT !.state = "CLOSED", !.preserved = TRUE]
        /\ replaced' = [replaced EXCEPT ![t] = [case |-> c, window |-> w]]
        /\ resumed' = IF kept THEN resumed \cup {c} ELSE resumed
        /\ UNCHANGED <<signals, directionVars, outlineVars, occupancyVars, reviews,
                       dispatchFiles, validationFiles, incidents, takeovers, verdicts, freed>>
        /\ CommitRecovery

(***************************************************************************)
(* prepared_recovery_return_case: a window that was cut off may still hand *)
(* back what it has done, once the boss prepares its resumption.           *)
(***************************************************************************)
ReturnPrepared(c, t, w) ==
    /\ recovery.state = "RESUME_REVIEW_REQUIRED"
    /\ recovery.case = c
    /\ status[t] = "BLOCKED"
    /\ CurrentTask(w) = t
    /\ windows[w].status = "DISCONNECTED"
    /\ incidents[c] # None
    /\ incidents[c].type = "TASK_WINDOW"
    /\ incidents[c].task = t
    /\ incidents[c].target = w
    /\ claims = incidents[c].claims
    /\ c \in takeovers
    /\ verdicts[c] = "PREPARE_RESUME"

\* record_recovery_return_completion: its handback ends the case, and the task
\* goes to review with its window as it is.
RecordRecoveredSignal(c, t, w, s) ==
    /\ ReturnPrepared(c, t, w)
    /\ s \notin signals[t]
    /\ signals' = [signals EXCEPT ![t] = @ \cup {s}]
    /\ status' = [status EXCEPT ![t] = "NEEDS_REVIEW"]
    /\ recovery' = [recovery EXCEPT !.state = "CLOSED", !.preserved = FALSE]
    /\ UNCHANGED <<directionVars, outlineVars, runtimeVars, occupancyVars, files>>
    /\ CommitRecovery

\* Mutant of TaskIsOver: hard stops are not looked at.
OverDespiteStops(t) == status[t] \in Terminal

TaskIsOver(t) == status[t] \in Terminal /\ ~HasStop(t)

\* release: a task of a case that is done or cancelled gives its claims up.
\* Which case the recovery partition is busy with is not looked at.
Release(c, v, kept) ==
    LET t == incidents[c].task
    IN  /\ incidents[c] # None
        /\ c \in takeovers
        /\ c \notin freed
        /\ t # None
        /\ TaskIsOver(t)
        /\ IF status[t] = "DONE" THEN v # None /\ Accepted(v) /\ decisions[v].task = t
           ELSE v = None
        /\ HasClaims(t)
        /\ claims' = ClaimsWithout(t)
        /\ recovery' = [recovery EXCEPT !.state = "CLOSED", !.preserved = FALSE]
        /\ windows' = WindowsBecome(incidents[c].windows, "CLOSED")
        /\ agents' = AgentsBecome(incidents[c].agents, "CLOSED")
        /\ freed' = IF kept THEN freed \cup {c} ELSE freed
        /\ UNCHANGED <<taskVars, directionVars, outlineVars, stops, reviews, dispatchFiles,
                       validationFiles, incidents, takeovers, verdicts, resumed, replaced>>
        /\ CommitRecovery

RecoveredNext ==
    \E c \in Cases, t \in Tasks, w \in Windows, s \in Signals : RecordRecoveredSignal(c, t, w, s)

RecoveryNext ==
    \E c \in Cases, kept \in Keeping :
        \/ \E type \in IncidentTypes, t \in Tasks \cup {None},
              target \in Windows \cup Agents \cup {None} : Freeze(c, type, t, target, kept)
        \/ \E epoch \in 1..Cardinality(Cases) : Takeover(c, epoch, kept) \/ Resume(c, epoch, kept)
        \/ \E action \in DOMAIN StateAfter : Decide(c, action, kept)
        \/ \E v \in Validations \cup {None} : Release(c, v, kept)
==============================================================================

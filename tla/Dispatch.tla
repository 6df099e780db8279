------------------------------- MODULE Dispatch -------------------------------
(***************************************************************************)
(* C10 (task_window_dispatch_controller.py): a dispatch is planned from an *)
(* eligible C05 decision, carried out by the native runtime, and confirmed *)
(* in the ledger; more sub-agents can be appended to it, each returns its  *)
(* work to its window, and the window reviews the returns of all of them.  *)
(*                                                                         *)
(* Between the plan and its confirmation anything may happen: the runtime  *)
(* is outside the ledger's lock.  A plan is made from one reading of the   *)
(* ledger and used only by its confirmation, so making it is one action.   *)
(* The runtime's own part, and the evidence about projects, models and     *)
(* permissions that confirm demands of it, are left out.  That a dispatch  *)
(* is prepared when its task's turn has come is added by Delivery.         *)
(***************************************************************************)
EXTENDS Occupancy

-----------------------------------------------------------------------------
(* Planning. *)

(***************************************************************************)
(* replacement_dispatch_context: the task is READY because C08 authorized  *)
(* the replacement of its disconnected window, that case is the last one   *)
(* and is closed, and the task holds exactly what C05 reserved for it.     *)
(***************************************************************************)
ReplacementAllowed(t, r) ==
    /\ status[t] = "READY"
    /\ replaced[t] # None
    /\ recovery.state = "CLOSED"
    /\ recovery.preserved
    /\ recovery.case = replaced[t].case
    /\ LET old == windows[replaced[t].window]
       IN  /\ old.status = "REPLACED_READ_ONLY"
           /\ old.current = None
           /\ \E i \in DOMAIN old.history :
                 old.history[i] = [task |-> t, status |-> "DISCONNECTED_REPLACED"]
    /\ reviews[r].reuse # "NEW" => reviews[r].window = replaced[t].window
    /\ TaskClaims(t) = reviews[r].claims
    /\ stops = {} \/ \E v \in Validations : stops = {ValidationStop(t, v)}

\* Mutant of ReadyForSecond: a window already at work for the task will do.
BusyForSecond(w, t, r) == windows[w].trusted /\ windows[w].current \in {None, t}

\* window_ready_for_second_assignment
ReadyForSecond(w, t, r) ==
    /\ windows[w].trusted
    /\ Len(windows[w].history) = 1
    /\ status[windows[w].task] = "DONE"
    /\ windows[w].current = None
    /\ \/ windows[w].status = "AVAILABLE_FOR_REUSE"
       \/ /\ windows[w].status = "RESERVED_FOR_REUSE"
          /\ windows[w].reserved = t
          /\ windows[w].reservation = r

\* prepare with verified_sources: nothing but the plan is written.
Prepare(d, r, as) ==
    LET t == reviews[r].task
        replacing == ReplacementAllowed(t, r)
        reuse == IF replacing THEN "NEW" ELSE reviews[r].reuse
        window == IF replacing THEN None ELSE reviews[r].window
    IN  /\ plans[d] = None
        /\ reviews[r] # None
        /\ reviews[r].eligible
        /\ Cardinality(as) <= AgentLimit
        /\ DirectionReady(t)
        /\ recovery.state \in ClosedStates
        /\ replaced[t] # None => replacing
        /\ stops # {} => replacing
        /\ status[t] = "READY"
        /\ reuse = "CURRENT" => CurrentTask(window) = t
        /\ reuse = "SECOND" => ReadyForSecond(window, t, r)
        /\ plans' = [plans EXCEPT ![d] =
                        [task |-> t, review |-> r, direction |-> corrections[t],
                         window |-> window, reuse |-> reuse, agents |-> as,
                         replacement |-> IF replacing THEN replaced[t] ELSE None]]
        /\ UNCHANGED <<ledgerVars, reviews, confirmed, appendPlans, appended, quality,
                       validationFiles, recoveryFiles>>

-----------------------------------------------------------------------------
(* Confirmation. *)

LastActive(history) == [history EXCEPT ![Len(history)].status = "ACTIVE"]
SecondAssignment(history, t) ==
    Append([history EXCEPT ![Len(history)].status = "DONE"], [task |-> t, status |-> "ACTIVE"])

ConfirmedWindow(w, t, reuse) ==
    CASE reuse = "NEW" -> NewWindow(t, TRUE)
      [] reuse = "CURRENT" -> [windows[w] EXCEPT !.history = LastActive(@)]
      [] reuse = "SECOND" ->
            [windows[w] EXCEPT !.task = t, !.current = t, !.status = "REGISTERED",
                               !.history = SecondAssignment(@, t),
                               !.reserved = None, !.reservation = None]

\* Mutant of PlannedWindow: a window created now may have an id used before.
PlannedOrAnyWindow(p, w) ==
    \/ p.reuse = "NEW"
    \/ w = p.window /\ Registered(w) /\ windows[w].trusted

\* The window the runtime reports: one unknown so far, or the one of the plan.
PlannedWindow(p, w) ==
    \/ p.reuse = "NEW" /\ ~Registered(w)
    \/ p.reuse # "NEW" /\ w = p.window /\ Registered(w) /\ windows[w].trusted

\* confirm: the runtime created the planned window under id w, or sent the
\* package to window w, and created the planned sub-agents.
Confirm(d, w, kept) ==
    LET p == plans[d]
        t == p.task
    IN  /\ p # None
        /\ confirmed[d] = None
        /\ p.direction = corrections[t]
        /\ DirectionReady(t)
        /\ recovery.state \in ClosedStates
        /\ status[t] = "READY"
        /\ replaced[t] # None =>
              /\ p.replacement # None
              /\ p.replacement = replaced[t]
              /\ ReplacementAllowed(t, p.review)
        /\ PlannedWindow(p, w)
        /\ p.reuse = "CURRENT" => CurrentTask(w) = t
        /\ p.reuse = "SECOND" => ReadyForSecond(w, t, p.review)
        /\ Cardinality(ActiveAgents(w)) + Cardinality(p.agents) <= AgentLimit
        /\ \A a \in p.agents : agents[a] = None
        /\ windows' = [windows EXCEPT ![w] = ConfirmedWindow(w, t, p.reuse)]
        /\ agents' = [a \in Agents |-> IF a \in p.agents THEN NewAgent(w, t, d) ELSE agents[a]]
        /\ status' = [status EXCEPT ![t] = "IN_PROGRESS"]
        /\ confirmed' = IF kept THEN [confirmed EXCEPT ![d] = [task |-> t, window |-> w]]
                        ELSE confirmed
        /\ UNCHANGED <<signals, directionVars, outlineVars, occupancyVars, recovery, reviews,
                       plans, appendPlans, appended, quality, validationFiles, recoveryFiles>>
        /\ Commit

-----------------------------------------------------------------------------
(* Sub-agents appended to a running dispatch. *)

CanAppend(d, as) ==
    LET t == confirmed[d].task
        w == confirmed[d].window
    IN  /\ DirectionReady(t)
        /\ recovery.state \in ClosedStates
        /\ stops = {}
        /\ status[t] = "IN_PROGRESS"
        /\ CurrentTask(w) = t
        /\ windows[w].trusted
        /\ Cardinality(AgentsOf(w, t)) + Cardinality(as) <= AgentLimit
        /\ AgentsOf(w, t) \cap as = {}

PrepareAppend(p, d, as) ==
    /\ appendPlans[p] = None
    /\ confirmed[d] # None
    /\ CanAppend(d, as)
    /\ appendPlans' = [appendPlans EXCEPT ![p] =
                          [dispatch |-> d, direction |-> corrections[confirmed[d].task],
                           agents |-> as]]
    /\ UNCHANGED <<ledgerVars, reviews, plans, confirmed, appended, quality, validationFiles,
                   recoveryFiles>>

\* confirm_append: the records of the new sub-agents replace whatever is
\* recorded under their ids.
ConfirmAppend(p, kept) ==
    LET d == appendPlans[p].dispatch
        as == appendPlans[p].agents
        t == confirmed[d].task
        w == confirmed[d].window
    IN  /\ appendPlans[p] # None
        /\ p \notin appended
        /\ confirmed[d] # None
        /\ appendPlans[p].direction = corrections[t]
        /\ CanAppend(d, as)
        /\ agents' = [a \in Agents |-> IF a \in as THEN NewAgent(w, t, d) ELSE agents[a]]
        /\ appended' = IF kept THEN appended \cup {p} ELSE appended
        /\ UNCHANGED <<taskVars, directionVars, outlineVars, windows, occupancyVars, recovery,
                       reviews, plans, confirmed, appendPlans, quality, validationFiles,
                       recoveryFiles>>
        /\ Commit

-----------------------------------------------------------------------------
(* Their returns. *)

RecordReturn(a) ==
    LET d == agents[a].dispatch
    IN  /\ agents[a] # None
        /\ d # None
        /\ confirmed[d] # None
        /\ agents[a].status = "REGISTERED"
        /\ agents[a].window = confirmed[d].window
        /\ agents[a].task = confirmed[d].task
        /\ agents' = [agents EXCEPT ![a].status = "RETURNED"]
        /\ UNCHANGED <<taskVars, directionVars, outlineVars, windows, occupancyVars, recovery,
                       files>>
        /\ Commit

\* record_parent_quality_review: made once per dispatch, over every helper the
\* window has for the task.
RecordQualityReview(d) ==
    LET helpers == AgentsOf(confirmed[d].window, confirmed[d].task)
    IN  /\ confirmed[d] # None
        /\ quality[d] = None
        /\ helpers # {}
        /\ \A a \in helpers : agents[a].status = "RETURNED"
        /\ quality' = [quality EXCEPT ![d] = helpers]
        /\ UNCHANGED <<ledgerVars, reviews, plans, confirmed, appendPlans, appended,
                       validationFiles, recoveryFiles>>

DispatchNext ==
    \/ \E d \in Dispatches :
          \/ \E r \in Reviews, as \in SUBSET Agents : Prepare(d, r, as)
          \/ \E w \in Windows, kept \in Keeping : Confirm(d, w, kept)
          \/ \E p \in Appends, as \in SUBSET Agents : PrepareAppend(p, d, as)
          \/ RecordQualityReview(d)
    \/ \E p \in Appends, kept \in Keeping : ConfirmAppend(p, kept)
    \/ \E a \in Agents : RecordReturn(a)
==============================================================================

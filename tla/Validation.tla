------------------------------ MODULE Validation ------------------------------
(***************************************************************************)
(* C06 (independent_handover_validator.py): a handback is assessed, the    *)
(* assessment is recorded in the ledger and kept as a decision, and a      *)
(* passing one may later be finalized by the boss, which alone makes a     *)
(* task DONE.  Between the two the task may be corrected, stopped, frozen  *)
(* or worked on again.                                                     *)
(*                                                                         *)
(* The contents of handbacks and reviews and the authorizations are left   *)
(* out; the outcome an assessment derives from them is an input.  The      *)
(* ticket a handback came in with is added by ReturnInbox.                 *)
(***************************************************************************)
EXTENDS Dispatch

(***************************************************************************)
(* verify_parent_quality_reviews: every helper C10 gave to the assignment  *)
(* has returned, and the parent review kept for each dispatch lists the    *)
(* helpers of that dispatch and no others.                                 *)
(***************************************************************************)
HelpersConsolidated(w, t) ==
    \A a \in AgentsOf(w, t) :
        LET d == agents[a].dispatch
        IN  /\ agents[a].status = "RETURNED"
            /\ quality[d] = {b \in AgentsOf(w, t) : agents[b].dispatch = d}

EligibleReview(t) ==
    \E r \in Reviews : reviews[r] # None /\ reviews[r].task = t /\ reviews[r].eligible

\* superseding_conflict_validation_id: the C06 stop v of the task, kept as a
\* CONFLICT decision, is what a handback of the task may supersede; ...
Superseded(t, v) ==
    /\ status[t] = "CONFLICT"
    /\ ValidationStop(t, v) \in stops
    /\ decisions[v] # None
    /\ decisions[v].task = t
    /\ decisions[v].outcome = "CONFLICT"

\* ... unless there is a helper's work in it.
Supersedes(t, w) == AgentsOf(w, t) = {} /\ \E v \in Validations : Superseded(t, v)

\* record_superseding_conflict_completion: the signal of such a handback is
\* recorded, and the conflict stays.
RecordSupersedingSignal(t, v, s) ==
    /\ status[t] = "CONFLICT"
    /\ ValidationStop(t, v) \in stops
    /\ s \notin signals[t]
    /\ signals' = [signals EXCEPT ![t] = @ \cup {s}]
    /\ UNCHANGED <<status, directionVars, outlineVars, runtimeVars, occupancyVars, recovery,
                   files>>
    /\ CommitRecovery

StatusAfter == [PASS |-> "NEEDS_REVIEW", HISTORICAL |-> "NEEDS_REVIEW",
                NEEDS_REVIEW |-> "NEEDS_REVIEW", PARTIAL |-> "PARTIAL", CONFLICT |-> "CONFLICT"]

(***************************************************************************)
(* assess with verified_sources.  A validation id whose decision was lost  *)
(* may be assessed again, but is not used for a second conflict.           *)
(***************************************************************************)
Assess(v, t, w, outcome, kept) ==
    /\ decisions[v] = None
    /\ DirectionReady(t)
    /\ EligibleReview(t)
    /\ \/ status[t] = "NEEDS_REVIEW"
       \/ Supersedes(t, w) /\ outcome = "PASS"
    /\ CurrentTask(w) = t
    /\ signals[t] # {}
    /\ HelpersConsolidated(w, t)
    /\ outcome = "CONFLICT" => ValidationStop(t, v) \notin stops
    /\ status' = [status EXCEPT ![t] = StatusAfter[outcome]]
    /\ stops' = IF outcome = "CONFLICT" THEN stops \cup {ValidationStop(t, v)} ELSE stops
    /\ decisions' = IF kept
                    THEN [decisions EXCEPT ![v] = [task |-> t, window |-> w, outcome |-> outcome,
                                                   direction |-> corrections[t]]]
                    ELSE decisions
    /\ UNCHANGED <<signals, directionVars, outlineVars, runtimeVars, claims, recovery, reviews,
                   dispatchFiles, finalizations, acceptance, adjudicated, released, recoveryFiles>>
    /\ CommitValidation(t)

-----------------------------------------------------------------------------
Accepted(v) == finalizations[v] = "APPROVED"

DoneAssignment(history) == [history EXCEPT ![Len(history)].status = "DONE"]

\* The window of a task that is done: free for a second task, or retired.
VacatedWindow(w) ==
    [windows[w] EXCEPT
        !.status = IF Len(windows[w].history) < MaxAssignments THEN "AVAILABLE_FOR_REUSE"
                   ELSE "RETIRED",
        !.history = DoneAssignment(@),
        !.current = None]

CompletedAgents(w) ==
    [a \in Agents |->
        IF a \in ActiveAgents(w) THEN [agents[a] EXCEPT !.status = "COMPLETED"] ELSE agents[a]]

OnlyOwnConflicts(t) == \A s \in stops : \E v \in Validations : s = ValidationStop(t, v)

\* Mutant of Finalizable: the direction of the decision is not checked again.
FinalizableAnytime(v, approved) ==
    LET t == decisions[v].task
    IN  /\ decisions[v].outcome = "PASS" \/ (decisions[v].outcome = "HISTORICAL" /\ approved)
        /\ finalizations[v] = "NONE"
        /\ stops = {} \/ (decisions[v].outcome = "HISTORICAL" /\ OnlyOwnConflicts(t))
        /\ status[t] = "NEEDS_REVIEW"
        /\ CurrentTask(decisions[v].window) = t

(***************************************************************************)
(* What finalize demands: a decision that passed, or that the boss excepts *)
(* as historical, of the current direction, no hard stop (but for the      *)
(* task's own conflicts under the exception), and the task still waiting   *)
(* for review in the window that handed it back.                           *)
(***************************************************************************)
Finalizable(v, approved) ==
    LET t == decisions[v].task
    IN  /\ decisions[v].outcome = "PASS" \/ (decisions[v].outcome = "HISTORICAL" /\ approved)
        /\ finalizations[v] = "NONE"
        /\ decisions[v].direction = corrections[t]
        /\ DirectionReady(t)
        /\ stops = {} \/ (decisions[v].outcome = "HISTORICAL" /\ OnlyOwnConflicts(t))
        /\ status[t] = "NEEDS_REVIEW"
        /\ CurrentTask(decisions[v].window) = t

KeepFinalization(v, verdict, kept) ==
    finalizations' = IF kept THEN [finalizations EXCEPT ![v] = verdict] ELSE finalizations

Approve(v, kept) ==
    /\ decisions[v] # None
    /\ Finalizable(v, TRUE)
    /\ LET t == decisions[v].task
           w == decisions[v].window
       IN  /\ windows[w].history[Len(windows[w].history)].task = t
           /\ status' = [status EXCEPT ![t] = "DONE"]
           /\ acceptance' = [acceptance EXCEPT ![t] = v]
           /\ windows' = [windows EXCEPT ![w] = VacatedWindow(w)]
           /\ agents' = CompletedAgents(w)
           /\ KeepFinalization(v, "APPROVED", kept)
           /\ UNCHANGED <<signals, directionVars, outlineVars, occupancyVars, recovery, reviews,
                          dispatchFiles, decisions, adjudicated, released, recoveryFiles>>
           /\ CommitValidation(t)

\* A rejection is recorded and leaves the task in NEEDS_REVIEW.
Reject(v, kept) ==
    /\ decisions[v] # None
    /\ Finalizable(v, FALSE)
    /\ KeepFinalization(v, "REJECTED", kept)
    /\ UNCHANGED <<ledgerVars, reviews, dispatchFiles, decisions, acceptance, adjudicated,
                   released, recoveryFiles>>
    /\ CommitValidation(decisions[v].task)

-----------------------------------------------------------------------------
(* Operations of C03 that rest on the decisions of C06. *)

\* record_adjudication with outcome BOSS_DECISION, about validation v.
RecordAdjudication(v) ==
    /\ v \notin adjudicated
    /\ adjudicated' = adjudicated \cup {v}
    /\ UNCHANGED <<ledgerVars, reviews, dispatchFiles, decisions, finalizations, acceptance,
                   released, recoveryFiles>>
    /\ Commit

\* resolve_c06_validation_conflict: conflict v of task t becomes history after
\* validation u passed and the boss decided on it.
ResolveConflict(t, v, u) ==
    /\ u # v
    /\ u \in adjudicated
    /\ decisions[u] # None
    /\ decisions[u].task = t
    /\ \/ decisions[u].outcome = "PASS"
       \/ decisions[u].outcome = "HISTORICAL" /\ Accepted(u)
    /\ ValidationStop(t, v) \in stops
    /\ stops' = stops \ {ValidationStop(t, v)}
    /\ UNCHANGED <<taskVars, directionVars, outlineVars, runtimeVars, claims, recovery, files>>
    /\ Commit

\* Mutant of ReleaseDoneTask: the task's hard stops are not looked at.
ReleaseDespiteStops(t, v) ==
    /\ status[t] = "DONE"
    /\ Accepted(v)
    /\ decisions[v].task = t
    /\ HasClaims(t)
    /\ v \notin released
    /\ claims' = ClaimsWithout(t)
    /\ released' = released \cup {v}
    /\ UNCHANGED <<taskVars, directionVars, outlineVars, runtimeVars, stops, recovery, reviews,
                   dispatchFiles, decisions, finalizations, acceptance, adjudicated,
                   recoveryFiles>>
    /\ Commit

\* release_done_task_occupancy
ReleaseDoneTask(t, v) ==
    /\ status[t] = "DONE"
    /\ ~HasStop(t)
    /\ Accepted(v)
    /\ decisions[v].task = t
    /\ HasClaims(t)
    /\ v \notin released
    /\ claims' = ClaimsWithout(t)
    /\ released' = released \cup {v}
    /\ UNCHANGED <<taskVars, directionVars, outlineVars, runtimeVars, stops, recovery, reviews,
                   dispatchFiles, decisions, finalizations, acceptance, adjudicated,
                   recoveryFiles>>
    /\ Commit

RuntimeWindow == {"REGISTERED", "DISCONNECTED"}

\* cancel_unstarted_task: no completion signal, no stop, no live window and no
\* runtime confirmation of the task.
CancelUnstarted(t) ==
    /\ status[t] \in {"PLANNED", "READY"}
    /\ signals[t] = {}
    /\ ~HasStop(t)
    /\ ~\E w \in Windows : CurrentTask(w) = t /\ windows[w].status \in RuntimeWindow
    /\ ~\E d \in Dispatches : confirmed[d] # None /\ confirmed[d].task = t
    /\ claims' = ClaimsWithout(t)
    /\ status' = [status EXCEPT ![t] = "CANCELLED"]
    /\ UNCHANGED <<signals, directionVars, outlineVars, runtimeVars, stops, recovery, files>>
    /\ Commit

AssessNext ==
    \E v \in Validations, t \in Tasks, w \in Windows, outcome \in AssessedOutcomes,
       kept \in Keeping : Assess(v, t, w, outcome, kept)

SupersedingNext ==
    \E t \in Tasks, v \in Validations, s \in Signals : RecordSupersedingSignal(t, v, s)

ClosingNext ==
    \/ \E v \in Validations :
          \/ \E kept \in Keeping : Approve(v, kept) \/ Reject(v, kept)
          \/ RecordAdjudication(v)
          \/ \E t \in Tasks, u \in Validations : ResolveConflict(t, v, u)
          \/ \E t \in Tasks : ReleaseDoneTask(t, v)
    \/ \E t \in Tasks : CancelUnstarted(t)
==============================================================================

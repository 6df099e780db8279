------------------------------- MODULE Feedback -------------------------------
(***************************************************************************)
(* Delivery feedback (ledger_manager.py, task_lifecycle.py): an issue      *)
(* found in accepted work is recorded against its task, linked to another  *)
(* task that repairs it, given a new repair task when that one was         *)
(* cancelled, and closed by the acceptance of the repair.  C06 binds a     *)
(* decision about a repair task to the feedback it assesses, by a digest   *)
(* of the issue and its link; since a link never returns to a task, the    *)
(* digest is the same exactly as long as the repair task is.               *)
(***************************************************************************)
EXTENDS Governance

CONSTANT Feedbacks

VARIABLES
    feedback,       \* feedback -> its entry in the ledger, None before
    vouched         \* validation -> the feedback its decision assesses

feedbackVars == <<feedback, vouched>>

Entries ==
    [task: Tasks, original: Validations, repair: Tasks \cup {None},
     closure: Validations \cup {None}]

ASSUME NoneIsNoEntry == None \notin Entries

FeedbackTypeOK ==
    /\ feedback \in [Feedbacks -> Entries \cup {None}]
    /\ vouched \in [Validations -> SUBSET Feedbacks]

FeedbackInit ==
    /\ feedback = [f \in Feedbacks |-> None]
    /\ vouched = [v \in Validations |-> {}]

-----------------------------------------------------------------------------
Recorded(f) == feedback[f] # None
Closed(f) == Recorded(f) /\ feedback[f].closure # None
ActiveRepair(f, t) ==
    t # feedback[f].task /\ status[t] \notin {"ABSENT", "DONE", "CANCELLED", "CANCEL_REQUESTED"}

\* verify_feedback_assessments, for one assessment: t is the repair task now.
Vouchable(f, t) ==
    /\ Recorded(f)
    /\ feedback[f].repair = t
    /\ Accepted(feedback[f].original)

\* ... and for all of a decision.
StillVouchable(v) == \A f \in vouched[v] : Vouchable(f, decisions[v].task)

\* record_feedback: the repair task, when there is one already, may be in any
\* status.
RecordFeedback(f, v, repair) ==
    /\ ~Recorded(f)
    /\ decisions[v] # None
    /\ Accepted(v)
    /\ LET t == decisions[v].task
       IN  /\ status[t] = "DONE"
           /\ repair # None => repair # t /\ Known(repair)
           /\ feedback' = [feedback EXCEPT ![f] = [task |-> t, original |-> v,
                                                   repair |-> repair, closure |-> None]]
    /\ UNCHANGED <<vars, vouched>>
    /\ Commit

\* Mutant of LinkRepair: the links are collected.
CollectRepair(f, t) ==
    /\ Recorded(f)
    /\ feedback[f].repair = None
    /\ ActiveRepair(f, t)
    /\ feedback' = [feedback EXCEPT ![f].repair = {t}]
    /\ UNCHANGED <<vars, vouched>>
    /\ Commit

\* link_feedback_repair: a distinct task that still goes on, and only once.
LinkRepair(f, t) ==
    /\ Recorded(f)
    /\ feedback[f].repair = None
    /\ ActiveRepair(f, t)
    /\ feedback' = [feedback EXCEPT ![f].repair = t]
    /\ UNCHANGED <<vars, vouched>>
    /\ Commit

\* retarget-feedback-repair: the repair task so far was cancelled.
RetargetRepair(f, t) ==
    /\ Recorded(f)
    /\ ~Closed(f)
    /\ feedback[f].repair # None
    /\ status[feedback[f].repair] = "CANCELLED"
    /\ ActiveRepair(f, t)
    /\ feedback' = [feedback EXCEPT ![f].repair = t]
    /\ UNCHANGED <<vars, vouched>>
    /\ Commit

\* Mutant of CloseFeedback: any pass of a repair task that is DONE will do.
CloseByAnyPass(f, v) ==
    /\ Recorded(f)
    /\ ~Closed(f)
    /\ decisions[v] # None
    /\ StillVouchable(v)
    /\ feedback[f].repair = decisions[v].task
    /\ f \in vouched[v]
    /\ decisions[v].outcome = "PASS"
    /\ status[decisions[v].task] = "DONE"
    /\ feedback' = [feedback EXCEPT ![f].closure = v]
    /\ UNCHANGED <<vars, vouched>>
    /\ Commit

\* close_feedback: by validation v, an approved pass of the repair task that
\* assessed this issue.
CloseFeedback(f, v) ==
    /\ Recorded(f)
    /\ ~Closed(f)
    /\ decisions[v] # None
    /\ Accepted(v)
    /\ StillVouchable(v)
    /\ LET t == decisions[v].task
       IN  /\ feedback[f].repair = t
           /\ t # feedback[f].task
           /\ f \in vouched[v]
           /\ decisions[v].outcome = "PASS"
           /\ status[t] = "DONE"
           /\ decisions[v].direction = corrections[t]
           /\ DirectionReady(t)
    /\ feedback' = [feedback EXCEPT ![f].closure = v]
    /\ UNCHANGED <<vars, vouched>>
    /\ Commit

FeedbackNext ==
    \E f \in Feedbacks :
        \/ \E v \in Validations :
              \/ \E repair \in Tasks \cup {None} : RecordFeedback(f, v, repair)
              \/ CloseFeedback(f, v)
        \/ \E t \in Tasks : LinkRepair(f, t) \/ RetargetRepair(f, t)

-----------------------------------------------------------------------------
\* C06's assess, of a handback of t that assesses the feedback fs.
AssessRepair(v, t, w, outcome, fs, kept) ==
    /\ \A f \in fs : Vouchable(f, t)
    /\ Assess(v, t, w, outcome, kept)
    /\ vouched' = IF kept THEN [vouched EXCEPT ![v] = fs] ELSE vouched
    /\ UNCHANGED feedback

\* C06's finalize looks at the feedback of its decision again.
ClosingRepairs ==
    /\ ClosingNext
    /\ \A t \in Tasks : acceptance'[t] # acceptance[t] => StillVouchable(acceptance'[t])
    /\ \A v \in Validations : finalizations'[v] # finalizations[v] => StillVouchable(v)

-----------------------------------------------------------------------------
(* Properties. *)

(***************************************************************************)
(* references/task-followthrough.md:83, an issue is not made to vanish     *)
(* because some task is DONE: feedback is closed by the acceptance of its  *)
(* own repair, which assessed this very issue, and not by an old link or   *)
(* the acceptance of something else, however often the repair was          *)
(* cancelled, retargeted and assessed; both tasks are DONE by the          *)
(* validations the entry names.                                            *)
(***************************************************************************)
ClosedFeedbackWasRepaired ==
    \A f \in Feedbacks : Closed(f) =>
        LET e == feedback[f]
        IN  /\ e.repair \in Tasks \ {e.task}
            /\ acceptance[e.task] = e.original
            /\ status[e.repair] = "DONE"
            /\ acceptance[e.repair] = e.closure
            /\ decisions[e.closure].outcome = "PASS"
            /\ f \in vouched[e.closure]
==============================================================================

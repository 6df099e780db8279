------------------------------- MODULE Delivery -------------------------------
(***************************************************************************)
(* Governance with the arrangement its tasks take their turns in and the   *)
(* feedback on what they delivered: C05 reviews a task and C10 prepares    *)
(* its dispatch when its turn has come, and C06 binds decisions about      *)
(* repairs to the feedback they assess.                                    *)
(***************************************************************************)
EXTENDS Arrangement, Feedback

deliveryVars == <<vars, revisions, feedbackVars>>

DeliveryTypeOK == RevisionsTypeOK /\ FeedbackTypeOK

DeliveryInit == Init /\ RevisionsInit /\ FeedbackInit

-----------------------------------------------------------------------------
\* analyse finds execution_arrangement_waits of the reviewed task empty, ...
ReviewsInTurn ==
    OccupancyNext /\ \A t \in Tasks : status'[t] # status[t] => ArrangementMet(t)

\* ... and so does prepare for the task it plans a dispatch of.
DispatchesInTurn ==
    DispatchNext /\ \A d \in Dispatches : plans'[d] # plans[d] => ArrangementMet(plans'[d].task)

AssessRepairNext ==
    \E v \in Validations, t \in Tasks, w \in Windows, outcome \in AssessedOutcomes,
       fs \in SUBSET Feedbacks, kept \in Keeping : AssessRepair(v, t, w, outcome, fs, kept)

ProjectNext ==
    /\ \/ LedgerNext /\ UNCHANGED files
       \/ ReviewsInTurn
       \/ DispatchesInTurn
       \/ SupersedingNext
       \/ ClosingRepairs
       \/ RecoveryNext
       \/ RecoveredNext
    /\ UNCHANGED feedbackVars

DeliveryNext ==
    \/ ArrangementNext /\ UNCHANGED feedbackVars
    \/ (FeedbackNext \/ AssessRepairNext \/ ProjectNext) /\ UNCHANGED revisions

DeliverySpec == DeliveryInit /\ [][DeliveryNext]_deliveryVars
==============================================================================

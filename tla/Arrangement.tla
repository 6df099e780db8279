----------------------------- MODULE Arrangement -----------------------------
(***************************************************************************)
(* C09's revisions of the execution arrangement                            *)
(* (central_construction_controller.py, revise-plan): the order in which   *)
(* the tasks of an approved plan take their turns is changed while some of *)
(* them are at work.  The versions are kept in the ledger; C05 and C10     *)
(* read the current one of every plan before they review or prepare a      *)
(* task.  A plan that was never revised holds nobody back.                 *)
(*                                                                         *)
(* The exported file of a revision is a copy nobody has to have, and the   *)
(* lock of a plan adds nothing to the ledger's.                            *)
(***************************************************************************)
EXTENDS Governance

CONSTANTS
    ExecutionMaps,  \* ids of approved plans
    PlanTasks,      \* plan -> its tasks
    Approved,       \* plan -> the business dependencies of its tasks
    Arrangements,   \* plan -> the scheduling dependencies a revision may ask for
    MaxRevisions    \* bound: revisions of a plan

Dependencies == [Tasks -> SUBSET Tasks]

ASSUME PlansAreApproved ==
    PlanTasks \in [ExecutionMaps -> SUBSET Tasks] /\ Approved \in [ExecutionMaps -> Dependencies]
ASSUME ArrangementsStayInside ==
    \A p \in ExecutionMaps : \A a \in Arrangements[p] :
        /\ a \in Dependencies
        /\ \A t \in Tasks : a[t] \subseteq PlanTasks[p] \ {t}
        /\ \A t \in Tasks \ PlanTasks[p] : a[t] = {}
ASSUME BoundIsNumber == MaxRevisions \in Nat

VARIABLE revisions  \* plan -> the scheduling dependencies of its versions, in order

RevisionsTypeOK ==
    /\ revisions \in [ExecutionMaps -> Seq(Dependencies)]
    /\ \A p \in ExecutionMaps : Len(revisions[p]) <= MaxRevisions

RevisionsInit == revisions = [p \in ExecutionMaps |-> <<>>]

-----------------------------------------------------------------------------
\* The scheduling dependencies of version n; the approved plan, before the
\* first, has none.
Version(p, n) == IF n = 0 THEN [t \in Tasks |-> {}] ELSE revisions[p][n]
Current(p) == Version(p, Len(revisions[p]))

\* The tasks put before t by the versions there are now.
Waiting(t) == UNION {Current(p)[t] : p \in {q \in ExecutionMaps : t \in PlanTasks[q]}}

\* execution_arrangement_waits is empty: what the current version of every
\* revised plan puts before the task is DONE.
ArrangementMet(t) ==
    \A p \in ExecutionMaps : revisions[p] # <<>> /\ t \in PlanTasks[p] =>
        \A u \in Approved[p][t] \cup Current(p)[t] : status[u] = "DONE"

\* validate_execution_map: whichever tasks are left, one of them waits for none
\* of the others.
Acyclic(p, arrangement) ==
    \A left \in SUBSET PlanTasks[p] \ {{}} :
        \E t \in left : (Approved[p][t] \cup arrangement[t]) \cap left = {}

\* Mutant of RevisePlan: only tasks that are at work are in flight.
ReviseUnstarted(p, source, arrangement) ==
    /\ source = Len(revisions[p])
    /\ \A t \in PlanTasks[p] : Known(t)
    /\ Acyclic(p, arrangement)
    /\ \A t \in PlanTasks[p] :
          arrangement[t] # Version(p, source)[t] => status[t] \in {"PLANNED", "READY"}
    /\ Len(revisions[p]) < MaxRevisions
    /\ revisions' = [revisions EXCEPT ![p] = Append(@, arrangement)]
    /\ UNCHANGED vars
    /\ Commit

(***************************************************************************)
(* revise-plan, made from version "source": that one must be current, and  *)
(* only tasks that nobody has reviewed yet get other dependencies.  One    *)
(* that leaves them all alone changes the order of the list.               *)
(***************************************************************************)
RevisePlan(p, source, arrangement) ==
    /\ source = Len(revisions[p])
    /\ \A t \in PlanTasks[p] : Known(t)
    /\ Acyclic(p, arrangement)
    /\ \A t \in PlanTasks[p] : arrangement[t] # Version(p, source)[t] => status[t] = "PLANNED"
    /\ Len(revisions[p]) < MaxRevisions
    /\ revisions' = [revisions EXCEPT ![p] = Append(@, arrangement)]
    /\ UNCHANGED vars
    /\ Commit

ArrangementNext ==
    \E p \in ExecutionMaps, source \in 0..MaxRevisions :
        \E arrangement \in Arrangements[p] : RevisePlan(p, source, arrangement)

-----------------------------------------------------------------------------
(* Properties. *)

(***************************************************************************)
(* references/central-construction/project-execution-map.md, section 8:    *)
(* scheduling dependencies are added and removed for PLANNED tasks only,   *)
(* and C05 looks at the current ones.  However often the arrangement is    *)
(* revised while tasks are reviewed, no task holds a reservation ahead of  *)
(* its turn in the arrangement now.                                        *)
(***************************************************************************)
ReservationsWaitTheirTurn ==
    \A o \in Objects : \A c \in claims[o] :
        c.review # None => \A u \in Waiting(c.owner) : status[u] = "DONE"
==============================================================================

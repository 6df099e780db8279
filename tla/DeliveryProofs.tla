---------------------------- MODULE DeliveryProofs ----------------------------
(***************************************************************************)
(* Theorems about Delivery for any number of plans, revisions and feedback *)
(* entries: it is Governance to whoever looks at the ledger's other        *)
(* partitions, reservations never get ahead of the arrangement, and closed *)
(* feedback was repaired.                                                  *)
(***************************************************************************)
EXTENDS SafetyProofs, Delivery

-----------------------------------------------------------------------------
(* Types, and the steps of Governance. *)

LEMMA DeliveryStepIsGoverned ==
    ASSUME DeliveryNext
    PROVE  [Next]_vars
<1>1. CASE ArrangementNext
  BY <1>1 DEF ArrangementNext, RevisePlan
<1>2. CASE FeedbackNext
  BY <1>2 DEF FeedbackNext, RecordFeedback, LinkRepair, RetargetRepair, CloseFeedback
<1>3. CASE AssessRepairNext
  BY <1>3 DEF AssessRepairNext, AssessRepair, AssessNext, Next
<1>4. CASE ProjectNext
  BY <1>4 DEF ProjectNext, ReviewsInTurn, DispatchesInTurn, ClosingRepairs, Next
<1> QED
  BY <1>1, <1>2, <1>3, <1>4 DEF DeliveryNext

LEMMA RevisionsTypeStep ==
    ASSUME RevisionsTypeOK, ArrangementNext
    PROVE  RevisionsTypeOK'
<1> PICK p \in ExecutionMaps, source \in 0..MaxRevisions :
      \E a \in Arrangements[p] : RevisePlan(p, source, a)
  BY DEF ArrangementNext
<1> PICK arrangement \in Arrangements[p] : RevisePlan(p, source, arrangement)
  OBVIOUS
<1>1. arrangement \in Dependencies
  BY ArrangementsStayInside
<1>2. /\ Len(revisions[p]) < MaxRevisions
      /\ revisions' = [revisions EXCEPT ![p] = Append(@, arrangement)]
  BY DEF RevisePlan
<1>3. /\ revisions[p] \in Seq(Dependencies)
      /\ Append(revisions[p], arrangement) \in Seq(Dependencies)
      /\ Len(Append(revisions[p], arrangement)) = Len(revisions[p]) + 1
  BY <1>1 DEF RevisionsTypeOK
<1> HIDE DEF Dependencies
<1> QED
  BY <1>2, <1>3, BoundIsNumber DEF RevisionsTypeOK

LEMMA FeedbackTypeStep ==
    ASSUME TypeInv, FeedbackTypeOK, FeedbackNext \/ AssessRepairNext
    PROVE  FeedbackTypeOK'
<1> decisions \in [Validations -> ValidationDecisions \cup {None}]
  BY DEF TypeInv, TypeOK, FilesTypeOK
<1>1. ASSUME NEW f \in Feedbacks, NEW v \in Validations, NEW repair \in Tasks \cup {None},
             RecordFeedback(f, v, repair)
      PROVE  FeedbackTypeOK'
  <2>1. decisions[v].task \in Tasks
    BY <1>1 DEF RecordFeedback, ValidationDecisions
  <2> QED
    BY <1>1, <2>1 DEF RecordFeedback, FeedbackTypeOK, Entries
<1>2. ASSUME NEW f \in Feedbacks, NEW t \in Tasks, LinkRepair(f, t) \/ RetargetRepair(f, t)
      PROVE  FeedbackTypeOK'
  BY <1>2 DEF LinkRepair, RetargetRepair, Recorded, FeedbackTypeOK, Entries
<1>3. ASSUME NEW f \in Feedbacks, NEW v \in Validations, CloseFeedback(f, v)
      PROVE  FeedbackTypeOK'
  BY <1>3 DEF CloseFeedback, Recorded, FeedbackTypeOK, Entries
<1>4. ASSUME NEW v \in Validations, NEW t, NEW w, NEW outcome, NEW fs \in SUBSET Feedbacks,
             NEW kept, AssessRepair(v, t, w, outcome, fs, kept)
      PROVE  FeedbackTypeOK'
  BY <1>4 DEF AssessRepair, FeedbackTypeOK
<1> QED
  BY <1>1, <1>2, <1>3, <1>4 DEF FeedbackNext, AssessRepairNext

LEMMA DeliveryTypeStep ==
    TypeInv /\ DeliveryTypeOK /\ [DeliveryNext]_deliveryVars
        => [Next]_vars /\ (TypeInv /\ DeliveryTypeOK)'
<1> SUFFICES ASSUME TypeInv, DeliveryTypeOK, [DeliveryNext]_deliveryVars
             PROVE  [Next]_vars /\ (TypeInv /\ DeliveryTypeOK)'
  OBVIOUS
<1>1. [Next]_vars
  BY DeliveryStepIsGoverned DEF deliveryVars
<1>2. TypeInv'
  BY <1>1, TypeInvStep
<1>3. ASSUME UNCHANGED revisions
      PROVE  RevisionsTypeOK'
  BY <1>3 DEF DeliveryTypeOK, RevisionsTypeOK
<1>4. ASSUME UNCHANGED feedbackVars
      PROVE  FeedbackTypeOK'
  BY <1>4 DEF DeliveryTypeOK, FeedbackTypeOK, feedbackVars
<1>5. DeliveryTypeOK'
  BY <1>3, <1>4, RevisionsTypeStep, FeedbackTypeStep DEF DeliveryTypeOK, DeliveryNext,
     ProjectNext, deliveryVars
<1> QED
  BY <1>1, <1>2, <1>5

LEMMA DeliveryTypesAlways == DeliverySpec => [](TypeInv /\ DeliveryTypeOK)
<1>1. DeliveryInit => TypeInv /\ DeliveryTypeOK
  BY TypeInvInit, BoundIsNumber DEF DeliveryInit, RevisionsInit, FeedbackInit, DeliveryTypeOK,
     RevisionsTypeOK, FeedbackTypeOK
<1> QED
  BY <1>1, DeliveryTypeStep, PTL DEF DeliverySpec

\* Plans keep their versions, and feedback its entries, within their types.
THEOREM DeliveryTypeOKAlways == DeliverySpec => []DeliveryTypeOK
BY DeliveryTypesAlways, PTL

\* Turns and feedback only restrict what the components do: all that holds of
\* Governance holds of it while plans are revised and feedback is followed up.
THEOREM DeliveryImplementsGovernance == DeliverySpec => Spec
<1>1. DeliveryInit => Init
  BY DEF DeliveryInit
<1> QED
  BY <1>1, DeliveryTypesAlways, DeliveryTypeStep, PTL DEF DeliverySpec, Spec

-----------------------------------------------------------------------------
(* Turns. *)

Begun(t) == status[t] \notin {"ABSENT", "PLANNED"}

\* Who holds a reservation is a task beyond its plan.
OwnersHaveBegun ==
    \A o \in Objects : \A c \in claims[o] :
        c.review # None => c.owner \in Tasks /\ Begun(c.owner)

LEMMA BegunStaysBegun ==
    ASSUME TypeInv, [Next]_vars, NEW t \in Tasks, Begun(t)
    PROVE  Begun(t)' /\ (status[t] = "DONE" => status'[t] = "DONE")
BY OnwardStep DEF Onward, Begun, Terminal

\* A claim a step adds is a declaration, unless C05 reserves it for a task
\* whose turn has come.
LEMMA ReservedInTurn ==
    ASSUME TypeInv, [DeliveryNext]_deliveryVars
    PROVE  \/ Declared
           \/ /\ UNCHANGED revisions
              /\ \E r \in Reviews, t \in Tasks, requests \in RequestSets, kept \in Keeping :
                    \E choice \in WindowChoices(t) :
                        Reserve(r, t, requests, choice, kept) /\ ArrangementMet(t)
<1>1. ASSUME UNCHANGED vars
      PROVE  Declared
  <2>1. UNCHANGED claims
    BY <1>1, StuttersFrame
  <2> QED
    BY <2>1 DEF Declared
<1>2. ASSUME ElsewhereThanReviews
      PROVE  Declared
  BY <1>2, DeclaredElsewhere
<1>3. CASE ArrangementNext \/ FeedbackNext \/ UNCHANGED deliveryVars
  BY <1>1, <1>3 DEF ArrangementNext, RevisePlan, FeedbackNext, RecordFeedback, LinkRepair,
     RetargetRepair, CloseFeedback, deliveryVars
<1>4. CASE AssessRepairNext
  BY <1>2, <1>4 DEF AssessRepairNext, AssessRepair, AssessNext, ElsewhereThanReviews
<1>5. CASE ReviewsInTurn /\ UNCHANGED revisions
  <2>1. ASSUME NEW r \in Reviews, NEW t \in Tasks, NEW requests \in RequestSets,
               NEW kept \in Keeping, NEW choice \in WindowChoices(t),
               Reserve(r, t, requests, choice, kept)
        PROVE  ArrangementMet(t)
    <3>1. status[t] = "PLANNED" /\ status' = [status EXCEPT ![t] = "READY"]
      BY <2>1 DEF Reserve, Reviewable
    <3>2. status'[t] # status[t]
      BY <3>1 DEF TypeInv, TypeOK, LedgerTypeOK
    <3> QED
      BY <1>5, <3>2 DEF ReviewsInTurn
  <2>2. ASSUME NEW r, NEW t, NEW requests, NEW crossModule, NEW kept,
               Block(r, t, requests, crossModule, kept)
        PROVE  Declared
    BY <2>2 DEF Block, Declared
  <2>3. OccupancyNext
    BY <1>5 DEF ReviewsInTurn
  <2>4. PICK r \in Reviews, t \in Tasks, requests \in RequestSets, kept \in Keeping :
           \/ \E choice \in WindowChoices(t) : Reserve(r, t, requests, choice, kept)
           \/ \E crossModule \in BOOLEAN : Block(r, t, requests, crossModule, kept)
    BY <2>3 DEF OccupancyNext
  <2>5. CASE \E choice \in WindowChoices(t) : Reserve(r, t, requests, choice, kept)
    BY <1>5, <2>1, <2>5
  <2>6. CASE \E crossModule \in BOOLEAN : Block(r, t, requests, crossModule, kept)
    BY <2>2, <2>6
  <2> QED
    BY <2>4, <2>5, <2>6
<1>6. CASE ProjectNext /\ ~ReviewsInTurn
  BY <1>2, <1>6 DEF ProjectNext, DispatchesInTurn, ClosingRepairs, ElsewhereThanReviews
<1> QED
  BY <1>3, <1>4, <1>5, <1>6 DEF DeliveryNext

\* A revision leaves the turns of the tasks alone that have begun.
LEMMA RevisionsSpareBegunTasks ==
    ASSUME RevisionsTypeOK, ArrangementNext, NEW t \in Tasks, Begun(t)
    PROVE  Waiting(t)' = Waiting(t)
<1> PICK p \in ExecutionMaps, source \in 0..MaxRevisions :
      \E a \in Arrangements[p] : RevisePlan(p, source, a)
  BY DEF ArrangementNext
<1> PICK arrangement \in Arrangements[p] : RevisePlan(p, source, arrangement)
  OBVIOUS
<1> DEFINE n == Len(revisions[p])
<1>1. /\ source = n
      /\ revisions' = [revisions EXCEPT ![p] = Append(@, arrangement)]
  BY DEF RevisePlan
<1>2. ASSUME NEW q \in ExecutionMaps, t \in PlanTasks[q]
      PROVE  Current(q)'[t] = Current(q)[t]
  <2>1. CASE q # p
    <3>1. revisions'[q] = revisions[q]
      BY <1>1, <2>1 DEF RevisionsTypeOK
    <3> QED
      BY <3>1 DEF Current, Version
  <2>2. CASE q = p
    <3>1. /\ revisions[p] \in Seq(Dependencies)
          /\ revisions'[p] = Append(revisions[p], arrangement)
          /\ arrangement \in Dependencies
      BY <1>1, ArrangementsStayInside DEF RevisionsTypeOK
    <3>2. Len(revisions'[p]) = n + 1 /\ revisions'[p][n + 1] = arrangement /\ n \in Nat
      BY <3>1
    <3>3. Current(p)' = arrangement
      BY <3>2 DEF Current, Version
    <3> QED
      BY <1>1, <1>2, <2>2, <3>3 DEF RevisePlan, Begun, Current
  <2> QED
    BY <2>1, <2>2
<1>3. \A q \in {x \in ExecutionMaps : t \in PlanTasks[x]} : Current(q)'[t] = Current(q)[t]
  BY <1>2
<1> QED
  BY <1>3 DEF Waiting

\* Those who hold a reservation keep waiting for the same tasks, and these stay
\* DONE.
LEMMA HoldersKeepTheirTurn ==
    ASSUME TypeInv, DeliveryTypeOK, [DeliveryNext]_deliveryVars, NEW t \in Tasks, Begun(t),
           \A u \in Waiting(t) : status[u] = "DONE"
    PROVE  Begun(t)' /\ \A u \in Waiting(t)' : status'[u] = "DONE"
<1>1. [Next]_vars
  BY DeliveryStepIsGoverned DEF deliveryVars
<1>2. Waiting(t)' = Waiting(t)
  <2>1. CASE UNCHANGED revisions
    BY <2>1 DEF Waiting, Current, Version
  <2>2. CASE ArrangementNext
    BY <2>2, RevisionsSpareBegunTasks DEF DeliveryTypeOK
  <2> QED
    BY <2>1, <2>2 DEF DeliveryNext, deliveryVars
<1>3. ASSUME NEW u \in Waiting(t)
      PROVE  status'[u] = "DONE"
  <2>1. PICK p \in ExecutionMaps : u \in Current(p)[t]
    BY <1>3 DEF Waiting
  <2>2. Current(p) \in Dependencies
    <3>1. revisions[p] \in Seq(Dependencies)
      BY DEF DeliveryTypeOK, RevisionsTypeOK
    <3>2. Len(revisions[p]) \in Nat
          /\ \A n \in 1..Len(revisions[p]) : revisions[p][n] \in Dependencies
      BY <3>1
    <3>3. [x \in Tasks |-> {}] \in Dependencies
      BY DEF Dependencies
    <3> HIDE DEF Dependencies
    <3> QED
      BY <3>2, <3>3 DEF Current, Version
  <2>3. u \in Tasks
    BY <2>1, <2>2 DEF Dependencies
  <2> QED
    BY <1>1, <1>3, <2>3, BegunStaysBegun DEF Begun
<1>4. Begun(t)'
  BY <1>1, BegunStaysBegun
<1> QED
  BY <1>2, <1>3, <1>4

LEMMA TurnsStep ==
    ASSUME TypeInv, DeliveryTypeOK, OwnersHaveBegun, ReservationsWaitTheirTurn,
           [DeliveryNext]_deliveryVars
    PROVE  OwnersHaveBegun' /\ ReservationsWaitTheirTurn'
<1> DEFINE InOrder(c) == c.owner \in Tasks /\ Begun(c.owner)
                         /\ \A u \in Waiting(c.owner) : status[u] = "DONE"
<1>1. ASSUME NEW o \in Objects, NEW c \in claims[o], c.review # None
      PROVE  InOrder(c)'
  <2>1. c.owner \in Tasks /\ Begun(c.owner) /\ \A u \in Waiting(c.owner) : status[u] = "DONE"
    BY <1>1 DEF OwnersHaveBegun, ReservationsWaitTheirTurn
  <2> QED
    BY <2>1, HoldersKeepTheirTurn
<1>2. ASSUME NEW r \in Reviews, NEW t \in Tasks, NEW requests, NEW kept, NEW choice,
             Reserve(r, t, requests, choice, kept), ArrangementMet(t), UNCHANGED revisions,
             NEW o \in Objects, NEW c \in claims'[o] \ claims[o]
      PROVE  InOrder(c)'
  <2>1. c.owner = t
    BY <1>2 DEF Reserve, Reservation
  <2>2. Begun(t)'
    BY <1>2 DEF Reserve, Begun, TypeInv, TypeOK, LedgerTypeOK
  <2>3. ASSUME NEW u \in Waiting(t)
        PROVE  status'[u] = "DONE"
    <3>1. status[u] = "DONE"
      BY <1>2, <2>3 DEF ArrangementMet, Waiting, Current, Version
    <3>2. u # t
      BY <1>2, <3>1 DEF Reserve, Reviewable
    <3> QED
      BY <1>2, <3>1, <3>2 DEF Reserve, TypeInv, TypeOK, LedgerTypeOK
  <2>4. Waiting(t)' = Waiting(t)
    BY <1>2 DEF Waiting, Current, Version
  <2> QED
    BY <2>1, <2>2, <2>3, <2>4
<1>3. ASSUME NEW o \in Objects, NEW c \in claims'[o], c.review # None
      PROVE  InOrder(c)'
  BY <1>1, <1>2, <1>3, ReservedInTurn DEF Declared
<1> QED
  BY <1>3 DEF OwnersHaveBegun, ReservationsWaitTheirTurn

\* The arrangement may be revised at any time: nobody is found to hold what was
\* reserved for a task whose turn is yet to come (revise-plan,
\* execution_arrangement_waits).
THEOREM ReservationsWaitTheirTurnAlways == DeliverySpec => []ReservationsWaitTheirTurn
<1>1. DeliveryInit => OwnersHaveBegun /\ ReservationsWaitTheirTurn
  BY DEF DeliveryInit, Init, LedgerInit, OwnersHaveBegun, ReservationsWaitTheirTurn
<1>2. (TypeInv /\ DeliveryTypeOK) /\ (OwnersHaveBegun /\ ReservationsWaitTheirTurn)
          /\ [DeliveryNext]_deliveryVars => (OwnersHaveBegun /\ ReservationsWaitTheirTurn)'
  BY TurnsStep
<1> QED
  BY <1>1, <1>2, DeliveryTypesAlways, PTL DEF DeliverySpec

-----------------------------------------------------------------------------
(* Feedback. *)

\* What was accepted is never accepted anew: a finalization once kept names the
\* decision its task is DONE by.
AcceptedAreFinal ==
    \A v \in Validations : Accepted(v) =>
        /\ decisions[v] # None
        /\ status[decisions[v].task] = "DONE"
        /\ acceptance[decisions[v].task] = v

LEMMA AcceptedStayAccepted ==
    ASSUME TypeInv, AcceptedAreFinal, [Next]_vars
    PROVE  /\ AcceptedAreFinal'
           /\ \A v \in Validations : Accepted(v) => Accepted(v)' /\ decisions'[v] = decisions[v]
<1>0. ASSUME NEW v \in Validations, decisions[v] # None
      PROVE  decisions[v].task \in Tasks
  BY <1>0 DEF TypeInv, TypeOK, FilesTypeOK, ValidationDecisions
<1>1. CASE NothingAccepted
  <2>1. ASSUME NEW v \in Validations, Accepted(v)
        PROVE  /\ decisions[v] # None
               /\ decisions'[v] = decisions[v]
               /\ status[decisions[v].task] = "DONE"
               /\ decisions[v].task \in Tasks
               /\ acceptance[decisions[v].task] = v
    BY <1>0, <1>1, <2>1 DEF NothingAccepted, AcceptedAreFinal
  <2>2. ASSUME NEW t \in Tasks, status[t] = "DONE"
        PROVE  status'[t] = "DONE"
    BY <2>2, BegunStaysBegun DEF Begun
  <2> QED
    BY <1>1, <2>1, <2>2 DEF NothingAccepted, AcceptedAreFinal
<1>2. ASSUME NEW v \in Validations, NEW kept \in Keeping, Approve(v, kept)
      PROVE  /\ AcceptedAreFinal'
             /\ \A u \in Validations : Accepted(u) => Accepted(u)' /\ decisions'[u] = decisions[u]
  <2> DEFINE t == decisions[v].task
  <2>1. /\ t \in Tasks /\ status[t] = "NEEDS_REVIEW"
        /\ decisions[v] # None
        /\ finalizations[v] = "NONE"
        /\ status' = [status EXCEPT ![t] = "DONE"]
        /\ acceptance' = [acceptance EXCEPT ![t] = v]
        /\ UNCHANGED decisions
        /\ \/ UNCHANGED finalizations
           \/ finalizations' = [finalizations EXCEPT ![v] = "APPROVED"]
    BY <1>0, <1>2 DEF Approve, Finalizable, KeepFinalization
  <2>2. /\ status \in [Tasks -> Statuses \cup {"ABSENT"}]
        /\ acceptance \in [Tasks -> Validations \cup {None}]
        /\ DOMAIN finalizations = Validations
    BY DEF TypeInv, TypeOK, LedgerTypeOK, FilesTypeOK
  <2> HIDE DEF t
  <2>3. ASSUME NEW u \in Validations, Accepted(u)
        PROVE  /\ Accepted(u)'
               /\ decisions[u] # None
               /\ status'[decisions[u].task] = "DONE"
               /\ acceptance'[decisions[u].task] = u
    <3>1. /\ decisions[u] # None
          /\ status[decisions[u].task] = "DONE"
          /\ acceptance[decisions[u].task] = u
          /\ decisions[u].task \in Tasks \ {t}
      BY <1>0, <2>1, <2>3 DEF AcceptedAreFinal
    <3> QED
      BY <2>1, <2>2, <2>3, <3>1 DEF Accepted
  <2>4. ASSUME NEW u \in Validations, Accepted(u)', ~Accepted(u)
        PROVE  u = v /\ decisions[u].task = t /\ status'[t] = "DONE" /\ acceptance'[t] = u
    BY <2>1, <2>2, <2>4 DEF Accepted, t
  <2> QED
    BY <2>1, <2>3, <2>4 DEF AcceptedAreFinal
<1> QED
  BY <1>1, <1>2, AcceptedOrNot

\* An entry names the acceptance it is about, and a closed one the acceptance
\* of its repair as well.
InOrder(f) ==
    Recorded(f) =>
        LET e == feedback[f]
        IN  /\ Accepted(e.original)
            /\ decisions[e.original].task = e.task
            /\ Closed(f) => /\ e.repair \in Tasks \ {e.task}
                           /\ Accepted(e.closure)
                           /\ decisions[e.closure].task = e.repair
                           /\ decisions[e.closure].outcome = "PASS"
                           /\ f \in vouched[e.closure]
FeedbackInOrder == \A f \in Feedbacks : InOrder(f)

LEMMA FeedbackStep ==
    ASSUME TypeInv, FeedbackTypeOK, AcceptedAreFinal, FeedbackInOrder,
           [DeliveryNext]_deliveryVars
    PROVE  FeedbackInOrder'
<1>0. \A v \in Validations : Accepted(v) =>
          Accepted(v)' /\ decisions'[v] = decisions[v] /\ decisions[v] # None
  <2>1. [Next]_vars
    BY DeliveryStepIsGoverned DEF deliveryVars
  <2> QED
    BY <2>1, AcceptedStayAccepted DEF AcceptedAreFinal
<1> DEFINE Names(f) == feedback[f].original \in Validations
                       /\ (Closed(f) => feedback[f].closure \in Validations)
           Stands(f) == feedback'[f] = feedback[f]
                        /\ \A v \in Validations : Accepted(v) => vouched'[v] = vouched[v]
<1>1. \A f \in Feedbacks : Recorded(f) => Names(f)
  BY DEF FeedbackTypeOK, Entries, Recorded, Closed
<1>2. ASSUME NEW f \in Feedbacks, Stands(f)
      PROVE  InOrder(f)'
  <2>1. Recorded(f)' => Recorded(f) /\ (Closed(f)' <=> Closed(f))
    BY <1>2 DEF Recorded, Closed
  <2>2. InOrder(f)
    BY DEF FeedbackInOrder
  <2> QED
    BY <1>0, <1>1, <1>2, <2>1, <2>2 DEF InOrder
<1>3. ASSUME \A f \in Feedbacks : Stands(f)
      PROVE  FeedbackInOrder'
  BY <1>2, <1>3 DEF FeedbackInOrder
<1>4. CASE UNCHANGED feedbackVars
  BY <1>3, <1>4 DEF feedbackVars
<1>5. CASE AssessRepairNext
  <2>1. PICK v \in Validations, t \in Tasks, w \in Windows, outcome \in AssessedOutcomes,
             fs \in SUBSET Feedbacks, kept \in Keeping : AssessRepair(v, t, w, outcome, fs, kept)
    BY <1>5 DEF AssessRepairNext
  <2>2. decisions[v] = None
    BY <2>1 DEF AssessRepair, Assess
  <2>3. \A u \in Validations \ {v} : vouched'[u] = vouched[u]
    BY <2>1 DEF AssessRepair, FeedbackTypeOK
  <2>4. UNCHANGED feedback
    BY <2>1 DEF AssessRepair
  <2> QED
    BY <1>0, <1>3, <2>2, <2>3, <2>4
<1>6. CASE FeedbackNext
  <2> feedback \in [Feedbacks -> Entries \cup {None}]
    BY DEF FeedbackTypeOK
  <2>0. UNCHANGED <<decisions, finalizations, vouched>>
    <3>1. UNCHANGED vars /\ UNCHANGED vouched
      BY <1>6 DEF FeedbackNext, RecordFeedback, LinkRepair, RetargetRepair, CloseFeedback
    <3> QED
      BY <3>1, StuttersFrame
  <2>1. ASSUME NEW f \in Feedbacks, NEW v \in Validations, NEW repair \in Tasks \cup {None},
               RecordFeedback(f, v, repair)
        PROVE  FeedbackInOrder'
    <3>1. \A g \in Feedbacks \ {f} : Stands(g)
      BY <2>0, <2>1 DEF RecordFeedback
    <3>2. /\ feedback'[f].original = v /\ feedback'[f].closure = None
          /\ feedback'[f].task = decisions[v].task /\ Accepted(v)
      BY <2>1 DEF RecordFeedback
    <3>3. InOrder(f)'
      BY <1>0, <3>2 DEF InOrder, Closed
    <3> HIDE DEF Stands
    <3> QED
      BY <1>2, <3>1, <3>3 DEF FeedbackInOrder
  <2>2. ASSUME NEW f \in Feedbacks, NEW t \in Tasks, LinkRepair(f, t) \/ RetargetRepair(f, t)
        PROVE  FeedbackInOrder'
    <3>1. \A g \in Feedbacks \ {f} : Stands(g)
      BY <2>0, <2>2 DEF LinkRepair, RetargetRepair
    <3>2. Recorded(f) /\ ~Closed(f)
      BY <2>2, NoneIsNothing DEF LinkRepair, RetargetRepair, FeedbackInOrder, InOrder, Recorded,
         Closed
    <3>3. /\ feedback'[f].original = feedback[f].original
          /\ feedback'[f].task = feedback[f].task
          /\ feedback'[f].closure = None
      BY <2>2, <3>2 DEF LinkRepair, RetargetRepair, Closed, Recorded, Entries
    <3>4. Accepted(feedback[f].original)
          /\ decisions[feedback[f].original].task = feedback[f].task
      BY <3>2 DEF FeedbackInOrder, InOrder
    <3>5. InOrder(f)'
      BY <1>0, <1>1, <3>2, <3>3, <3>4 DEF InOrder, Closed
    <3> HIDE DEF Stands
    <3> QED
      BY <1>2, <3>1, <3>5 DEF FeedbackInOrder
  <2>3. ASSUME NEW f \in Feedbacks, NEW v \in Validations, CloseFeedback(f, v)
        PROVE  FeedbackInOrder'
    <3>1. \A g \in Feedbacks \ {f} : Stands(g)
      BY <2>0, <2>3 DEF CloseFeedback
    <3>2. /\ Recorded(f) /\ Accepted(v)
          /\ feedback'[f] = [feedback[f] EXCEPT !.closure = v]
          /\ feedback[f].repair = decisions[v].task
          /\ decisions[v].task # feedback[f].task
          /\ f \in vouched[v]
          /\ decisions[v].outcome = "PASS"
      BY <2>3 DEF CloseFeedback
    <3>3. /\ feedback'[f].original = feedback[f].original
          /\ feedback'[f].task = feedback[f].task
          /\ feedback'[f].repair = feedback[f].repair
          /\ feedback'[f].closure = v
      BY <3>2 DEF Recorded, Entries
    <3>4. decisions[v].task \in Tasks
      BY <1>0, <3>2 DEF TypeInv, TypeOK, FilesTypeOK, ValidationDecisions
    <3>5. Accepted(feedback[f].original)
          /\ decisions[feedback[f].original].task = feedback[f].task
      BY <3>2 DEF FeedbackInOrder, InOrder
    <3>6. InOrder(f)'
      BY <1>0, <1>1, <2>0, <3>2, <3>3, <3>4, <3>5 DEF InOrder
    <3> HIDE DEF Stands
    <3> QED
      BY <1>2, <3>1, <3>6 DEF FeedbackInOrder
  <2> QED
    BY <1>6, <2>1, <2>2, <2>3 DEF FeedbackNext
<1> QED
  BY <1>4, <1>5, <1>6 DEF DeliveryNext, ProjectNext, deliveryVars

\* An issue in accepted work is closed only by the acceptance of its repair,
\* which assessed this issue, and what both tasks were accepted by stands
\* (close_feedback, verify_feedback_assessments, finalize).
THEOREM ClosedFeedbackWasRepairedAlways == DeliverySpec => []ClosedFeedbackWasRepaired
<1>1. DeliveryInit => AcceptedAreFinal /\ FeedbackInOrder
  BY DEF DeliveryInit, Init, FilesInit, FeedbackInit, AcceptedAreFinal, FeedbackInOrder, InOrder,
     Accepted, Recorded
<1>2. (TypeInv /\ DeliveryTypeOK) /\ (AcceptedAreFinal /\ FeedbackInOrder)
          /\ [DeliveryNext]_deliveryVars => (AcceptedAreFinal /\ FeedbackInOrder)'
  <2> SUFFICES ASSUME TypeInv, DeliveryTypeOK, AcceptedAreFinal, FeedbackInOrder,
                      [DeliveryNext]_deliveryVars
               PROVE  (AcceptedAreFinal /\ FeedbackInOrder)'
    OBVIOUS
  <2>1. [Next]_vars
    BY DeliveryStepIsGoverned DEF deliveryVars
  <2> QED
    BY <2>1, AcceptedStayAccepted, FeedbackStep DEF DeliveryTypeOK
<1>3. (TypeInv /\ DeliveryTypeOK) /\ (AcceptedAreFinal /\ FeedbackInOrder)
          => ClosedFeedbackWasRepaired
  <2> SUFFICES ASSUME FeedbackTypeOK, AcceptedAreFinal, FeedbackInOrder,
                      NEW f \in Feedbacks, Closed(f)
               PROVE  LET e == feedback[f]
                      IN  /\ e.repair \in Tasks \ {e.task}
                          /\ acceptance[e.task] = e.original
                          /\ status[e.repair] = "DONE"
                          /\ acceptance[e.repair] = e.closure
                          /\ decisions[e.closure].outcome = "PASS"
                          /\ f \in vouched[e.closure]
    BY DEF DeliveryTypeOK, ClosedFeedbackWasRepaired
  <2>1. feedback[f].original \in Validations /\ feedback[f].closure \in Validations
    BY DEF FeedbackTypeOK, Entries, Closed, Recorded
  <2> QED
    BY <2>1 DEF AcceptedAreFinal, FeedbackInOrder, InOrder, Closed
<1> QED
  BY <1>1, <1>2, <1>3, DeliveryTypesAlways, PTL DEF DeliverySpec

===============================================================================

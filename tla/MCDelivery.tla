------------------------------ MODULE MCDelivery ------------------------------
(* Instances of Delivery for TLC.                                           *)
EXTENDS Delivery, TLC

CONSTANTS t1, t2, t3, w1, r1, d1, v1, o1, s1, m1

NothingLost == {TRUE}

SharedKey ==
    {{[object |-> o, key |-> o1, intent |-> "WRITE", exclusive |-> FALSE]} : o \in Objects}

\* One plan over all tasks; its business dependency is met from the start.
AllTasks == [m \in {m1} |-> Tasks]
Map == [m \in {m1} |-> [t \in Tasks |-> IF t = t2 THEN {t1} ELSE {}]]
After(t, u) == [x \in Tasks |-> IF x = t THEN {u} ELSE {}]
TakingTurns == [m \in {m1} |-> {[x \in Tasks |-> {}], After(t2, t3)}]

Symmetry == Permutations(Reviews \ {r1}) \cup Permutations(Validations \ {v1})
            \cup Permutations(Dispatches \ {d1})

(***************************************************************************)
(* Accepted work: t1 was carried out in w1, accepted by v1 and released,   *)
(* and w1 may take a second task.  Init reaches this by add-task, evaluate,*)
(* prepare, confirm, record-completion-signal, assess, finalize and        *)
(* release-done-task-occupancy.                                            *)
(***************************************************************************)
Placement == Reservation(t1, r1, [object |-> o1, key |-> o1, intent |-> "WRITE",
                                  exclusive |-> FALSE])
Vacated ==
    [status |-> "AVAILABLE_FOR_REUSE", task |-> t1, current |-> None,
     history |-> <<[task |-> t1, status |-> "DONE"]>>,
     reserved |-> None, reservation |-> None, trusted |-> TRUE]

AcceptedWork ==
    /\ status = [t \in Tasks |-> IF t = t1 THEN "DONE" ELSE "PLANNED"]
    /\ signals = [t \in Tasks |-> IF t = t1 THEN {s1} ELSE {}]
    /\ corrections = [t \in Tasks |-> 0]
    /\ verifications = [t \in Tasks |-> {}]
    /\ bindings = [t \in Tasks |-> {}]
    /\ waits = [t \in Tasks |-> [x \in Waits |-> "NONE"]]
    /\ impacts = [t \in Tasks |-> {}]
    /\ contract = None
    /\ changes = 0
    /\ outcomes = [t \in Tasks |-> {}]
    /\ registered = [t \in Tasks |-> None]
    /\ windows = [w \in Windows |-> IF w = w1 THEN Vacated ELSE None]
    /\ agents = [a \in Agents |-> None]
    /\ claims = [o \in Objects |-> {}]
    /\ stops = {}
    /\ recovery = [state |-> "NORMAL", epoch |-> 0, case |-> None, preserved |-> FALSE]
    /\ reviews = [r \in Reviews |->
                     IF r = r1
                     THEN [task |-> t1, eligible |-> TRUE, window |-> None, reuse |-> "NEW",
                           claims |-> {Placement}]
                     ELSE None]
    /\ plans = [d \in Dispatches |->
                   IF d = d1
                   THEN [task |-> t1, review |-> r1, direction |-> 0, window |-> None,
                         reuse |-> "NEW", agents |-> {}, replacement |-> None]
                   ELSE None]
    /\ confirmed = [d \in Dispatches |-> IF d = d1 THEN [task |-> t1, window |-> w1] ELSE None]
    /\ appendPlans = [p \in Appends |-> None]
    /\ appended = {}
    /\ quality = [d \in Dispatches |-> None]
    /\ decisions = [v \in Validations |->
                       IF v = v1
                       THEN [task |-> t1, window |-> w1, outcome |-> "PASS", direction |-> 0]
                       ELSE None]
    /\ finalizations = [v \in Validations |-> IF v = v1 THEN "APPROVED" ELSE "NONE"]
    /\ acceptance = [t \in Tasks |-> IF t = t1 THEN v1 ELSE None]
    /\ adjudicated = {}
    /\ released = {v1}
    /\ incidents = [c \in Cases |-> None]
    /\ takeovers = {}
    /\ verdicts = [c \in Cases |-> "NONE"]
    /\ resumed = {}
    /\ freed = {}
    /\ replaced = [t \in Tasks |-> None]
    /\ RevisionsInit
    /\ FeedbackInit

AcceptedWorkSpec == AcceptedWork /\ [][DeliveryNext]_deliveryVars

\* Bounds: claims are those of the reviews.
ReservedOnly == \A o \in Objects : \A c \in claims[o] : c.review # None
\* Statuses that only lead back to others, or to CANCELLED.
QuietStatuses == \A t \in Tasks : status[t] \notin {"PARTIAL", "CANCEL_REQUESTED"}
\* Conflicts and hard stops end the exploration, the boss is not asked, and no
\* validation id is spent on a decision that settles nothing: all that is in
\* GovClosing.
Undisputed ==
    /\ stops = {} /\ adjudicated = {}
    /\ \A t \in Tasks : status[t] # "CONFLICT"
    /\ \A v \in Validations : decisions[v] # None => decisions[v].outcome # "NEEDS_REVIEW"
==============================================================================

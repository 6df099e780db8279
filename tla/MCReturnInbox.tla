---------------------------- MODULE MCReturnInbox ----------------------------
(* Instances of ReturnInbox for TLC.                                        *)
EXTENDS ReturnInbox, TLC

CONSTANTS t1, w1, o1, r1, d1

Requested == [object |-> o1, key |-> o1, intent |-> "WRITE", exclusive |-> FALSE]
WholeObjects == {{Requested}}

Symmetry == Permutations(Agents) \cup Permutations(Validations) \cup Permutations(Tickets)
            \cup Permutations(Signals)

Placement == Reservation(t1, r1, Requested)

(***************************************************************************)
(* Work under way: t1 was reviewed and dispatched to w1, which works on    *)
(* it.  Init reaches this by add-task, evaluate, prepare and confirm.      *)
(***************************************************************************)
UnderWay ==
    /\ status = [t \in Tasks |-> IF t = t1 THEN "IN_PROGRESS" ELSE "PLANNED"]
    /\ windows = [w \in Windows |-> IF w = w1 THEN NewWindow(t1, TRUE) ELSE None]
    /\ signals = [t \in Tasks |-> {}]
    /\ corrections = [t \in Tasks |-> 0]
    /\ verifications = [t \in Tasks |-> {}]
    /\ bindings = [t \in Tasks |-> {}]
    /\ waits = [t \in Tasks |-> [x \in Waits |-> "NONE"]]
    /\ impacts = [t \in Tasks |-> {}]
    /\ contract = None
    /\ changes = 0
    /\ outcomes = [t \in Tasks |-> {}]
    /\ registered = [t \in Tasks |-> None]
    /\ agents = [a \in Agents |-> None]
    /\ claims = [o \in Objects |-> IF o = o1 THEN {Placement.claim} ELSE {}]
    /\ stops = {}
    /\ recovery = [state |-> "NORMAL", epoch |-> 0, case |-> None, preserved |-> FALSE]
    /\ reviews = [r \in Reviews |->
                     IF r = r1
                     THEN [task |-> t1, eligible |-> TRUE, window |-> None, reuse |-> "NEW",
                           claims |-> {Placement}]
                     ELSE None]
    /\ plans = [d \in Dispatches |->
                   IF d = d1
                   THEN [task |-> t1, review |-> r1, direction |-> 0, window |-> None,
                         reuse |-> "NEW", agents |-> {}, replacement |-> None]
                   ELSE None]
    /\ confirmed = [d \in Dispatches |-> IF d = d1 THEN [task |-> t1, window |-> w1] ELSE None]
    /\ appendPlans = [p \in Appends |-> None]
    /\ appended = {}
    /\ quality = [d \in Dispatches |-> None]
    /\ decisions = [v \in Validations |-> None]
    /\ finalizations = [v \in Validations |-> "NONE"]
    /\ acceptance = [t \in Tasks |-> None]
    /\ adjudicated = {}
    /\ released = {}
    /\ incidents = [c \in Cases |-> None]
    /\ takeovers = {}
    /\ verdicts = [c \in Cases |-> "NONE"]
    /\ resumed = {}
    /\ freed = {}
    /\ replaced = [t \in Tasks |-> None]
    /\ InboxInit

UnderWaySpec == UnderWay /\ [][InboxNext]_allVars

\* Bounds: claims are those of the review; what is not interrupted by a case
\* goes from work to review, conflict and DONE.
ReservedOnly == \A o \in Objects : \A c \in claims[o] : c.review # None
InCase == \E c \in Cases : incidents[c] # None
WorkGoesOn ==
    \A t \in Tasks : /\ status[t] \notin {"PARTIAL", "CANCEL_REQUESTED", "CANCELLED"}
                     /\ status[t] = "BLOCKED" => InCase
\* Of the files, only those of the inbox get lost, the others are in GovClosing.
OthersKeepFiles ==
    /\ \A t \in Tasks : status[t] = "DONE" => Accepted(acceptance[t])
    /\ \A t \in Tasks, v \in Validations : ValidationStop(t, v) \in stops => decisions[v] # None
    /\ recovery.case # None => incidents[recovery.case] # None
    /\ recovery.state = "CENTRAL_CONTROL_RECOVERED" => recovery.case \in takeovers
\* A conflict, a case, a killed submission or a correction, but one of them at
\* a time.
Troubles ==
    {trouble \in {"CONFLICT", "CASE", "KILL", "CORRECTION"} :
        \/ trouble = "CONFLICT" /\ stops # {}
        \/ trouble = "CASE" /\ InCase
        \/ trouble = "KILL" /\ \E k \in Tickets : returns[k] # None /\ ~Delivered(k)
        \/ trouble = "CORRECTION" /\ \E t \in Tasks : corrections[t] > 0}
OneTrouble == Cardinality(Troubles) <= 1
\* A case is one of the window, which is to be resumed.
CaseOfTheWindow ==
    \A c \in Cases : /\ incidents[c] # None => incidents[c].type = "TASK_WINDOW"
                     /\ verdicts[c] # "KEEP_FROZEN"
\* The boss decides on validations there are, while one of them is in dispute.
DecidedLate == adjudicated # {} => \E v \in Validations : decisions[v] # None /\ decisions[v].outcome = "CONFLICT"
==============================================================================

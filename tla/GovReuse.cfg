\* Two tasks with conflicting requests after the first one was accepted: they
\* take turns, share its window, and one of them repairs what is found wrong.
SPECIFICATION AcceptedWorkSpec
CONSTANTS
    Tasks = {t1, t2, t3}
    Windows = {w1}
    Agents = {}
    Objects = {o1, o2}
    Waits = {}
    Signals = {s1}
    Outcomes = {}
    Versions = {}
    Editions = {}
    Contracts = {}
    Reviews = {r1, r2, r3}
    Validations = {v1, v2, v3}
    Cases = {}
    Dispatches = {d1, d2, d3}
    Appends = {}
    Keeping <- NothingLost
    RequestSets <- SharedKey
    ExecutionMaps = {m1}
    PlanTasks <- AllTasks
    Approved <- Map
    Arrangements <- TakingTurns
    MaxRevisions = 2
    Feedbacks = {f1}
    None = None
    t1 = t1
    t2 = t2
    t3 = t3
    w1 = w1
    r1 = r1
    d1 = d1
    v1 = v1
    o1 = o1
    s1 = s1
    m1 = m1
    MaxCorrections = 0
    MaxChanges = 0
SYMMETRY Symmetry
CONSTRAINT ReservedOnly
CONSTRAINT QuietStatuses
CONSTRAINT Undisputed
INVARIANT DeliveryTypeOK
INVARIANT WindowsServeTwoTasks
INVARIANT ReservationsDoNotConflict
INVARIANT ReservationsWaitTheirTurn
INVARIANT ClosedFeedbackWasRepaired
CHECK_DEADLOCK FALSE

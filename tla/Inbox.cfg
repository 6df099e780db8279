\* Work under way that is handed back: two tickets, two validations, and a case
\* that cuts the window off.
SPECIFICATION UnderWaySpec
CONSTANTS
    Tasks = {t1}
    Windows = {w1}
    Agents = {}
    Objects = {o1}
    Waits = {}
    Signals = {s1, s2}
    Outcomes = {}
    Versions = {}
    Editions = {}
    Contracts = {}
    Reviews = {r1}
    Validations = {v1, v2}
    Cases = {c1}
    Dispatches = {d1}
    Appends = {}
    Tickets = {k1, k2}
    Validators = {x1}
    Keeping = {TRUE, FALSE}
    RequestSets <- WholeObjects
    None = None
    t1 = t1
    w1 = w1
    o1 = o1
    r1 = r1
    d1 = d1
    MaxCorrections = 1
    MaxChanges = 0
SYMMETRY Symmetry
CONSTRAINT ReservedOnly
CONSTRAINT WorkGoesOn
CONSTRAINT OthersKeepFiles
CONSTRAINT OneTrouble
CONSTRAINT CaseOfTheWindow
CONSTRAINT DecidedLate
INVARIANT InboxTypeOK
INVARIANT OneValidationAtATime
INVARIANT DoneCameThroughTheInbox
INVARIANT AdmittedReturnsAreKnown
CHECK_DEADLOCK FALSE

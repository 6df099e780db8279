\* A project under way: one handover while a handback is on its way to the
\* centre, and a correction that is made, sent, answered and verified.
SPECIFICATION StartedFairSpec
CONSTANTS
    Tasks = {t1}
    Windows = {w1}
    Agents = {}
    Objects = {}
    Waits = {}
    Signals = {}
    Outcomes = {}
    Versions = {}
    Editions = {}
    Contracts = {}
    Reviews = {}
    Validations = {}
    Cases = {}
    Dispatches = {}
    None = None
    c1 = c1
    m1 = m1
    t1 = t1
    w1 = w1
    MaxCorrections = 1
    MaxChanges = 0
    Threads = {c1, c2}
    Models = {m1}
    Handovers = {h1}
    Events = {e1}
    Reports = {n1}
    Orders = {}
    RefreshLimit = 1
    MaxLog = 2
    MaxWrites = 2
    MaxPending = 1
INVARIANT VerifiedCorrectionsWereApplied
INVARIANT AcknowledgedByCentres
PROPERTY HandbacksAreAcknowledged
PROPERTY ActivationsAreRecorded
CHECK_DEADLOCK FALSE

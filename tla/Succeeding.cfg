\* Two handovers among three threads, of the centre's role and of the
\* adjudicator's, with a write to the ledger, a refreshed package, and commands
\* that are killed between receipt and routing file.
SPECIFICATION Spec
CONSTANTS
    Tasks = {t1}
    Windows = {w1}
    Agents = {}
    Objects = {}
    Waits = {}
    Signals = {}
    Outcomes = {}
    Versions = {}
    Editions = {}
    Contracts = {}
    Reviews = {}
    Validations = {}
    Cases = {}
    Dispatches = {}
    None = None
    c1 = c1
    m1 = m1
    t1 = t1
    w1 = w1
    MaxCorrections = 0
    MaxChanges = 0
    Threads = {c1, c2, c3}
    Models = {m1}
    Handovers = {h1, h2}
    Events = {}
    Reports = {}
    Orders = {}
    RefreshLimit = 1
    MaxLog = 4
    MaxWrites = 2
    MaxPending = 1
SYMMETRY Symmetry
INVARIANT TypeOK
INVARIANT GenerationsHaveOneThread
INVARIANT FamiliesActivateOnce
INVARIANT NobodyHoldsTwoRoles
PROPERTY RolesPassOn
PROPERTY NothingSlipsThrough
CHECK_DEADLOCK FALSE

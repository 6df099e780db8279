\* Two cases, and a window to replace the first with.
SPECIFICATION Spec
CONSTANTS
    Tasks = {t1}
    Windows = {w1, w2}
    Agents = {a1}
    Objects = {o1}
    Waits = {}
    Signals = {s1}
    Outcomes = {}
    Versions = {}
    Editions = {}
    Contracts = {}
    Reviews = {r1}
    Validations = {v1}
    Cases = {c1, c2}
    Dispatches = {d1}
    Appends = {}
    Keeping <- NothingLost
    RequestSets <- WholeObjects
    None = None
    MaxCorrections = 0
    MaxChanges = 0
SYMMETRY Symmetry
CONSTRAINT ReservedOnly
CONSTRAINT QuietStatuses
INVARIANT FreezeHolds
INVARIANT EpochsTellCasesApart
INVARIANT ReplacedWindowsRest
PROPERTY TerminalIsFinal
PROPERTY ClaimsOutliveWork
CHECK_DEADLOCK FALSE

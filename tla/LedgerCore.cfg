\* One task under two corrections, two waits and a revision of the outline that
\* may drop its outcome; a window with a helper, and an object that may be
\* claimed twice.
SPECIFICATION LedgerSpec
CONSTANTS
    Tasks = {t1}
    Windows = {w1}
    Agents = {a1}
    Objects = {o1}
    Waits = {x1, x2}
    Signals = {s1}
    Outcomes = {y1}
    Versions <- MCVersions
    Editions = {e1, e2}
    Contracts <- MCContracts
    Reviews = {}
    Validations = {}
    Cases = {}
    Dispatches = {}
    None = None
    MaxCorrections = 2
    MaxChanges = 1
    e1 = e1
    e2 = e2
SYMMETRY Symmetry
CONSTRAINT FewClaims
INVARIANT UnheldTasksAreCurrent
INVARIANT SharedWritesAreStopped
PROPERTY HeldTaskGainsNothing
PROPERTY OldVerificationsDoNotFree
CHECK_DEADLOCK FALSE

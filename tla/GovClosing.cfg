\* One task from its plan to DONE, with a helper, a correction, two validations
\* and lost files.
SPECIFICATION Spec
CONSTANTS
    Tasks = {t1}
    Windows = {w1}
    Agents = {a1}
    Objects = {o1}
    Waits = {}
    Signals = {s1, s2}
    Outcomes = {}
    Versions = {}
    Editions = {}
    Contracts = {}
    Reviews = {r1}
    Validations = {v1, v2}
    Cases = {}
    Dispatches = {d1}
    Appends = {p1}
    Keeping = {TRUE, FALSE}
    RequestSets <- WholeObjects
    None = None
    MaxCorrections = 1
    MaxChanges = 0
SYMMETRY Symmetry
CONSTRAINT FewClaims
CONSTRAINT SecondSignalInConflict
INVARIANT TypeOK
INVARIANT DoneIsAccepted
PROPERTY ClaimsOutliveWork
CHECK_DEADLOCK FALSE

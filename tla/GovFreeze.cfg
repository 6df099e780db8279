\* docs/C08_DISCONNECTION_RECOVERY_CONTROLLER.md:39 against the release of an
\* earlier case.
SPECIFICATION Spec
CONSTANTS
    Tasks = {t1}
    Windows = {w1}
    Agents = {}
    Objects = {o1}
    Waits = {}
    Signals = {}
    Outcomes = {}
    Versions = {}
    Editions = {}
    Contracts = {}
    Reviews = {r1}
    Validations = {}
    Cases = {c1, c2}
    Dispatches = {d1}
    Appends = {}
    Keeping <- NothingLost
    RequestSets <- WholeObjects
    None = None
    MaxCorrections = 0
    MaxChanges = 0
CONSTRAINT ReservedOnly
PROPERTY FreezesEndByTheirOwnCase
CHECK_DEADLOCK FALSE

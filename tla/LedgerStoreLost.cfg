\* A locked mutation against one committed without the lock.
SPECIFICATION Spec
CONSTANTS
    Commands = {c1, u1}
    Unlocked = {u1}
    None = none
    MaxReceipts = 4
    MaxCrashes = 0
SYMMETRY Symmetry
INVARIANT RecordedIsDurable

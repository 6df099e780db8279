\* Three locked commands, five receipts, two kills.
SPECIFICATION Spec
CONSTANTS
    Commands = {c1, c2, c3}
    Unlocked = {}
    None = none
    MaxReceipts = 5
    MaxCrashes = 2
SYMMETRY Symmetry
INVARIANT ChainVerifies
INVARIANT RecordedIsDurable
PROPERTY ImplementsLog

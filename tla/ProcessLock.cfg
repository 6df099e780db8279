\* Three commands of process_lock, four pids, two kills.
SPECIFICATION FairSpec
CONSTANTS
    Procs = {m1, m2, m3}
    Pids = {d1, d2, d3, d4}
    Partial = partial
    None = none
    MaxCrashes = 2
INVARIANT TypeOK
INVARIANT MutualExclusion
INVARIANT InsideIsMarked
PROPERTY OnlyProvenDeadRecovered
PROPERTY ImplementsMutex
PROPERTY DeadMarkerRecovered

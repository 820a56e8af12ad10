\* Two processes, two locks, crashes, failed commits and failed marker writes.
SPECIFICATION FairSpec
CONSTANTS
    Procs = {p1, p2}
    Tasks = {t1, t2}
    Instances = {i1, i2, i3}
    NoLock = NoLock
    NoTask = NoTask
    MaxGen = 1
    CanFail = TRUE
INVARIANTS
    TypeOK
    MutualExclusion
    OwnerKeepsRow
    MarkerRecoverable
PROPERTIES
    ImplementsTaskMutex
    AlarmsComeFromRaces
    EveryCallReturns
CHECK_DEADLOCK FALSE

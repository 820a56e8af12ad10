\* Two processes that never fail: a landed commit is reported as missing.
SPECIFICATION Spec
CONSTANTS
    Procs = {p1, p2}
    Tasks = {t1, t2}
    Instances = {i1, i2, i3, i4}
    NoLock = NoLock
    NoTask = NoTask
    MaxGen = 2
    CanFail = FALSE
PROPERTIES
    DeniedCommitIsAbsent
CHECK_DEADLOCK FALSE

\* Three processes that start on one root, with crashes and lost files.
SPECIFICATION Spec
CONSTANTS
    Procs = {p1, p2, p3}
    Ids = {a1, a2, a3, a4}
    None = None
    MaxGen = 2
    CanFail = TRUE
SYMMETRY Symmetries
INVARIANTS
    OneAuthority
    UnusableOnlyAfterFailure
CHECK_DEADLOCK FALSE

\* Two controllers that may vanish, one identity of the gate, an agent with one
\* descendant.
SPECIFICATION FairAttemptSpec
CONSTANTS
    Controllers = {c1, c2}
    Candidates = {k1, k2}
    Bindings = {b1}
    None = None
    Orphaned = Orphaned
    MaxHolds = 0
    CanCrash = TRUE
    Root = root
    Descendants = {d1}
    NoReport = NoReport
INVARIANTS
    NothingOutlives
    ReportIsTrue
    OnlyUndisturbedWork
    WorksUnderReservation
PROPERTIES
    ReservationEnds
CHECK_DEADLOCK FALSE

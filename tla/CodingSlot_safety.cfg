\* Two controllers that may vanish, two gate bindings, one published HOLD.
SPECIFICATION Spec
CONSTANTS
    Controllers = {c1, c2}
    Candidates = {k1, k2}
    Bindings = {b1, b2}
    None = None
    Orphaned = Orphaned
    MaxHolds = 1
    CanCrash = TRUE
SYMMETRY Symmetries
INVARIANTS
    TypeOK
    OneAttemptAtATime
    ReviewExcludesAttempts
    OnlyReuseCorrupts
PROPERTIES
    FrozenStaysFrozen
    WorkIsNotRefused
CHECK_DEADLOCK FALSE

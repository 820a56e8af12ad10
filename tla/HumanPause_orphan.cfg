\* Two engines that never crash: a request that belongs to no waiting task.
SPECIFICATION Spec
CONSTANTS
    Engines = {e1, e2}
    Tasks = {t1}
    Starts = {"CLASSIFIED"}
    Targets = {"SPEC_READY"}
    Times = {d1, d2}
    None = None
    Torn = Torn
    MaxSeq = 4
    OneTime = FALSE
    CanCrash = FALSE
    LegalOnly = FALSE
INVARIANTS
    PendingIsInspectable
CHECK_DEADLOCK FALSE

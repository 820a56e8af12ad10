\* Two engines that crash, two tasks, legal and illegal targets.
SPECIFICATION Spec
CONSTANTS
    Engines = {e1, e2}
    Tasks = {t1, t2}
    Starts = {"CLASSIFIED"}
    Targets = {"SPEC_READY", "PLAN_READY"}
    Times = {d1, d2}
    None = None
    Torn = Torn
    MaxSeq = 3
    OneTime = TRUE
    CanCrash = TRUE
    LegalOnly = FALSE
SYMMETRY Symmetries
INVARIANTS
    WaitingHasItsRequest
    ResumesAreRecorded
PROPERTIES
    ResumesWhereApproved
CHECK_DEADLOCK FALSE

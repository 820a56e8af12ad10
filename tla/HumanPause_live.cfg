\* One engine that never crashes, two tasks, legal requests.
SPECIFICATION FairSpec
CONSTANTS
    Engines = {e1}
    Tasks = {t1, t2}
    Starts = {"CLASSIFIED", "PLAN_READY"}
    Targets = {"SPEC_READY", "PLAN_READY", "IMPLEMENTING", "TASK_REVIEW"}
    Times = {d1, d2}
    None = None
    Torn = Torn
    MaxSeq = 5
    OneTime = FALSE
    CanCrash = FALSE
    LegalOnly = TRUE
PROPERTIES
    PauseEnds
CHECK_DEADLOCK FALSE

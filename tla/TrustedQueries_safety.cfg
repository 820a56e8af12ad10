\* Two tasks, every call, three changes by others.
SPECIFICATION Spec
CONSTANTS
    TaskCount = 2
    Stages = {"DRAFT", "IMPLEMENTING", "BLOCKED", "TASK_REVIEW", "WAITING_HUMAN",
              "RC_READY", "VERIFIED", "CLOSED"}
    Calls <- AllCalls
    Projects <- SomeProjects
    MaxChanges = 3
    None = None
INVARIANTS
    ReportIsCurrent
    CaptureMatched
    AdvanceCommitsWhatItVerified
    
CHECK_DEADLOCK FALSE

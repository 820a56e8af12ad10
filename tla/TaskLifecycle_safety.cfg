\* Every state twice, one human pause, two findings.
SPECIFICATION Spec
CONSTANTS
    Findings = {f1, f2}
    None = None
    MaxVisits = 2
    MaxPauses = 1
SYMMETRY Symmetries
INVARIANTS
    PlanIsFrozen
    FixesAreClosed
    VerifiedAfterFix
    WorkGoesOn
    EveryCommitVerifies
CHECK_DEADLOCK FALSE

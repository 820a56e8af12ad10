\* One pause: a plan that nobody can be handed.
SPECIFICATION Spec
CONSTANTS
    Findings = {f1}
    None = None
    MaxVisits = 1
    MaxPauses = 1
INVARIANTS
    PlanCanBeHandedOver
CHECK_DEADLOCK FALSE

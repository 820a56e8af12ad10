\* Two engines, one task, two intakes and two moves, crashes.
SPECIFICATION Spec
CONSTANTS
    Engines = {e1, e2}
    Tasks = {t1}
    Intakes = {i1, i2}
    Moves = {m1, m2}
    None = None
    MaxEvents = 3
    CanCrash = TRUE
SYMMETRY Symmetries
INVARIANTS
    TypeOK
    ChainIntact
    ExportsAreCommitted
    ProofMatchesHistory
    AcceptedEventIsExported
PROPERTIES
    ImplementsTaskHistory
    RefusedMeansOvertaken
CHECK_DEADLOCK FALSE

CONSTANTS
    a1 = a1
    a2 = a2
    Attempts = {a1, a2}
    NumEvaluators = 2
    MaxWrites = 3
SPECIFICATION Spec
INVARIANTS
    StoredWhole
    RecordedExactly
    SettledLoadedWhole
CHECK_DEADLOCK FALSE

CONSTANTS
    a1 = a1
    a2 = a2
    Attempts = {a1, a2}
    NumEvaluators = 2
    MaxWrites = 2
SPECIFICATION Spec
INVARIANTS
    LoadedWhole
CHECK_DEADLOCK FALSE

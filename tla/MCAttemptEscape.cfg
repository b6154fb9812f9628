CONSTANTS
    MaxTries = 2
    NumEvaluators = 2
    MaxEvents = 2
    NoTrace = NoTrace
    TornTrace = TornTrace
SPECIFICATION Spec
INVARIANTS
    EscapeMeasured
CHECK_DEADLOCK FALSE

CONSTANTS
    MaxTries = 2
    NumEvaluators = 2
    MaxEvents = 2
    NoTrace = NoTrace
    TornTrace = TornTrace
SPECIFICATION FairSpec
INVARIANTS
    TypeOK
    AttemptSettled
    AgentFailureMeasured
PROPERTIES
    AttemptEnds
CHECK_DEADLOCK FALSE

CONSTANTS
    InitialFiles <- MCInitialFiles
    Solved <- MCSolved
    Absent = Absent
    Binary = Binary
    Words <- MCWords
    Leavings <- MCLeavings
    MaxFaults = 1
    Responses <- MCResponses
    MaxSteps = 2
    Separators <- MCSeparators
    Controls <- MCControls
    NotesPath = "new"
    NoPolicy = NoPolicy
SPECIFICATION Spec
INVARIANTS
    TypeOK
    CallsAnswered
    TraceTells
    ReplayReproduces
CHECK_DEADLOCK FALSE

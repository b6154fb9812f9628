CONSTANTS
    a1 = a1
    a2 = a2
    b = b
    c = c
    d = d
    Callers <- MCCallers
    ProcOf <- MCProcOf
    ModelOf <- MCModelOf
    Caching = {"A", "B", "C"}
    Requests = {"r"}
    Sizes = {1, 2}
    Price <- MCPrice
    NoFile = NoFile
    MaxCalls = 3
    MaxKills = 1
    MaxFaults = 1
SPECIFICATION Spec
INVARIANTS
    AnswersSound
PROPERTIES
    EntriesAtomic
CHECK_DEADLOCK FALSE

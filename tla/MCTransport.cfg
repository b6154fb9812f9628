CONSTANTS
    Callers = {c1, c2}
    Window = 2
    Allowances <- MCAllowances
    None = None
    Sizes = {2, 5}
    MaxRetries = 2
    BaseBackoff = 1
    MaxBackoff = 2
    MaxRetryAfter = 2
    RetryAfters <- MCRetryAfters
    Reported <- MCReported
SPECIFICATION FairSpec
INVARIANTS
    TypeOK
    WindowRespected
    SleepsExact
PROPERTIES
    SendsPermitted
    CallsReturn
CHECK_DEADLOCK FALSE

CONSTANTS
    NumCallers = 3
    MaxCalls = 4
    Limit <- MCLimit
    Unlimited = Unlimited
    Estimates <- MCEstimates
    Usages <- MCUsages
    Slack <- MCSlack
    MaxAdmissions = 7
SPECIFICATION Spec
INVARIANTS
    TypeOK
    CallCeiling
    ReservationsExact
    OvershootBounded
PROPERTIES
    NothingAfterCeiling
CHECK_DEADLOCK FALSE

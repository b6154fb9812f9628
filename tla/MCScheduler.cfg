CONSTANTS
    NumCases = 2
    Samples = 2
    Concurrency = 2
    MaxAttempts = 2
    NoResult = NoResult
SPECIFICATION FairSpec
INVARIANTS
    TypeOK
    SlotsConserved
    OnlyFaultsRetried
    EveryResultAccounted
    RoundsBalanced
PROPERTIES
    NoWorkAfterCancel
    ImplementsLedger
    RunReturns

CONSTANTS
    Weights <- MCWeights
    Allowance <- MCAllowance
    Sensitive = {"ci"}
    Dangerous = {"sudo"}
    Unit = 180
    MaxSamples = 2
    CaseOrder <- MCCaseOrder
    BugKinds <- MCBugKinds
    MaxRuns = 3
    Threshold = 60
    Limits <- MCLimits
    Budget = 900
    Studies <- MCStudies
    Plans <- MCPlans
    EventGroups <- MCEventGroups
    MaxEvents = 16
    HumanLabels = {"pass", "fail"}
    JudgeLabels = {"pass", "fail", "unsure"}
    Preferences = {"a", "b", "tie"}
    MaxExamples = 4
    MaxPairs = 3
    Builders = {b1, b2}
    Readers = {d1}
    Orders <- MCOrders
    Versions = {"v2"}
    Kinds <- MCKinds
    Words <- MCWords
    MaxCount = 30
    MaxEdits = 1
SPECIFICATION Spec
INVARIANTS ComparisonSound ClusteringSound SelectionFills JudgesMeasured GateMeans
    DatasetSound
PROPERTIES ScoringSound
CHECK_DEADLOCK FALSE

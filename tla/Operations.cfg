SPECIFICATION OpsSpec
CONSTANTS
    Branches <- MCBranches
    Metrics = {"cash"}
    Horizon = 2
    Dispatches = 2
INVARIANTS
    DigestTruthful
    SilenceMeansHealth
PROPERTIES
    WeeklyRerunHarmless
CHECK_DEADLOCK FALSE

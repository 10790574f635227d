SPECIFICATION FairSpec
CONSTANTS
    Callers <- MCCallers
    Questions <- MCQuestions
    Registry <- MCRegistry
    Category <- MCCategory
    Ttl <- MCTtl
    Sources <- MCSources
    MaxSize = 1
    Burst = 2
    Grain = 2
    Horizon = 4
    MaxAsks = 3
INVARIANTS
    PlatformSound
    BurstBounded
PROPERTIES
    RequestsEnd
CHECK_DEADLOCK FALSE

SPECIFICATION Cases
CONSTANTS
    WeightUnit = 20
    WeightFloor = 2
    MaxShift = 3
    MinHistory = 2
    AlertStreak = 2
    Quarter = 90
    YearCloses = 3
    HalfCloses = 2
    Depth = 5
    TargetHoldings = 2
    MaxHoldings = 3
    MinScore = 5
    ExitScore = 20
    PositionCap = 4000
    MinTrade = 100
    MinEntry = 200
    CashBuffer = 100
INVARIANTS
    LookAheadConfined
    ScoringSound
    StatisticsSound
    SelectionSound
    CountedOnce
CHECK_DEADLOCK FALSE

\* Two stocks of the universe and one that is only held; one target, one kept
\* name; one call less than the analysts ask for; two stocks are enough to rank;
\* two failures.
SPECIFICATION Spec
CONSTANTS
    TargetHoldings = 1
    MaxHoldings = 2
    MinScore = 40
    ExitScore = 40
    PositionCap = 5000
    MinTrade = 200
    MinEntry = 50
    CashBuffer = 100
    Symbols = {1, 2, 3}
    Universe = {1, 2}
    Answers <- OneAnswer
    MaxConcurrent = 2
    MaxCalls = 5
    RankMin = 2
    HeldQty = 5
    Price = 10
    Cash = 100
    Share = 2
    MaxFailures = 2
INVARIANTS DecidesOnce CallCapExact FlowReconciles StuckExitReported

\* Four days, rebalancing on the first and the third; gaps and delistings.
SPECIFICATION FairSpec
CONSTANTS
    A = A
    B = B
    Symbols = {A, B}
    Share = 1
    Tol = 0
    Slip = 1
    Commission = 1
    MarginReq = 0
    Days = 4
    Bars <- UpAndDown
    NoBar = NoBar
    Step = 2
    MaxStale = 1
    YieldUnit = 5
    MaxPart = 3
    Qtys = {2, 3, 4}
    Alphabetical <- TwoSymbols
    InitialCash = 14
INVARIANTS CashSound QuietDayAtClose TradesAtLaterOpen SnapshotsArePrefix
PROPERTIES Finishes
CHECK_DEADLOCK FALSE

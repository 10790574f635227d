\* Two jobs of any kind, one after the other or at the same time.
SPECIFICATION FairSpec
CONSTANTS
    A = A
    B = B
    Symbols = {A, B}
    Share = 2
    Tol = 1
    Slip = 1
    Commission = 0
    MarginReq = 0
    Sessions = {s1, s2}
    s1 = s1
    s2 = s2
    Price <- TwoPrices
    Held <- TwoHeld
    InitialCash = 9
    Qtys = {2}
    CashMoves <- SmallMoves
    PlanSize = 2
    Kinds = {"order", "cash", "mark", "pipeline"}
INVARIANTS SoundAlone PositionRowsWhole
PROPERTIES CommitIsSerial SessionsEnd
CHECK_DEADLOCK FALSE

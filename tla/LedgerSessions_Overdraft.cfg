\* The cash gate under two concurrent API orders.
SPECIFICATION FairSpec
CONSTANTS
    A = A
    B = B
    Symbols = {A, B}
    Share = 2
    Tol = 1
    Slip = 1
    Commission = 0
    MarginReq = 0
    Sessions = {s1, s2}
    s1 = s1
    s2 = s2
    Price <- TwoPrices
    Held <- TwoHeld
    InitialCash = 9
    Qtys = {2, 3}
    CashMoves <- SmallMoves
    PlanSize = 2
    Kinds = {"order"}
INVARIANTS NoOverdraft
CHECK_DEADLOCK FALSE

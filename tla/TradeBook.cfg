\* All four order sides on two symbols, market and limit orders, a commission
\* and a margin requirement.
SPECIFICATION Spec
CONSTANTS
    A = A
    B = B
    Symbols = {A, B}
    Share = 2
    Tol = 1
    Slip = 1
    Commission = 1
    MarginReq = 1
    Prices = {0, 3}
    Qtys <- AnyUnits
    Limits = {2, 3}
    OrderSides = {"BUY", "SELL", "SHORT", "COVER"}
    InitialCash = 10
    CashMoves <- SmallMoves
    MaxOrders = 3
    MaxFunding = 10
SYMMETRY SymbolSymmetry
INVARIANTS BooksBalance LedgerExplainsBook NoOverdraft
PROPERTIES NoDustAfterSell

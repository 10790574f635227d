\* Two processes and two attempts, with kills, failing, unacknowledged and silently lost commits.
SPECIFICATION FairSpec
CONSTANTS
    r1 = r1
    r2 = r2
    Runners = {r1, r2}
    MaxAttempts = 2
INVARIANTS TypeOK AttemptChain OneTrader CompletedIsSettled FailedHasNoTrades
PROPERTIES BookedUnderOwnRow ImplementsLedger ExecuteReturns StuckRunNoticed

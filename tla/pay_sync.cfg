SPECIFICATION Spec
CONSTANTS
    c1 = c1
    c2 = c2
    r1 = r1
    r2 = r2
    Bills = {c1, c2}
    Refunds = {r1, r2}
    Parent <- MCParent
    Early = {c2}
    f = f
    Reference <- MCReference
    FactsOf <- MCFactsOf
    Unreferenced = {}
    Revalued = {r1}
    MatchingSince = 1
    Day = 2
    Overlap = 1
    MaxWindows = 2
    Horizon = 3
    MaxFailures = 1
CHECK_DEADLOCK FALSE
INVARIANTS SyncLosesNothing
PROPERTIES RefundsAreVerified

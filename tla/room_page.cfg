SPECIFICATION MCSpec
CONSTANTS
    Types = {"T", "S"}
    Units = {"bed", "twin", "suite"}
    TypeOf <- MCTypeOf
    Factor <- MCFactor
    Kind <- MCKind
    Rate <- MCRate
    Baselines <- MCBaselines
    NewRates <- MCNewRates
    FirstDay = 1
    LastDay = 2
    Nights = {2, 8}
    ExtraNights = {6}
    Lot <- MCLot
    MaxChanges = 2
    MaxTurns = 3
    MaxStayChanges = 2
    None = None
    Null = Null
    p1 = p1 p2 = p2 k1 = k1
    Properties = {p1,p2}
    Keys = {k1,k2}
    Requests = {1,2}
    RetryLimit = 1
    MaxRevision = 2
    MaxEvents = 3
CHECK_DEADLOCK FALSE
INVARIANTS PricesAgree PageIsSafe
PROPERTIES BookedAsShown PageNeverGoesBack LockEnds

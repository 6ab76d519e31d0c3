SPECIFICATION MCSpec
CONSTANTS
    o1 = o1
    o2 = o2
    b1 = b1
    r1 = r1
    x1 = x1
    x2 = x2
    Orders = {o1, o2}
    Due <- MCDue
    Bills = {b1}
    Refunds = {r1}
    Parent <- MCParent
    Owners = {x1, x2}
    MaxAmount = 2
    MaxFacts = 3
    MaxHolds = 3
    Members = {m1, m2}
    Phones = {p1, p2}
    ListPrice = 2
    Units = 1
    Prices = {1, 2}
    MaxLodgingFacts = 3
    MaxPurchases = 2
    MaxPayments = 3
CHECK_DEADLOCK FALSE
SYMMETRY Symmetry
INVARIANTS NothingIsSpentTwice BalancesAreBacked MoneyMovesWhole FormsAreAccepted
PROPERTIES RefundsAreReserved

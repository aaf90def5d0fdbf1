SPECIFICATION RoutingSpec
CONSTANTS
    r1 = r1
    r2 = r2
    Accounts <- MCAccounts
    Weight <- MCWeight
    Score <- MCScore
    Orders <- MCOrders
    Outages <- MCOutages
    Routed <- MCRouted
    MaxTurns = 3
SYMMETRY MCSymmetry
INVARIANTS
    SharesAreFair
    SlotsAreAttempts
PROPERTIES
    WeightsKeepOrder
    SessionStays

SPECIFICATION CostsSpec
CONSTANTS
    a = a
    b = b
    u1 = u1
    u2 = u2
    None = None
    Codes = {a, b}
    Users = {u1, u2}
    FirstUser = u1
    Speakers <- MCSpeakers
    Providers <- MCProviders
    ByToken = {}
    Prices <- MCPrices
    FirstDay <- MCFirstDay
    Instants <- MCInstants
    Thresholds <- MCThresholds
    Amounts <- MCAmounts
    MaxCosts = 2
INVARIANTS PricedInForce HistoryCountsOnce  RangesTile
PROPERTY StatusOnlyWorsens

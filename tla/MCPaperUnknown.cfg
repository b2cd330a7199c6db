CONSTANTS
    r1 = r1
    r2 = r2
    o1 = o1
    o2 = o2
    o3 = o3
    i1 = i1
    i2 = i2
    v1 = v1
    v2 = v2
    st1 = st1
    Runs = {r1}
    Orders = {o1, o2}
    OrderSpec <- MCOrderSpec
    VenueOf <- OneVenue
    Workers = {w1}
    Times = {1}
    StopScopes <- NoScopes
    LatchScopes <- NoScopes
    MaxOrder = 2
    MaxPosition = 3
    MaxPortfolio = 4
    MaxStarts = 1
    NoOrder = NoOrder
    NoFill = NoFill
SPECIFICATION Spec
CHECK_DEADLOCK FALSE
PROPERTIES
    BlockedUntilReconciled

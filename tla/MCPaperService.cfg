CONSTANTS
    r1 = r1
    r2 = r2
    o1 = o1
    o2 = o2
    o3 = o3
    i1 = i1
    i2 = i2
    v1 = v1
    v2 = v2
    st1 = st1
    Runs = {r1}
    Orders = {o1, o2}
    OrderSpec <- MCOrderSpec
    VenueOf <- OneVenue
    Workers = {w1, w2}
    Times = {1, 2}
    StopScopes <- MCStopScopes
    LatchScopes <- MCLatchScopes
    MaxOrder = 2
    MaxPosition = 2
    MaxPortfolio = 3
    MaxStarts = 2
    NoOrder = NoOrder
    NoFill = NoFill
SYMMETRY Symmetry
SPECIFICATION Spec
CHECK_DEADLOCK FALSE
INVARIANTS
    TypeOK
    ReservationMatchesOrder
    PoolLimit
    BooksAgree
    NoActiveRunUnderGlobalLatch
PROPERTIES
    EndedOrdersStay

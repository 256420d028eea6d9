\* Receipts, transfers and dual-controlled adjustments race with checkout,
\* confirmation and expiry, and overdue reservations end.
CONSTANTS
    None = None
    k1 = k1
    k2 = k2
    k3 = k3
    c1 = c1
    c2 = c2
    v1 = v1
    v2 = v2
    s1 = s1
    s2 = s2
    o1 = o1
    o2 = o2
    a1 = a1
    m1 = m1
    m2 = m2
    Sessions = {s1, s2}
    Customers = {c1}
    Keys = {k1}
    Owner <- OwnerValue
    Orders = {o1}
    Variants = {v1}
    NumBuckets = 2
    VariantOf <- OneVariant
    Requests <- PickAll
    InitialStock <- Stock21
    Adjustments = {a1}
    Moves = {m1}
    MoveSizes = {2}
    MaxStock = 4
    ReservationTTL = 2
    TxTimeout = 1
    ApprovalTTL = 1
    BatchSize = 1
    MaxClock = 2
    MaxCarts = 1
    Ops = {"cart", "checkout", "confirm", "terminate", "receive", "transfer", "adjust", "expire"}
SPECIFICATION FairSpec
CHECK_DEADLOCK FALSE
INVARIANT StockReconciles
PROPERTIES
    KeepsPromise
    OverdueReleased

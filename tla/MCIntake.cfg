\* Checkout, confirmation, cancellation and expiry race over two buckets.
CONSTANTS
    None = None
    k1 = k1
    k2 = k2
    k3 = k3
    c1 = c1
    c2 = c2
    v1 = v1
    v2 = v2
    s1 = s1
    s2 = s2
    o1 = o1
    o2 = o2
    a1 = a1
    m1 = m1
    m2 = m2
    Sessions = {s1, s2}
    Customers = {c1, c2}
    Keys = {k1, k2, k3}
    Owner <- OwnerValue
    Orders = {o1, o2}
    Variants = {v1, v2}
    NumBuckets = 3
    VariantOf <- TwoVariants
    Requests <- TwoLines
    InitialStock <- Stock121
    Adjustments = {}
    Moves = {}
    MoveSizes = {}
    MaxStock = 2
    ReservationTTL = 2
    TxTimeout = 1
    ApprovalTTL = 1
    BatchSize = 2
    MaxClock = 3
    MaxCarts = 2
    Ops = {"cart", "checkout", "confirm", "terminate", "cancel", "transition", "expire"}
SPECIFICATION Spec
SYMMETRY OrderSymmetry
CHECK_DEADLOCK FALSE
INVARIANTS
    DecisionsHold
    NoOversell
    OneOrderPerSubmission
    AllOrNothing
PROPERTIES
    ReservationsFinal
    OrderMovesForward

\* Overlapping delivery operations and cash reconciliation of two orders.
CONSTANTS
    None = None
    d1 = d1
    d2 = d2
    c1 = c1
    c2 = c2
    m1 = m1
    r1 = r1
    r2 = r2
    u1 = u1
    u2 = u2
    u3 = u3
    s1 = s1
    s2 = s2
    k1 = k1
    Sessions = {s1, s2}
    Admins = {u1, u2, u3}
    Deliveries = {d1, d2}
    Couriers = {c1, c2}
    Manifests = {m1}
    Remittances = {r1, r2}
    ImportKeys = {k1}
    CsvTargets = {"PREPARING", "READY_FOR_PICKUP", "HANDED_TO_COURIER"}
    MaxAmount = 3
    Scenarios <- AllScenarios
SPECIFICATION FulfilmentSpec
SYMMETRY FulfilmentSymmetry
CHECK_DEADLOCK FALSE
INVARIANTS
    HandedOverInCustody
    PaymentFollowsDelivery
    NoOverAllocation
    RemittedIsVerified
PROPERTIES
    CashRecordsStand
    OnlyLegalMoves

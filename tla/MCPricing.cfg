\* Delivery configuration and settings change under customers.
CONSTANTS
    None = None
    z1 = z1
    z2 = z2
    r1 = r1
    r2 = r2
    r3 = r3
    p1 = p1
    w1 = w1
    l1 = l1
    l2 = l2
    d1 = d1
    d2 = d2
    g1 = g1
    g2 = g2
    e1 = e1
    e2 = e2
    k1 = k1
    Zones = {z1, z2}
    Rates = {r1, r2, r3}
    Pickups = {p1}
    Windows = {w1}
    Localities = {l1, l2}
    DelegationOf <- DelegationValue
    GovernorateOf <- GovernorateValue
    ActivePlaces = {l1, l2, d1, d2, g1, g2}
    Bizerte = g1
    Amounts = {0, 1, 2}
    MaxClock = 2
    Editors = {e1, e2}
    MaxEdits = 3
    Checkouts = {k1}
    Scenarios <- AllScenarios
SPECIFICATION PricingSpec
CHECK_DEADLOCK FALSE
INVARIANTS
    ActiveZoneServes
    MethodsMatchQuote
    AuditReplays
PROPERTY FreeOnlyWhenExplicit

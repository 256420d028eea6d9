\* Overlapping first requests for the cart of one customer.
CONSTANTS
    None = None
    a1 = a1
    a2 = a2
    c1 = c1
    c2 = c2
    e1 = e1
    g1 = g1
    g2 = g2
    t1 = t1
    t2 = t2
    s1 = s1
    s2 = s2
    h1 = h1
    h2 = h2
    st1 = st1
    o1 = o1
    v1 = v1
    v2 = v2
    v3 = v3
    k1 = k1
    k2 = k2
    x1 = x1
    x2 = x2
    r1 = r1
    r2 = r2
    Requests = {r1, r2}
    Admins = {a1, a2}
    Customers = {c1, c2}
    Emails = {e1}
    Subjects = {g1, g2}
    EmailOf <- EmailValue
    Tokens = {t1, t2}
    Sessions = {s1, s2}
    Challenges = {h1, h2}
    States = {st1}
    Onboardings = {o1}
    Variants = {v1, v2, v3}
    ProductOf <- ProductValue
    Carts = {k1, k2}
    Addresses = {x1, x2}
    Asked <- AskedValue
    MaxAttempts = 2
    MaxItems = 1
    MaxQuantity = 1
    MaxAddresses = 2
    MaxWishes = 1
    MaxStep = 2
    MaxVersion = 2
    Scenarios <- CartScenarios
SPECIFICATION AccessSpec
SYMMETRY IdSymmetry
CHECK_DEADLOCK FALSE
INVARIANT OneActiveCart

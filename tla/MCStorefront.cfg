\* Overlapping edits, uploads and imports of one product.
CONSTANTS
    None = None
    p1 = p1
    v1 = v1
    v2 = v2
    b1 = b1
    c1 = c1
    c2 = c2
    i1 = i1
    i2 = i2
    i3 = i3
    k1 = k1
    k2 = k2
    s1 = s1
    s2 = s2
    Sessions = {s1, s2}
    Products = {p1}
    Variants = {v1, v2}
    Brands = {b1}
    Categories = {c1, c2}
    Images = {i1, i2, i3}
    Batches = {k1, k2}
    ProductOf <- OneProduct
    Payloads <- Files
    Scenarios <- AllScenarios
SPECIFICATION StorefrontSpec
SYMMETRY StorefrontSymmetry
CHECK_DEADLOCK FALSE
INVARIANTS
    PublishedIsSellable
    PublishedUnderPublished
    NoCategoryCycle
    MediaConsistent
    LiveIsStored
    ImportedOnce
PROPERTIES
    RollbackWithinBatch

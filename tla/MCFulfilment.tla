--------------------------- MODULE MCFulfilment ---------------------------
(* Instances of Fulfilment for TLC. *)
EXTENDS Fulfilment, TLC

CONSTANTS d1, d2, c1, c2, m1, r1, r2, u1, u2, u3, s1, s2, k1

Order(status, courier, pickup) ==
    [status |-> status, courier |-> courier, pickup |-> pickup, cod |-> 2, paid |-> FALSE]

PaidAtTheDoor ==
    [status |-> "OUT_FOR_DELIVERY", courier |-> c1, pickup |-> FALSE, cod |-> 1, paid |-> TRUE]

Gone == Order("CANCELLED", None, FALSE)

Scenario(o1, o2, handlers) ==
    [start |-> [d \in Deliveries |-> IF d = d1 THEN o1 ELSE o2], ops |-> handlers]

\* A courier order from its confirmation to the handover, with every handler
\* that works on it, and then to the customer or back.
Dispatched ==
    Scenario(Order("CONFIRMED", None, FALSE), Gone,
        {"assignment", "unassign", "transition", "createManifest",
         "transitionManifest", "import", "orders"})

\* Couriers whose records change while they are assigned.
Fleet ==
    Scenario(Order("PREPARING", c1, FALSE), Gone,
        {"assignment", "transition", "createManifest", "orders", "couriers"})

OnTheRoad ==
    Scenario(Order("HANDED_TO_COURIER", c1, FALSE), Gone,
        {"annotate", "transition", "recordAttempt", "complete", "completeReturn",
         "import", "recordCollection", "resolveCollection"})

\* A pickup order, cancelled or collected and paid at the store.
AtTheStore ==
    Scenario(Order("PREPARING", None, TRUE), Gone,
        {"annotate", "transition", "complete", "import", "recordCollection",
         "resolveCollection", "orders"})

\* Two assigned deliveries that a manifest or an import moves together.
Together ==
    Scenario(Order("ASSIGNED_TO_COURIER", c1, FALSE), Order("ASSIGNED_TO_COURIER", c1, FALSE),
        {"assignment", "createManifest", "transitionManifest", "import", "orders"})

\* Cash taken at the door, allocated to two remittances and verified.
Remitted ==
    Scenario(Order("OUT_FOR_DELIVERY", c1, FALSE), Gone,
        {"recordCollection", "resolveCollection", "createRemittance",
         "reconcileRemittance", "resolveRemittance", "cash"})

\* The cash of two orders in one remittance.
Pooled ==
    Scenario(PaidAtTheDoor, PaidAtTheDoor,
        {"createRemittance", "reconcileRemittance", "cash", "complete"})

AllScenarios == {Dispatched, Fleet, OnTheRoad, AtTheStore, Together, Remitted, Pooled}

OnlyRemitted == {Remitted}

OnlyOnTheRoad == {OnTheRoad}

FulfilmentSymmetry ==
    Permutations(Sessions) \cup Permutations(Admins) \cup Permutations(Remittances)
=============================================================================

----------------------------- MODULE MCPricing -----------------------------
(* Instances of Pricing for TLC. *)
EXTENDS Pricing

CONSTANTS z1, z2, r1, r2, r3, p1, w1, l1, l2, d1, d2, g1, g2, e1, e2, k1

DelegationValue == l1 :> d1 @@ l2 :> d2

GovernorateValue == l1 :> g1 @@ l2 :> g2

\* A plain zone, and the rate of a place
Plain == [express |-> FALSE, ready |-> FALSE, priority |-> 0, minOrder |-> None,
          maxCod |-> None, free |-> None]

Rate(type, scope, fee) ==
    [type |-> type, scope |-> scope, priority |-> 0, fee |-> fee, minOrder |-> None,
     maxOrder |-> None, maxCod |-> None, from |-> None, until |-> None]

On(v) == [value |-> v, active |-> TRUE]

Linked == [active |-> TRUE, override |-> None]

\* Zone z1 serves l1 at one unit.
Start ==
    [zone |-> (z1 :> On(Plain) @@ z2 :> None),
     link |-> [zl \in Zones \X Localities |-> IF zl = <<z1, l1>> THEN Linked ELSE None],
     rate |-> (r1 :> On(Rate("BASE", z1, 1)) @@ r2 :> None @@ r3 :> None),
     pickup |-> (p1 :> None),
     window |-> (w1 :> None)]

OpenStore ==
    [key \in Keys |->
        IF key = "minimum_purchase_age" THEN 18
        ELSE key \notin {"maintenance.mode", "prelaunch.mode"}]

Scenario(start, handlers) ==
    [ops |-> handlers, start |-> start, settings |-> OpenStore, keys |-> {},
     rows |-> Zones \cup Rates,
     zoneValues |-> {Plain}, rateValues |-> {Rate("BASE", z1, 1)}, places |-> {l1}]

\* Two zones whose base rates are moved, ended and replaced
Rates2 ==
    [Scenario([Start EXCEPT !.zone[z2] = On(Plain), !.link[<<z2, l2>>] = Linked,
                            !.rate[r2] = On(Rate("BASE", z2, 1))], {"zones", "rates", "time"})
     EXCEPT !.rateValues = {Rate("BASE", z1, 1), Rate("BASE", z2, 1),
                            [Rate("BASE", z1, 1) EXCEPT !.until = 1],
                            [Rate("BASE", z1, 1) EXCEPT !.from = 1],
                            [Rate("BASE", z2, 1) EXCEPT !.priority = 1]}]

\* Rates of places, with limits, surcharges and an order
Places2 ==
    [Scenario(Start, {"rates", "checkout", "time"})
     EXCEPT !.rateValues = {[Rate("BASE", None, 1) EXCEPT !.minOrder = 1, !.maxOrder = 1],
                            [Rate("BASE", z1, 1) EXCEPT !.minOrder = 2],
                            [Rate("LOCALITY", l1, 2) EXCEPT !.maxCod = 2],
                            Rate("DELEGATION", d1, 1), Rate("GOVERNORATE", g1, 1),
                            Rate("EXPRESS_SURCHARGE", z1, 1), Rate("REMOTE_SURCHARGE", l1, 1)}]

\* Free zones and zero fees while an order is priced
Free ==
    [Scenario(Start, {"zones", "rates", "checkout"})
     EXCEPT !.rows = {z1, r1, r2},
            !.zoneValues = {Plain, [Plain EXCEPT !.free = 0], [Plain EXCEPT !.free = 2]},
            !.rateValues = {Rate("BASE", z1, 0), Rate("BASE", z1, 1),
                            [Rate("BASE", z1, 0) EXCEPT !.priority = 1]}]

\* Overlapping zones with priorities, limits and windows
Overlap ==
    [Scenario([Start EXCEPT !.rate[r2] = On(Rate("BASE", z2, 1))], {"zones", "links", "windows"})
     EXCEPT !.zoneValues = {Plain, [Plain EXCEPT !.minOrder = 2, !.maxCod = 1, !.priority = 1]},
            !.places = {l1, d2}]

\* A Bizerte Express zone, its settings and its coverage
Express ==
    [Scenario([Start EXCEPT !.zone[z1] = On([Plain EXCEPT !.express = TRUE, !.ready = TRUE])],
              {"zones", "links", "rates"})
     EXCEPT !.zoneValues = {Plain, [Plain EXCEPT !.express = TRUE],
                            [Plain EXCEPT !.express = TRUE, !.ready = TRUE]},
            !.rows = {z1, r1, r2}, !.places = {l1, l2, g1, g2}]

\* Pickup locations and their windows
Counter ==
    [Scenario(Start, {"pickups", "windows", "zones", "checkout"})
     EXCEPT !.start.zone[z1].active = FALSE]

\* Two administrators save settings, also the same one.
Settings ==
    [Scenario(Start, {"settings"})
     EXCEPT !.keys = {"minimum_purchase_age", "age_gate.entry.enabled"}]

\* A store without a minimum age is closed while orders are placed.
Closing ==
    [Scenario(Start, {"settings", "checkout"})
     EXCEPT !.keys = {"maintenance.mode", "minimum_purchase_age"},
            !.settings["minimum_purchase_age"] = None]

AllScenarios == {Rates2, Places2, Free, Overlap, Express, Counter, Settings, Closing}
=============================================================================

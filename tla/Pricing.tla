------------------------------ MODULE Pricing ------------------------------
(***************************************************************************)
(* The open store: delivery configuration and settings change while        *)
(* customers are priced and admitted.                                      *)
(***************************************************************************)
EXTENDS StorePolicy

CONSTANT Checkouts      \* requests to place an order

VARIABLES
    checkout,   \* request -> the zone it read, or None
    order       \* request -> the order it placed, or None

vars == <<config, clock, scenario, policyVars, checkout, order>>

PricingInit ==
    /\ scenario \in Scenarios
    /\ config = scenario.start
    /\ clock = 0
    /\ settings = [key \in Keys |-> [value |-> scenario.settings[key], version |-> 1]]
    /\ form = [e \in Editors |-> None]
    /\ audit = <<>>
    /\ checkout = [k \in Checkouts |-> None]
    /\ order = [k \in Checkouts |-> None]

\* The transaction is READ COMMITTED, so each statement sees what is committed
\* when it runs.  Here the policy and the zone are read.
CheckoutZone(k, l, amount, express) ==
    /\ "checkout" \in ops
    /\ checkout[k] = None /\ order[k] = None
    /\ evaluateCheckoutPolicy
    /\ Value("minimum_purchase_age") # None
    /\ ZoneOutcome(l, amount) = "OK"
    /\ checkout' = [checkout EXCEPT ![k] =
         [locality |-> l, amount |-> amount, express |-> express, now |-> clock,
          zone |-> SelectedZone(l), value |-> config.zone[SelectedZone(l)].value]]
    /\ UNCHANGED <<config, clock, policyVars, order>>

Refuse(k) ==
    /\ checkout' = [checkout EXCEPT ![k] = None]
    /\ UNCHANGED order

\* The rates are read, at the time the request began, and the order is placed
\* or refused.  One step: after the rates nothing is read that others change,
\* so the commit adds nothing but the order itself.
CheckoutRates(k) ==
    LET c == checkout[k]
        rates == SelectedRates(c.locality, c.zone, c.amount, c.now, c.express)
    IN
    /\ checkout[k] # None
    /\ IF /\ RateOutcome(c.locality, c.zone, c.amount, c.now, c.express) = "OK"
          /\ WithinMaxCod(c.locality, c.zone, c.value, c.amount, c.now, c.express)
       THEN /\ order' = [order EXCEPT ![k] =
                 [amount |-> c.amount, zone |-> c.zone, threshold |-> c.value.free, rates |-> rates,
                  delivery |-> DeliveryTotal(c.locality, c.zone, c.value, c.amount, c.now, c.express)]]
            /\ checkout' = [checkout EXCEPT ![k] = None]
       ELSE Refuse(k)
    /\ UNCHANGED <<config, clock, policyVars>>

\* A pickup order is priced from one read.
CheckoutPickup(k, p, amount) ==
    /\ "checkout" \in ops
    /\ checkout[k] = None /\ order[k] = None
    /\ evaluateCheckoutPolicy
    /\ Value("minimum_purchase_age") # None
    /\ PickupOutcome(p, amount) = "OK"
    /\ order' = [order EXCEPT ![k] = [amount |-> amount, zone |-> None, threshold |-> None,
                                      rates |-> {}, delivery |-> 0]]
    /\ UNCHANGED <<config, clock, policyVars, checkout>>

Tick ==
    /\ "time" \in ops
    /\ clock < MaxClock
    /\ clock' = clock + 1
    /\ UNCHANGED <<config, policyVars, checkout, order>>

ConfigStep ==
    /\ \/ \E z \in Zones \cap scenario.rows, v \in scenario.zoneValues : CreateZone(z, v) \/ UpdateZone(z, v)
       \/ \E z \in Zones \cap scenario.rows, active \in BOOLEAN : SetZoneActive(z, active)
       \/ \E z \in Zones \cap scenario.rows, place \in scenario.places, active \in BOOLEAN :
            \E override \in {None, 1} : LinkGeography(z, place, active, override)
       \/ \E r \in Rates \cap scenario.rows, v \in scenario.rateValues : CreateRate(r, v) \/ UpdateRate(r, v)
       \/ \E r \in Rates \cap scenario.rows, active \in BOOLEAN : SetRateActive(r, active)
       \/ \E p \in Pickups, limit \in {None, 1} :
            CreatePickup(p, limit, limit) \/ UpdatePickup(p, limit, limit)
       \/ \E p \in Pickups, active \in BOOLEAN : SetPickupActive(p, active)
       \/ \E w \in Windows, o \in Zones \cup Pickups : CreateWindow(w, o) \/ UpdateWindow(w, o)
       \/ \E w \in Windows, active \in BOOLEAN : SetWindowActive(w, active)
    /\ UNCHANGED <<clock, policyVars, checkout, order>>

PolicyStep ==
    /\ \/ \E e \in Editors, key \in Keys : OpenSetting(e, key)
       \/ \E e \in Editors : form[e] # None /\ \E x \in SettingValues[form[e].key] : SaveRead(e, x)
       \/ \E e \in Editors : SaveCommit(e)
    /\ UNCHANGED <<config, clock, checkout, order>>

PricingNext ==
    /\ \/ ConfigStep \/ PolicyStep \/ Tick
       \/ \E k \in Checkouts :
            \/ \E l \in Localities, amount \in Amounts, express \in BOOLEAN :
                 CheckoutZone(k, l, amount, express)
            \/ CheckoutRates(k)
            \/ \E p \in Pickups, amount \in Amounts : CheckoutPickup(k, p, amount)
    /\ UNCHANGED scenario

PricingSpec == PricingInit /\ [][PricingNext]_vars

-----------------------------------------------------------------------------
(* Properties *)

\* An active zone serves somebody at some price: it reaches an active locality
\* and has an active base rate that has begun, although zone, links and rates
\* are edited separately and a rate may be moved to another zone; only time
\* can end the rate.  An active Bizerte Express zone stays in Bizerte
\* (assertZoneHasSupportedLocality, assertAffectedActiveZonesHaveCurrentBase,
\* assertBizerteExpressReady).
ActiveZoneServes ==
    \A z \in Zones : ZoneActive(z) =>
        /\ HasSupportedLocality(config, z)
        /\ \E now \in 0..clock : HasCurrentBase(config, z, now)
        /\ assertBizerteExpressReady(config, z)

\* The storefront offers courier delivery to a locality exactly when some
\* order there can be priced: what is offered fails at most on the cash limit
\* of a particular order, and what can be ordered was offered.  Windows are
\* listed only where the zone is settled ("Match checkout's fail-closed zone
\* resolver", geography.service.ts).
MethodsMatchQuote ==
    \A l \in Localities :
        /\ CourierMethod(l) =>
             \E amount \in Amounts : Courier(l, amount, FALSE) \in {"OK", "MAXIMUM_COD_EXCEEDED"}
        /\ (\E amount \in Amounts, express \in BOOLEAN : Courier(l, amount, express) = "OK") =>
             CourierMethod(l) /\ Supported(GovernorateOf[l])
        /\ DeliveryWindows(l) # {} =>
             ZoneOutcome(l, Max(Amounts)) # "DELIVERY_CONFIGURATION_INVALID"

\* An order is delivered free only where somebody decided so: its zone's
\* threshold, as the order read it or as it is when the order is placed, is
\* reached, although zone and rates are read at different times
\* (assertZoneFeeConfiguration, validateRate, resolveFulfillment).
FreeOnlyWhenExplicit ==
    [][\A k \in Checkouts :
         order[k] = None /\ order'[k] # None =>
           LET o == order'[k] IN
           o.zone # None /\ o.delivery = 0 =>
             \E threshold \in {o.threshold, config.zone[o.zone].value.free} \ {None} :
               o.amount >= threshold]_vars

\* What the first n entries of a log leave of a setting that began as first
Leaves(log, n, key, first, setting) ==
    LET entries == {i \in DOMAIN log : i <= n /\ log[i].key = key} IN
    IF entries = {} THEN setting = first
    ELSE \E last \in entries :
           /\ \A i \in entries : i <= last
           /\ setting = [value |-> log[last].after, version |-> log[last].version]

FirstSetting(key) == [value |-> scenario.settings[key], version |-> 1]

\* The audit log replays to the settings: it ends with the value and version in
\* force, and each entry begins with what the entries before it left, although
\* an entry's beforeSummary is read before the update it describes and two
\* administrators may save the same setting (AdminSettingsService.update).
AuditReplays ==
    /\ \A key \in Keys : Leaves(audit, Len(audit), key, FirstSetting(key), settings[key])
    /\ \A i \in DOMAIN audit :
         Leaves(audit, i - 1, audit[i].key, FirstSetting(audit[i].key),
                [value |-> audit[i].before, version |-> audit[i].version - 1])

-----------------------------------------------------------------------------
(* The inductive invariant behind the theorems about Pricing, and what they *)
(* assume of the rows an instance starts from.                             *)

\* The rows that the checks of zones, links and rates read.
ConfigTyped(c) ==
    /\ c = [zone |-> c.zone, link |-> c.link, rate |-> c.rate, pickup |-> c.pickup, window |-> c.window]
    /\ c.zone \in [Zones -> ZoneRow \cup {None}]
    /\ c.link \in [Zones \X Localities -> LinkRow \cup {None}]
    /\ c.rate \in [Rates -> RateRow \cup {None}]

\* What is asked of an active zone; its rate may have ended since.
ZoneServes(c, z, now) ==
    /\ HasSupportedLocality(c, z)
    /\ \E t \in 0..now : HasCurrentBase(c, z, t)
    /\ assertBizerteExpressReady(c, z)

ZonesServe(c, now) == \A z \in Zones : c.zone[z] # None /\ c.zone[z].active => ZoneServes(c, z, now)

\* No two active rates can be meant at once.
RatesApart(c) ==
    \A r, q \in Rates :
        /\ r # q
        /\ c.rate[r] # None /\ c.rate[r].active
        /\ c.rate[q] # None /\ c.rate[q].active
        => ~ Ambiguous(c.rate[r].value, c.rate[q].value)

\* An active rate costs nothing only in a zone that is free for every order.
FeesExplicit(c) ==
    \A r \in Rates : c.rate[r] # None /\ c.rate[r].active /\ c.rate[r].value.fee = 0 =>
        LET z == c.rate[r].value.scope IN z \in Zones /\ c.zone[z] # None /\ c.zone[z].value.free = 0

WindowsTyped(c) == c.window \in [Windows -> WindowRow \cup {None}]

\* An instance starts from rows that edits may have left, and edits send values.
ASSUME StartAssumption ==
    \A sc \in Scenarios :
        /\ ConfigTyped(sc.start) /\ ZonesServe(sc.start, 0)
        /\ RatesApart(sc.start) /\ FeesExplicit(sc.start) /\ WindowsTyped(sc.start)
        /\ sc.zoneValues \subseteq ZoneValue /\ sc.rateValues \subseteq RateValue

\* An edit that is being saved has read the version it replaces, as it is until
\* that version is replaced.
EditsRead ==
    /\ settings = [key \in Keys |-> [value |-> Value(key), version |-> settings[key].version]]
    /\ \A key \in Keys : settings[key].version \in Nat
    /\ form = [e \in Editors |-> form[e]]
    /\ \A e \in Editors : form[e] # None =>
         LET f == form[e] IN
         /\ f.key \in Keys
         /\ f.version \in Nat /\ f.version <= settings[f.key].version
         /\ f.saving /\ settings[f.key].version = f.version => f.before = settings[f.key]

LogInv ==
    /\ Len(audit) \in Nat /\ audit = [i \in 1..Len(audit) |-> audit[i]]
    /\ EditsRead /\ AuditReplays

PricingInv ==
    /\ scenario \in Scenarios /\ clock \in Nat
    /\ ConfigTyped(config) /\ ZonesServe(config, clock)
    /\ LogInv

\* A request keeps the locality and the amount it is priced for.
CheckoutsTyped ==
    /\ checkout = [k \in Checkouts |-> checkout[k]]
    /\ order = [k \in Checkouts |-> order[k]]
    /\ \A k \in Checkouts : checkout[k] # None =>
            checkout[k].amount \in Amounts /\ checkout[k].locality \in Localities

\* What makes prices unambiguous and free delivery a decision
RatesInv ==
    /\ RatesApart(config) /\ FeesExplicit(config) /\ WindowsTyped(config)
    /\ CheckoutsTyped
=============================================================================

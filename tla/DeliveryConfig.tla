-------------------------- MODULE DeliveryConfig --------------------------
(***************************************************************************)
(* The delivery configuration administrators edit: zones, their links to   *)
(* localities, rates, pickup locations and time windows.                   *)
(*                                                                         *)
(* Every edit is one SERIALIZABLE transaction, in which MySQL locks what a *)
(* plain SELECT reads, so an edit is one step; a deadlock aborts and       *)
(* changes nothing.  Every edit also names the version of the row it was   *)
(* made from (updatedAt, version or a hash of the row) and is refused when *)
(* the row has another, so an accepted edit is one of the row as it is.    *)
(***************************************************************************)
EXTENDS Integers, FiniteSets

CONSTANTS
    None,               \* NULL, and no row
    Zones, Rates, Pickups, Windows,
    Localities,
    DelegationOf, GovernorateOf,
    ActivePlaces,       \* the places that are active and in active ones; no
                        \* operation changes the geography
    Bizerte,            \* the governorate BIZERTE_GOVERNORATE_CODE
    Amounts,            \* order amounts, in some unit of money
    MaxClock,
    Scenarios           \* [ops, start, zoneValues, rateValues, ...] of an instance

VARIABLES
    config,     \* the committed rows, see ConfigRows
    clock,
    scenario    \* the member of Scenarios this behaviour is about

Delegations == {DelegationOf[l] : l \in Localities}

Governorates == {GovernorateOf[l] : l \in Localities}

Places == Localities \cup Delegations \cup Governorates

ActiveLocalities == Localities \cap ActivePlaces

ASSUME GeographyAssumption ==
    /\ ActivePlaces \subseteq Places
    /\ None \notin Zones \cup Places \cup Pickups \cup Amounts
    /\ 0 \in Amounts /\ Amounts \subseteq Nat
    /\ IsFiniteSet(Rates)

\* Zones and the three kinds of places are rows of different tables.
ASSUME PlacesAssumption ==
    /\ Zones \cap Places = {}
    /\ Localities \cap (Delegations \cup Governorates) = {} /\ Delegations \cap Governorates = {}

ops == scenario.ops

BASE_RATE_TYPES == {"BASE", "GOVERNORATE", "DELEGATION", "LOCALITY"}

\* The weight and oversize surcharges are selected exactly as the remote one.
SURCHARGE_TYPES == {"REMOTE_SURCHARGE", "EXPRESS_SURCHARGE"}

Limit == Amounts \cup {None}

\* What a zone edit sets.  express: the code is BIZERTE_EXPRESS; ready: its
\* estimate is 30 to 50 minutes, paid in cash, assigned by hand, on WhatsApp.
ZoneValue ==
    [express: BOOLEAN, ready: BOOLEAN, priority: Nat, minOrder: Limit, maxCod: Limit, free: Limit]

\* active also stands for supported, which is always written with it.
ZoneRow == [value: ZoneValue, active: BOOLEAN]

LinkRow == [active: BOOLEAN, override: Nat \cup {None}]

\* scope is the zone or place a rate names, or None.  Weight bounds are the
\* same test as order bounds on another quantity.
RateValue ==
    [type: BASE_RATE_TYPES \cup SURCHARGE_TYPES,
     scope: Zones \cup Places \cup {None},
     priority: Nat, fee: Amounts, minOrder: Limit, maxOrder: Limit, maxCod: Limit,
     from: 0..MaxClock \cup {None}, until: 0..MaxClock \cup {None}]

RateRow == [value: RateValue, active: BOOLEAN]

ASSUME NullAssumption == None \notin ZoneRow \cup RateRow

PickupRow == [minOrder: Limit, maxCod: Limit, active: BOOLEAN]

WindowRow == [owner: Zones \cup Pickups, active: BOOLEAN]

ConfigRows ==
    [zone: [Zones -> ZoneRow \cup {None}],
     link: [Zones \X Localities -> LinkRow \cup {None}],
     rate: [Rates -> RateRow \cup {None}],
     pickup: [Pickups -> PickupRow \cup {None}],
     window: [Windows -> WindowRow \cup {None}]]

ZoneActive(z) == config.zone[z] # None /\ config.zone[z].active

RateActive(r) == config.rate[r] # None /\ config.rate[r].active

LinkActive(z, l) == config.link[<<z, l>>] # None /\ config.link[<<z, l>>].active

-----------------------------------------------------------------------------
(* Checks, on the rows c an edit leaves behind *)

\* currentRateWhere
CurrentAt(v, now) == (v.from # None => v.from <= now) /\ (v.until # None => v.until > now)

currentRate(c, r, now) ==
    /\ c.rate[r] # None
    /\ c.rate[r].active
    /\ CurrentAt(c.rate[r].value, now)

\* A current BASE rate of the zone as a whole
HasCurrentBase(c, z, now) ==
    \E r \in Rates :
        currentRate(c, r, now) /\ c.rate[r].value.type = "BASE" /\ c.rate[r].value.scope = z

HasSupportedLocality(c, z) ==
    \E l \in ActiveLocalities : c.link[<<z, l>>] # None /\ c.link[<<z, l>>].active

\* A zero fee needs a zone that is free whatever the order is worth.
assertZoneFeeConfiguration(c, z) ==
    c.zone[z].value.free # 0 =>
        ~ \E r \in Rates :
            /\ c.rate[r] # None
            /\ c.rate[r].active
            /\ c.rate[r].value.scope = z
            /\ c.rate[r].value.fee = 0

\* Bizerte Express has its settings, a locality, and none outside Bizerte.
assertBizerteExpressReady(c, z) ==
    c.zone[z].value.express =>
        /\ c.zone[z].value.ready
        /\ HasSupportedLocality(c, z)
        /\ \A l \in Localities :
             c.link[<<z, l>>] # None /\ c.link[<<z, l>>].active => GovernorateOf[l] = Bizerte

validateRate(v) ==
    /\ v.from # None /\ v.until # None => v.from < v.until
    /\ v.minOrder # None /\ v.maxOrder # None => v.minOrder <= v.maxOrder
    /\ v.type = "BASE" => v.scope \in Zones \cup {None}
    /\ v.type = "GOVERNORATE" => v.scope \in Governorates
    /\ v.type = "DELEGATION" => v.scope \in Delegations
    /\ v.type = "LOCALITY" => v.scope \in Localities
    /\ v.scope \in Zones => config.zone[v.scope] # None
    /\ v.fee = 0 => v.scope \in Zones /\ config.zone[v.scope].value.free = 0
    /\ v.scope \in Places => v.scope \in ActivePlaces

\* Two rates of one type, priority and scope whose validity periods overlap
Ambiguous(v, w) ==
    /\ v.type = w.type /\ v.priority = w.priority /\ v.scope = w.scope
    /\ v.until # None => (w.from # None => w.from < v.until)
    /\ v.from # None => (w.until # None => w.until > v.from)

assertNoAmbiguousRate(v, r) ==
    \A q \in Rates \ {r} : RateActive(q) => ~ Ambiguous(v, config.rate[q].value)

\* Mutant: the zone a rate is taken from is forgotten.
assertChangedZoneHasCurrentBase(c, before, after) ==
    after.type = "BASE" /\ after.scope \in Zones /\ ZoneActive(after.scope) =>
        HasCurrentBase(c, after.scope, clock)

\* The zones of a base rate before and after an edit keep a current one.
assertAffectedActiveZonesHaveCurrentBase(c, before, after) ==
    \A v \in {before, after} :
        v.type = "BASE" /\ v.scope \in Zones /\ ZoneActive(v.scope) =>
            HasCurrentBase(c, v.scope, clock)

-----------------------------------------------------------------------------
(* Zones *)

CreateZone(z, v) ==
    /\ "zones" \in ops
    /\ config.zone[z] = None
    /\ config' = [config EXCEPT !.zone[z] = [value |-> v, active |-> FALSE]]

\* Mutant: the fees are not looked at again.
UpdateZoneFeesUnchecked(z, v) ==
    LET c == [config EXCEPT !.zone[z].value = v] IN
    /\ "zones" \in ops
    /\ config.zone[z] # None
    /\ c.zone[z].active => assertBizerteExpressReady(c, z)
    /\ config' = c

UpdateZone(z, v) ==
    LET c == [config EXCEPT !.zone[z].value = v] IN
    /\ "zones" \in ops
    /\ config.zone[z] # None
    /\ assertZoneFeeConfiguration(c, z)
    /\ c.zone[z].active => assertBizerteExpressReady(c, z)
    /\ config' = c

SetZoneActive(z, active) ==
    /\ "zones" \in ops
    /\ config.zone[z] # None
    /\ active =>
         /\ assertZoneFeeConfiguration(config, z)
         /\ assertBizerteExpressReady(config, z)
         /\ HasSupportedLocality(config, z)
         /\ HasCurrentBase(config, z, clock)
    /\ config' = [config EXCEPT !.zone[z].active = active]

\* The active localities of a locality, delegation or governorate
resolveLocalityIds(place) ==
    {l \in ActiveLocalities : place \in {l, DelegationOf[l], GovernorateOf[l]}}

\* The links of every locality of a place are switched on or off at once.
LinkGeography(z, place, active, override) ==
    LET found == resolveLocalityIds(place)
        c == [config EXCEPT !.link = [zl \in Zones \X Localities |->
                IF zl[1] = z /\ zl[2] \in found
                THEN [active |-> active, override |-> override] ELSE config.link[zl]]]
    IN
    /\ "links" \in ops
    /\ config.zone[z] # None
    /\ found # {}
    /\ config.zone[z].value.express /\ active =>
         place \notin Governorates /\ \A l \in found : GovernorateOf[l] = Bizerte
    /\ ZoneActive(z) => HasSupportedLocality(c, z) /\ assertBizerteExpressReady(c, z)
    /\ config' = c

-----------------------------------------------------------------------------
(* Rates *)

CreateRate(r, v) ==
    /\ "rates" \in ops
    /\ config.rate[r] = None
    /\ validateRate(v)
    /\ config' = [config EXCEPT !.rate[r] = [value |-> v, active |-> FALSE]]

UpdateRate(r, v) ==
    LET c == [config EXCEPT !.rate[r].value = v] IN
    /\ "rates" \in ops
    /\ config.rate[r] # None
    /\ validateRate(v)
    /\ RateActive(r) => assertNoAmbiguousRate(v, r)
    /\ assertAffectedActiveZonesHaveCurrentBase(c, config.rate[r].value, v)
    /\ config' = c

SetRateActive(r, active) ==
    LET c == [config EXCEPT !.rate[r].active = active] IN
    /\ "rates" \in ops
    /\ config.rate[r] # None
    /\ validateRate(config.rate[r].value)
    /\ active => assertNoAmbiguousRate(config.rate[r].value, r)
    /\ assertAffectedActiveZonesHaveCurrentBase(c, config.rate[r].value, config.rate[r].value)
    /\ config' = c

-----------------------------------------------------------------------------
(* Pickup locations and windows.  The inventory location of a pickup is    *)
(* required to be active; no operation deactivates one.                    *)

CreatePickup(p, minOrder, maxCod) ==
    /\ "pickups" \in ops
    /\ config.pickup[p] = None
    /\ config' = [config EXCEPT !.pickup[p] =
                    [minOrder |-> minOrder, maxCod |-> maxCod, active |-> FALSE]]

UpdatePickup(p, minOrder, maxCod) ==
    /\ "pickups" \in ops
    /\ config.pickup[p] # None
    /\ config' = [config EXCEPT !.pickup[p].minOrder = minOrder, !.pickup[p].maxCod = maxCod]

SetPickupActive(p, active) ==
    /\ "pickups" \in ops
    /\ config.pickup[p] # None
    /\ config' = [config EXCEPT !.pickup[p].active = active]

\* The window's one owner exists and, for an active window, is active.
validateWindowOwner(owner, requireActive) ==
    LET row == IF owner \in Zones THEN config.zone[owner] ELSE config.pickup[owner] IN
    row # None /\ (requireActive => row.active)

CreateWindow(w, owner) ==
    /\ "windows" \in ops
    /\ config.window[w] = None
    /\ validateWindowOwner(owner, FALSE)
    /\ config' = [config EXCEPT !.window[w] = [owner |-> owner, active |-> FALSE]]

UpdateWindow(w, owner) ==
    /\ "windows" \in ops
    /\ config.window[w] # None
    /\ validateWindowOwner(owner, config.window[w].active)
    /\ config' = [config EXCEPT !.window[w].owner = owner]

SetWindowActive(w, active) ==
    /\ "windows" \in ops
    /\ config.window[w] # None
    /\ validateWindowOwner(config.window[w].owner, active)
    /\ config' = [config EXCEPT !.window[w].active = active]
=============================================================================

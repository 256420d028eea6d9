------------------------------- MODULE Quote -------------------------------
(***************************************************************************)
(* What a customer is offered and charged under a delivery configuration:  *)
(* the zone and the rates of a locality, the courier quote, and the        *)
(* delivery methods and windows the storefront lists before a quote.       *)
(***************************************************************************)
EXTENDS DeliveryConfig, Sums

OrElse(x, default) == IF x = None THEN default ELSE x

-----------------------------------------------------------------------------
(* Zones of a locality *)

\* eligibleZoneLinkWhere
EligibleZones(l) == {z \in Zones : LinkActive(z, l) /\ ZoneActive(z)}

ZonePriority(z, l) == OrElse(config.link[<<z, l>>].override, config.zone[z].value.priority)

TopZones(l) ==
    {z \in EligibleZones(l) : \A y \in EligibleZones(l) : ZonePriority(y, l) <= ZonePriority(z, l)}

\* The zone of an active locality, None when there is no single best one
SelectedZone(l) ==
    IF l \in ActiveLocalities /\ Cardinality(TopZones(l)) = 1
    THEN CHOOSE z \in TopZones(l) : TRUE ELSE None

-----------------------------------------------------------------------------
(* Rates *)

withinBounds(v, amount) ==
    /\ v.minOrder # None => amount >= v.minOrder
    /\ v.maxOrder # None => amount <= v.maxOrder
    /\ v.maxCod # None => amount <= v.maxCod

geographicRank(v, l, z) ==
    CASE v.scope = l -> 5
      [] v.scope = DelegationOf[l] -> 4
      [] v.scope = GovernorateOf[l] -> 3
      [] v.scope = z -> 2
      [] v.scope = None -> 1
      [] OTHER -> -1

baseTypeMatchesRank(v, rank) ==
    \/ rank = 5 /\ v.type = "LOCALITY"
    \/ rank = 4 /\ v.type = "DELEGATION"
    \/ rank = 3 /\ v.type = "GOVERNORATE"
    \/ rank \in {1, 2} /\ v.type = "BASE"

\* The rates of the highest rank, and of those the highest priority.  More
\* than one is DELIVERY_RATE_AMBIGUOUS.
chooseUnique(rs, l, z) ==
    LET rank(r) == geographicRank(config.rate[r].value, l, z)
        priority(r) == config.rate[r].value.priority
    IN {r \in rs : \A q \in rs :
          rank(q) < rank(r) \/ (rank(q) = rank(r) /\ priority(q) <= priority(r))}

Applicable(l, z, amount, now) ==
    {r \in Rates : /\ currentRate(config, r, now)
                   /\ geographicRank(config.rate[r].value, l, z) > 0
                   /\ withinBounds(config.rate[r].value, amount)}

selectBaseRate(l, z, amount, now) ==
    chooseUnique({r \in Applicable(l, z, amount, now) :
        baseTypeMatchesRank(config.rate[r].value, geographicRank(config.rate[r].value, l, z))}, l, z)

selectSurchargeRate(l, z, amount, now, type, express) ==
    chooseUnique({r \in Applicable(l, z, amount, now) :
        config.rate[r].value.type = type /\ (type = "EXPRESS_SURCHARGE" => express)}, l, z)

Surcharges(l, z, amount, now, express) ==
    UNION {selectSurchargeRate(l, z, amount, now, type, express) : type \in SURCHARGE_TYPES}

SumOfFees(rs) == Total([r \in rs |-> config.rate[r].value.fee], rs)

-----------------------------------------------------------------------------
(* The courier quote, in the two reads the code makes: the zone (zv is the *)
(* row as it was read), then the rates.                                    *)

ZoneOutcome(l, amount) ==
    IF l \notin ActiveLocalities \/ EligibleZones(l) = {} THEN "DELIVERY_AREA_UNSUPPORTED"
    ELSE IF SelectedZone(l) = None THEN "DELIVERY_CONFIGURATION_INVALID"
    ELSE IF amount < OrElse(config.zone[SelectedZone(l)].value.minOrder, 0) THEN "MINIMUM_ORDER_NOT_MET"
    ELSE "OK"

RateOutcome(l, z, amount, now, express) ==
    LET base == selectBaseRate(l, z, amount, now)
        extra(type) == selectSurchargeRate(l, z, amount, now, type, express)
    IN
    IF base = {} THEN "DELIVERY_RATE_UNAVAILABLE"
    ELSE IF \/ Cardinality(base) > 1
            \/ \E type \in SURCHARGE_TYPES : Cardinality(extra(type)) > 1
         THEN "DELIVERY_CONFIGURATION_INVALID"
    ELSE IF express /\ extra("EXPRESS_SURCHARGE") = {} THEN "EXPRESS_DELIVERY_UNAVAILABLE"
    ELSE "OK"

SelectedRates(l, z, amount, now, express) ==
    selectBaseRate(l, z, amount, now) \cup Surcharges(l, z, amount, now, express)

\* Delivery is free from the zone's threshold on.
DeliveryTotal(l, z, zv, amount, now, express) ==
    IF zv.free # None /\ amount >= zv.free THEN 0
    ELSE SumOfFees(SelectedRates(l, z, amount, now, express))

\* The order and its delivery are within every cash limit selected.
WithinMaxCod(l, z, zv, amount, now, express) ==
    LET total == amount + DeliveryTotal(l, z, zv, amount, now, express) IN
    /\ zv.maxCod # None => total <= zv.maxCod
    /\ \A r \in SelectedRates(l, z, amount, now, express) :
         config.rate[r].value.maxCod # None => total <= config.rate[r].value.maxCod

Courier(l, amount, express) ==
    LET z == SelectedZone(l) IN
    IF ZoneOutcome(l, amount) # "OK" THEN ZoneOutcome(l, amount)
    ELSE IF RateOutcome(l, z, amount, clock, express) # "OK"
         THEN RateOutcome(l, z, amount, clock, express)
    ELSE IF WithinMaxCod(l, z, config.zone[z].value, amount, clock, express) THEN "OK"
    ELSE "MAXIMUM_COD_EXCEEDED"

PickupOutcome(p, amount) ==
    CASE config.pickup[p] = None \/ ~ config.pickup[p].active -> "PICKUP_LOCATION_UNAVAILABLE"
      [] amount < OrElse(config.pickup[p].minOrder, 0) -> "MINIMUM_ORDER_NOT_MET"
      [] config.pickup[p].maxCod # None /\ amount > config.pickup[p].maxCod -> "MAXIMUM_COD_EXCEEDED"
      [] OTHER -> "OK"

-----------------------------------------------------------------------------
(* What the storefront lists.  Its caps of 20 links, 100 windows, 50       *)
(* pickups and 250 rates are out of an instance's reach.                   *)

\* A rate of the right type that some order within the zone's and its own
\* limits could be charged
canBackCourierMethod(v, l, z) ==
    LET zv == config.zone[z].value
        lowest == Max({OrElse(zv.minOrder, 0), OrElse(v.minOrder, 0)})
        limits == {zv.maxCod, v.maxOrder, v.maxCod} \ {None}
    IN
    /\ baseTypeMatchesRank(v, geographicRank(v, l, z))
    /\ \A limit \in limits : lowest <= limit

\* Mutant: the first of two best zones instead of none.
CourierMethodOfTied(l) ==
    /\ l \in ActiveLocalities
    /\ \E z \in TopZones(l), r \in Rates :
         currentRate(config, r, clock) /\ canBackCourierMethod(config.rate[r].value, l, z)

CourierMethod(l) ==
    LET z == SelectedZone(l) IN
    /\ z # None
    /\ \E r \in Rates : /\ currentRate(config, r, clock)
                        /\ canBackCourierMethod(config.rate[r].value, l, z)

DeliveryWindows(l) ==
    {w \in Windows : /\ config.window[w] # None
                     /\ config.window[w].active
                     /\ config.window[w].owner = SelectedZone(l)}

\* A locality the storefront marks as supported; a delegation or governorate
\* is supported when one of its localities is.
Supported(place) ==
    \E l \in ActiveLocalities :
        place \in {l, DelegationOf[l], GovernorateOf[l]} /\ EligibleZones(l) # {}
=============================================================================

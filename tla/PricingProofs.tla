--------------------------- MODULE PricingProofs ---------------------------
(***************************************************************************)
(* Proofs about the open store: active zones serve somebody, what is       *)
(* offered can be ordered, nothing is free by accident, and the audit log  *)
(* of the settings replays to them.                                        *)
(***************************************************************************)
EXTENDS Pricing, SumProofs, SequenceTheorems

\* The checks of a zone read its links, the rates and its value.
LEMMA ServesStill ==
    ASSUME NEW c, NEW d, NEW z, NEW now, ZoneServes(c, z, now),
           \A l \in Localities : d.link[<<z, l>>] = c.link[<<z, l>>],
           d.rate = c.rate, d.zone[z].value = c.zone[z].value
    PROVE  ZoneServes(d, z, now)
<1>1. HasSupportedLocality(c, z) => HasSupportedLocality(d, z)
    BY DEF HasSupportedLocality, ActiveLocalities
<1>2. ASSUME NEW t, HasCurrentBase(c, z, t) PROVE HasCurrentBase(d, z, t)
    BY <1>2 DEF HasCurrentBase, currentRate
<1>3. assertBizerteExpressReady(c, z) => assertBizerteExpressReady(d, z)
    BY <1>1 DEF assertBizerteExpressReady
<1> QED
    BY <1>1, <1>2, <1>3 DEF ZoneServes

\* An edit of one zone, whose other zones stay as they are.
LEMMA ZoneWritten ==
    ASSUME PricingInv, UNCHANGED clock, NEW z \in Zones, NEW row \in ZoneRow,
           config' = [config EXCEPT !.zone[z] = row],
           row.active => ZoneServes(config', z, clock)
    PROVE  ConfigTyped(config)' /\ ZonesServe(config, clock)'
<1> DEFINE t == [config.zone EXCEPT ![z] = row]
<1>1. t \in [Zones -> ZoneRow \cup {None}] /\ t[z] = row /\ \A y \in Zones : y # z => t[y] = config.zone[y]
    BY DEF PricingInv, ConfigTyped
<1>2. config' = [config EXCEPT !.zone = t]
    OBVIOUS
<1> HIDE DEF t
<1>3. config'.zone = t /\ UNCHANGED <<config.link, config.rate, config.pickup, config.window>>
    BY <1>2 DEF PricingInv, ConfigTyped
<1>4. ConfigTyped(config)'
    BY <1>1, <1>2, <1>3 DEF PricingInv, ConfigTyped
<1>5. ASSUME NEW y \in Zones, config'.zone[y] # None, config'.zone[y].active
      PROVE  ZoneServes(config', y, clock)
    <2>1. CASE y = z
        BY <1>1, <1>3, <1>5, <2>1
    <2>2. CASE y # z
        <3>1. ZoneServes(config, y, clock)
            BY <1>1, <1>3, <1>5, <2>2 DEF PricingInv, ZonesServe
        <3>2. config'.zone[y].value = config.zone[y].value
            BY <1>1, <1>3, <2>2
        <3> QED
            BY <1>3, <3>1, <3>2, ServesStill
    <2> QED
        BY <2>1, <2>2
<1> QED
    BY <1>4, <1>5 DEF ZonesServe

LEMMA CreateZoneKeeps ==
    ASSUME PricingInv, UNCHANGED clock, NEW z \in Zones, NEW v \in ZoneValue, CreateZone(z, v)
    PROVE  ConfigTyped(config)' /\ ZonesServe(config, clock)'
<1> DEFINE row == [value |-> v, active |-> FALSE]
<1>1. row \in ZoneRow /\ ~row.active /\ config' = [config EXCEPT !.zone[z] = row]
    BY DEF ZoneRow, CreateZone
<1> HIDE DEF row
<1> QED
    BY <1>1, ZoneWritten

LEMMA UpdateZoneKeeps ==
    ASSUME PricingInv, UNCHANGED clock, NEW z \in Zones, NEW v \in ZoneValue, UpdateZone(z, v)
    PROVE  ConfigTyped(config)' /\ ZonesServe(config, clock)'
<1> DEFINE old == config.zone[z]
           row == [old EXCEPT !.value = v]
<1>1. old \in ZoneRow
    BY DEF UpdateZone, PricingInv, ConfigTyped
<1>2. row \in ZoneRow /\ row.active = old.active
    BY <1>1 DEF ZoneRow
<1>3. config' = [config EXCEPT !.zone[z] = row]
    BY DEF UpdateZone
<1>4. /\ config'.zone[z] = row /\ config'.link = config.link /\ config'.rate = config.rate
      /\ config.zone[z] # None
    BY <1>3 DEF PricingInv, ConfigTyped, UpdateZone
<1>5. row.active => assertBizerteExpressReady(config', z)
    BY <1>4 DEF UpdateZone
<1>6. ASSUME row.active PROVE ZoneServes(config', z, clock)
    <2>1. ZoneServes(config, z, clock)
        BY <1>2, <1>4, <1>6 DEF PricingInv, ZonesServe
    <2>2. HasSupportedLocality(config', z)
        BY <1>4, <2>1 DEF ZoneServes, HasSupportedLocality
    <2>3. \A t : HasCurrentBase(config, z, t) => HasCurrentBase(config', z, t)
        BY <1>4 DEF HasCurrentBase, currentRate
    <2> QED
        BY <1>5, <1>6, <2>1, <2>2, <2>3 DEF ZoneServes
<1> HIDE DEF row
<1> QED
    BY <1>2, <1>3, <1>6, ZoneWritten

LEMMA SetZoneActiveKeeps ==
    ASSUME PricingInv, UNCHANGED clock, NEW z \in Zones, NEW active \in BOOLEAN, SetZoneActive(z, active)
    PROVE  ConfigTyped(config)' /\ ZonesServe(config, clock)'
<1> DEFINE old == config.zone[z]
           row == [old EXCEPT !.active = active]
<1>1. old \in ZoneRow
    BY DEF SetZoneActive, PricingInv, ConfigTyped
<1>2. row \in ZoneRow /\ row.active = active /\ row.value = old.value
    BY <1>1 DEF ZoneRow
<1>3. config' = [config EXCEPT !.zone[z] = row]
    BY DEF SetZoneActive
<1>4. config'.zone[z] = row /\ config'.link = config.link /\ config'.rate = config.rate
    BY <1>3 DEF PricingInv, ConfigTyped
<1> HIDE DEF row
<1>5. ASSUME row.active PROVE ZoneServes(config', z, clock)
    <2>1. /\ assertBizerteExpressReady(config, z) /\ HasSupportedLocality(config, z)
          /\ HasCurrentBase(config, z, clock) /\ clock \in 0..clock
        BY <1>2, <1>5 DEF SetZoneActive, PricingInv
    <2>2. ZoneServes(config, z, clock)
        BY <2>1 DEF ZoneServes
    <2> QED
        BY <1>2, <1>4, <2>2, ServesStill
<1> QED
    BY <1>2, <1>3, <1>5, ZoneWritten

LEMMA LinkGeographyKeeps ==
    ASSUME PricingInv, UNCHANGED clock, NEW z \in Zones, NEW place, NEW active \in BOOLEAN,
           NEW override \in {None, 1}, LinkGeography(z, place, active, override)
    PROVE  ConfigTyped(config)' /\ ZonesServe(config, clock)'
<1> DEFINE found == resolveLocalityIds(place)
           row == [active |-> active, override |-> override]
           t == [zl \in Zones \X Localities |->
                    IF zl[1] = z /\ zl[2] \in found THEN row ELSE config.link[zl]]
<1>1. row \in LinkRow
    BY DEF LinkRow
<1>2. config' = [config EXCEPT !.link = t]
    BY DEF LinkGeography
<1> HIDE DEF row, found
<1>3. /\ t \in [Zones \X Localities -> LinkRow \cup {None}]
      /\ \A y \in Zones, l \in Localities : y # z => t[<<y, l>>] = config.link[<<y, l>>]
    BY <1>1 DEF PricingInv, ConfigTyped
<1> HIDE DEF t
<1>4. config'.link = t /\ UNCHANGED <<config.zone, config.rate, config.pickup, config.window>>
    BY <1>2 DEF PricingInv, ConfigTyped
<1>5. ConfigTyped(config)'
    BY <1>2, <1>3, <1>4 DEF PricingInv, ConfigTyped
<1>6. ASSUME NEW y \in Zones, config'.zone[y] # None, config'.zone[y].active
      PROVE  ZoneServes(config', y, clock)
    <2>1. ZoneServes(config, y, clock)
        BY <1>4, <1>6 DEF PricingInv, ZonesServe
    <2>2. CASE y = z
        <3>1. HasSupportedLocality(config', z) /\ assertBizerteExpressReady(config', z)
            BY <1>4, <1>6, <2>2 DEF LinkGeography, ZoneActive
        <3>2. \A s : HasCurrentBase(config, z, s) => HasCurrentBase(config', z, s)
            BY <1>4 DEF HasCurrentBase, currentRate
        <3> QED
            BY <2>1, <2>2, <3>1, <3>2 DEF ZoneServes
    <2>3. CASE y # z
        <3>1. \A l \in Localities : config'.link[<<y, l>>] = config.link[<<y, l>>]
            BY <1>3, <1>4, <2>3
        <3> QED
            BY <1>4, <2>1, <3>1, ServesStill
    <2> QED
        BY <2>2, <2>3
<1> QED
    BY <1>5, <1>6 DEF ZonesServe

-----------------------------------------------------------------------------
(* Rates *)

\* A rate edit after which the zones that lose the rate still have a base rate.
LEMMA RateWritten ==
    ASSUME PricingInv, UNCHANGED clock, NEW r \in Rates, NEW row \in RateRow,
           config' = [config EXCEPT !.rate[r] = row],
           \/ config.rate[r] = None
           \/ \A z \in Zones :
                config.rate[r].value.type = "BASE" /\ config.rate[r].value.scope = z /\ ZoneActive(z) =>
                    HasCurrentBase(config', z, clock)
    PROVE  ConfigTyped(config)' /\ ZonesServe(config, clock)'
<1> DEFINE t == [config.rate EXCEPT ![r] = row]
<1>1. t \in [Rates -> RateRow \cup {None}] /\ t[r] = row /\ \A q \in Rates : q # r => t[q] = config.rate[q]
    BY DEF PricingInv, ConfigTyped
<1>2. config' = [config EXCEPT !.rate = t]
    OBVIOUS
<1> HIDE DEF t
<1>3. config'.rate = t /\ UNCHANGED <<config.link, config.zone, config.pickup, config.window>>
    BY <1>2 DEF PricingInv, ConfigTyped
<1>4. ConfigTyped(config)'
    BY <1>1, <1>2, <1>3 DEF PricingInv, ConfigTyped
<1>5. ASSUME NEW z \in Zones, config'.zone[z] # None, config'.zone[z].active
      PROVE  ZoneServes(config', z, clock)
    <2>1. ZoneServes(config, z, clock) /\ ZoneActive(z) /\ clock \in 0..clock
        BY <1>3, <1>5 DEF PricingInv, ZonesServe, ZoneActive
    <2>2. HasSupportedLocality(config', z) /\ assertBizerteExpressReady(config', z)
        BY <1>3, <2>1 DEF ZoneServes, HasSupportedLocality, assertBizerteExpressReady
    <2>3. PICK s \in 0..clock : HasCurrentBase(config, z, s)
        BY <2>1 DEF ZoneServes
    <2>4. PICK q \in Rates : /\ currentRate(config, q, s)
                             /\ config.rate[q].value.type = "BASE" /\ config.rate[q].value.scope = z
        BY <2>3 DEF HasCurrentBase
    <2>5. CASE q = r
        <3>1. config.rate[r] # None
            BY <2>4, <2>5 DEF currentRate
        <3>2. HasCurrentBase(config', z, clock)
            BY <2>1, <2>4, <2>5, <3>1
        <3> QED
            BY <2>1, <2>2, <3>2 DEF ZoneServes
    <2>6. CASE q # r
        <3>1. config'.rate[q] = config.rate[q]
            BY <1>1, <1>3, <2>6
        <3>2. HasCurrentBase(config', z, s)
            BY <2>4, <3>1 DEF HasCurrentBase, currentRate
        <3> QED
            BY <2>2, <3>2 DEF ZoneServes
    <2> QED
        BY <2>5, <2>6
<1> QED
    BY <1>4, <1>5 DEF ZonesServe

LEMMA CreateRateKeeps ==
    ASSUME PricingInv, UNCHANGED clock, NEW r \in Rates, NEW v \in RateValue, CreateRate(r, v)
    PROVE  ConfigTyped(config)' /\ ZonesServe(config, clock)'
<1> DEFINE row == [value |-> v, active |-> FALSE]
<1>1. row \in RateRow /\ config' = [config EXCEPT !.rate[r] = row] /\ config.rate[r] = None
    BY DEF RateRow, CreateRate
<1> HIDE DEF row
<1> QED
    BY <1>1, RateWritten

LEMMA UpdateRateKeeps ==
    ASSUME PricingInv, UNCHANGED clock, NEW r \in Rates, NEW v \in RateValue, UpdateRate(r, v)
    PROVE  ConfigTyped(config)' /\ ZonesServe(config, clock)'
<1> DEFINE old == config.rate[r]
           row == [old EXCEPT !.value = v]
<1>1. old \in RateRow
    BY DEF UpdateRate, PricingInv, ConfigTyped
<1>2. row \in RateRow
    BY <1>1 DEF RateRow
<1>3. config' = [config EXCEPT !.rate[r] = row]
    BY DEF UpdateRate
<1>4. \A z \in Zones :
        config.rate[r].value.type = "BASE" /\ config.rate[r].value.scope = z /\ ZoneActive(z) =>
            HasCurrentBase(config', z, clock)
    BY DEF UpdateRate, assertAffectedActiveZonesHaveCurrentBase
<1> HIDE DEF row
<1> QED
    BY <1>2, <1>3, <1>4, RateWritten

LEMMA SetRateActiveKeeps ==
    ASSUME PricingInv, UNCHANGED clock, NEW r \in Rates, NEW active \in BOOLEAN, SetRateActive(r, active)
    PROVE  ConfigTyped(config)' /\ ZonesServe(config, clock)'
<1> DEFINE old == config.rate[r]
           row == [old EXCEPT !.active = active]
<1>1. old \in RateRow
    BY DEF SetRateActive, PricingInv, ConfigTyped
<1>2. row \in RateRow
    BY <1>1 DEF RateRow
<1>3. config' = [config EXCEPT !.rate[r] = row]
    BY DEF SetRateActive
<1>4. \A z \in Zones :
        config.rate[r].value.type = "BASE" /\ config.rate[r].value.scope = z /\ ZoneActive(z) =>
            HasCurrentBase(config', z, clock)
    BY DEF SetRateActive, assertAffectedActiveZonesHaveCurrentBase
<1> HIDE DEF row
<1> QED
    BY <1>2, <1>3, <1>4, RateWritten

-----------------------------------------------------------------------------
(* The invariant *)

\* Pickup locations and windows are not read by the checks of zones.
LEMMA OthersWritten ==
    ASSUME PricingInv, UNCHANGED clock,
           \/ \E t : config' = [config EXCEPT !.pickup = t]
           \/ \E t : config' = [config EXCEPT !.window = t]
           \/ UNCHANGED config
    PROVE  ConfigTyped(config)' /\ ZonesServe(config, clock)'
<1>1. UNCHANGED <<config.zone, config.link, config.rate>> /\ ConfigTyped(config)'
    BY DEF PricingInv, ConfigTyped
<1>2. ASSUME NEW z \in Zones, config'.zone[z] # None, config'.zone[z].active
      PROVE  ZoneServes(config', z, clock)
    <2>1. ZoneServes(config, z, clock)
        BY <1>1, <1>2 DEF PricingInv, ZonesServe
    <2> QED
        BY <1>1, <2>1, ServesStill
<1> QED
    BY <1>1, <1>2 DEF ZonesServe

\* Pickup locations and windows
LEMMA PickupsAndWindows ==
    ASSUME PricingInv, UNCHANGED clock,
           \/ \E p \in Pickups, limit \in {None, 1} :
                CreatePickup(p, limit, limit) \/ UpdatePickup(p, limit, limit)
           \/ \E p \in Pickups, active \in BOOLEAN : SetPickupActive(p, active)
           \/ \E w \in Windows, o \in Zones \cup Pickups : CreateWindow(w, o) \/ UpdateWindow(w, o)
           \/ \E w \in Windows, active \in BOOLEAN : SetWindowActive(w, active)
    PROVE  ConfigTyped(config)' /\ ZonesServe(config, clock)'
<1>1. \/ \E t : config' = [config EXCEPT !.pickup = t]
      \/ \E t : config' = [config EXCEPT !.window = t]
    BY DEF CreatePickup, UpdatePickup, SetPickupActive, CreateWindow, UpdateWindow, SetWindowActive
<1> QED
    BY <1>1, OthersWritten

LEMMA ConfigStepKeeps ==
    ASSUME PricingInv, ConfigStep
    PROVE  ConfigTyped(config)' /\ ZonesServe(config, clock)'
<1>1. UNCHANGED clock /\ scenario.zoneValues \subseteq ZoneValue /\ scenario.rateValues \subseteq RateValue
    BY StartAssumption DEF ConfigStep, PricingInv
<1>2. CASE \E z \in Zones \cap scenario.rows, v \in scenario.zoneValues : CreateZone(z, v) \/ UpdateZone(z, v)
    BY <1>1, <1>2, CreateZoneKeeps, UpdateZoneKeeps
<1>3. CASE \E z \in Zones \cap scenario.rows, active \in BOOLEAN : SetZoneActive(z, active)
    BY <1>1, <1>3, SetZoneActiveKeeps
<1>4. CASE \E z \in Zones \cap scenario.rows, place \in scenario.places, active \in BOOLEAN :
            \E override \in {None, 1} : LinkGeography(z, place, active, override)
    BY <1>1, <1>4, LinkGeographyKeeps
<1>5. CASE \E r \in Rates \cap scenario.rows, v \in scenario.rateValues : CreateRate(r, v) \/ UpdateRate(r, v)
    BY <1>1, <1>5, CreateRateKeeps, UpdateRateKeeps
<1>6. CASE \E r \in Rates \cap scenario.rows, active \in BOOLEAN : SetRateActive(r, active)
    BY <1>1, <1>6, SetRateActiveKeeps
<1> QED
    BY <1>1, <1>2, <1>3, <1>4, <1>5, <1>6, PickupsAndWindows DEF ConfigStep

LEMMA TickKeeps ==
    ASSUME PricingInv, Tick
    PROVE  ConfigTyped(config)' /\ ZonesServe(config, clock)' /\ clock' \in Nat
<1>1. UNCHANGED config /\ clock' = clock + 1 /\ clock' \in Nat /\ 0..clock \subseteq 0..clock'
    BY DEF Tick, PricingInv
<1> QED
    BY <1>1 DEF PricingInv, ConfigTyped, ZonesServe, ZoneServes

\* What a log leaves depends on the entries that count.
LEMMA LeavesSame ==
    ASSUME NEW log, NEW longer, NEW n, NEW m, NEW key, NEW first, NEW setting,
           \A i : i \in DOMAIN log /\ i <= n /\ log[i].key = key <=>
                  i \in DOMAIN longer /\ i <= m /\ longer[i].key = key,
           \A i : i \in DOMAIN log /\ i <= n => longer[i] = log[i]
    PROVE  Leaves(longer, m, key, first, setting) <=> Leaves(log, n, key, first, setting)
<1> DEFINE a == {i \in DOMAIN log : i <= n /\ log[i].key = key}
           b == {i \in DOMAIN longer : i <= m /\ longer[i].key = key}
<1>1. a = b
    OBVIOUS
<1>2. \A i \in a : longer[i] = log[i]
    OBVIOUS
<1>3. Leaves(log, n, key, first, setting) <=>
        IF a = {} THEN setting = first
        ELSE \E last \in a : /\ \A i \in a : i <= last
                            /\ setting = [value |-> log[last].after, version |-> log[last].version]
    BY DEF Leaves
<1>4. Leaves(longer, m, key, first, setting) <=>
        IF b = {} THEN setting = first
        ELSE \E last \in b : /\ \A i \in b : i <= last
                            /\ setting = [value |-> longer[last].after, version |-> longer[last].version]
    BY DEF Leaves
<1> HIDE DEF a, b
<1> QED
    BY <1>1, <1>2, <1>3, <1>4

IsLog(log) == Len(log) \in Nat /\ log = [i \in 1..Len(log) |-> log[i]]

\* An entry is written after those there are.
LEMMA LogAppended ==
    ASSUME NEW log, IsLog(log), NEW entry
    PROVE  /\ IsLog(Append(log, entry))
           /\ Len(Append(log, entry)) = Len(log) + 1
           /\ Append(log, entry)[Len(log) + 1] = entry
           /\ \A i \in 1..Len(log) : Append(log, entry)[i] = log[i]
           /\ DOMAIN log = 1..Len(log)
           /\ DOMAIN Append(log, entry) = 1..(Len(log) + 1)
<1> DEFINE S == {log[i] : i \in 1..Len(log)} \cup {entry}
<1>1. log \in [1..Len(log) -> S] /\ Len(log) \in Nat
    BY DEF IsLog
<1>2. log \in Seq(S) /\ entry \in S
    BY <1>1, SeqDef
<1>3. Append(log, entry) \in Seq(S)
    BY <1>2, AppendProperties
<1> HIDE DEF S
<1>4. /\ Len(Append(log, entry)) = Len(log) + 1
      /\ Append(log, entry) \in [1..Len(Append(log, entry)) -> S]
    BY <1>2, <1>3, AppendProperties, LenProperties
<1>5. /\ Append(log, entry)[Len(log) + 1] = entry
      /\ \A i \in 1..Len(log) : Append(log, entry)[i] = log[i]
    BY <1>2, AppendProperties
<1>6. Len(Append(log, entry)) \in Nat /\ DOMAIN log = 1..Len(log)
    BY <1>1, <1>4
<1> DEFINE longer == Append(log, entry)
<1>7. longer = [i \in 1..Len(longer) |-> longer[i]] /\ DOMAIN longer = 1..Len(longer)
    BY <1>4
<1> HIDE DEF longer
<1>8. IsLog(longer)
    BY <1>6, <1>7 DEF IsLog, longer
<1> QED
    BY <1>4, <1>5, <1>6, <1>7, <1>8 DEF longer

\* A log that grows leaves what it left, except of the setting of its new entry.
LEMMA LeavesAppended ==
    ASSUME NEW log, IsLog(log), NEW entry, NEW key, NEW n \in Nat, NEW first, NEW setting
    PROVE  /\ n <= Len(log) =>
                (Leaves(Append(log, entry), n, key, first, setting) <=> Leaves(log, n, key, first, setting))
           /\ entry.key # key =>
                (Leaves(Append(log, entry), Len(log) + 1, key, first, setting)
                   <=> Leaves(log, Len(log), key, first, setting))
           /\ entry.key = key =>
                Leaves(Append(log, entry), Len(log) + 1, key, first,
                       [value |-> entry.after, version |-> entry.version])
<1> DEFINE longer == Append(log, entry)
           N == Len(log)
<1>1. /\ N \in Nat /\ DOMAIN log = 1..N /\ DOMAIN longer = 1..(N + 1)
      /\ longer[N + 1] = entry /\ \A i \in 1..N : longer[i] = log[i]
    BY LogAppended DEF IsLog
<1> HIDE DEF longer, N
<1>2. ASSUME n <= N PROVE Leaves(longer, n, key, first, setting) <=> Leaves(log, n, key, first, setting)
    <2>1. \A i : i \in 1..(N + 1) /\ i <= n => i \in 1..N
        BY <1>1, <1>2
    <2>2. \A i \in 1..N : i \in 1..(N + 1)
        BY <1>1
    <2> QED
        BY <1>1, <2>1, <2>2, LeavesSame
<1>3. ASSUME entry.key # key
      PROVE  Leaves(longer, N + 1, key, first, setting) <=> Leaves(log, N, key, first, setting)
    <2>1. \A i : i \in 1..(N + 1) => i = N + 1 \/ i \in 1..N
        BY <1>1
    <2>2. \A i \in 1..N : i \in 1..(N + 1) /\ i <= N /\ i <= N + 1
        BY <1>1
    <2> QED
        BY <1>1, <1>3, <2>1, <2>2, LeavesSame
<1>4. ASSUME entry.key = key
      PROVE  Leaves(longer, N + 1, key, first, [value |-> entry.after, version |-> entry.version])
    <2> DEFINE b == {i \in DOMAIN longer : i <= N + 1 /\ longer[i].key = key}
    <2>1. N + 1 \in b /\ \A i \in b : i <= N + 1
        BY <1>1, <1>4
    <2>2. Leaves(longer, N + 1, key, first, [value |-> entry.after, version |-> entry.version]) <=>
            IF b = {} THEN [value |-> entry.after, version |-> entry.version] = first
            ELSE \E last \in b :
                   /\ \A i \in b : i <= last
                   /\ [value |-> entry.after, version |-> entry.version] =
                        [value |-> longer[last].after, version |-> longer[last].version]
        BY DEF Leaves
    <2> HIDE DEF b
    <2> QED
        BY <1>1, <2>1, <2>2
<1> QED
    BY <1>2, <1>3, <1>4 DEF longer, N

\* The log and the edits depend on nothing else.
LEMMA LogUntouched ==
    ASSUME LogInv, UNCHANGED <<settings, audit, scenario>>, EditsRead'
    PROVE  LogInv'
<1>1. UNCHANGED <<settings, audit, scenario>> /\ \A key : FirstSetting(key)' = FirstSetting(key)
    BY DEF FirstSetting
<1>2. AuditReplays'
    BY <1>1 DEF LogInv, AuditReplays
<1> QED
    BY <1>1, <1>2 DEF LogInv

LEMMA EditsUntouched == EditsRead /\ UNCHANGED <<settings, form>> => EditsRead'
BY DEF EditsRead, Value

\* An editor begins or gives up, or keeps its key and version and has read the
\* setting.
LEMMA EditsWritten ==
    ASSUME EditsRead, UNCHANGED settings, NEW e \in Editors, NEW f, form' = [form EXCEPT ![e] = f],
           f # None => /\ f.key \in Keys /\ f.version \in Nat /\ f.version <= settings[f.key].version
                       /\ f.saving => f.before = settings[f.key]
    PROVE  EditsRead'
<1>1. /\ form' = [d \in Editors |-> form'[d]]
      /\ \A d \in Editors : form'[d] = (IF d = e THEN f ELSE form[d])
    BY DEF EditsRead
<1>2. ASSUME NEW d \in Editors, form'[d] # None
      PROVE  LET g == form'[d] IN
             /\ g.key \in Keys
             /\ g.version \in Nat /\ g.version <= settings[g.key].version
             /\ g.saving /\ settings[g.key].version = g.version => g.before = settings[g.key]
    BY <1>1, <1>2 DEF EditsRead
<1>3. UNCHANGED settings
    OBVIOUS
<1> QED
    BY <1>1, <1>2, <1>3 DEF EditsRead, Value

\* A save whose version is still the current one logs the version it replaces.
LEMMA SavedKeeps ==
    ASSUME LogInv, UNCHANGED scenario, NEW e \in Editors, form[e] # None, form[e].saving,
           settings[form[e].key].version = form[e].version,
           form' = [form EXCEPT ![e] = None], Saved(form[e])
    PROVE  LogInv'
<1> DEFINE f == form[e]
           key == f.key
           entry == [key |-> key, before |-> f.before.value, after |-> f.value,
                     version |-> f.before.version + 1]
           row == [value |-> f.value, version |-> f.version + 1]
<1>1. /\ key \in Keys /\ f.before = settings[key] /\ f.version \in Nat
      /\ settings[key] = [value |-> entry.before, version |-> entry.version - 1]
      /\ f.before.version = f.version
    BY DEF LogInv, EditsRead, Value
<1>2. /\ audit' = Append(audit, entry)
      /\ settings' = [settings EXCEPT ![key] = row]
    BY <1>1 DEF Saved
<1>3. /\ entry.key = key /\ row = [value |-> entry.after, version |-> entry.version]
      /\ row.version = settings[key].version + 1
    BY <1>1
<1> HIDE DEF entry, row
<1>4. /\ settings'[key] = row /\ \A k \in Keys : k # key => settings'[k] = settings[k]
      /\ \A d \in Editors : form'[d] = (IF d = e THEN None ELSE form[d])
      /\ form' = [d \in Editors |-> form'[d]]
    BY <1>1, <1>2 DEF LogInv, EditsRead
<1>5. IsLog(audit)
    BY DEF LogInv, IsLog
<1>6. /\ IsLog(audit') /\ Len(audit') = Len(audit) + 1 /\ Len(audit) \in Nat
      /\ audit'[Len(audit) + 1] = entry /\ \A i \in 1..Len(audit) : audit'[i] = audit[i]
      /\ DOMAIN audit' = 1..(Len(audit) + 1) /\ DOMAIN audit = 1..Len(audit)
    BY <1>2, <1>5, LogAppended DEF IsLog
<1>7. \A k : FirstSetting(k)' = FirstSetting(k)
    BY DEF FirstSetting
<1>8. EditsRead'
    <2>1. \A k \in Keys : settings[k] = [value |-> settings[k].value, version |-> settings[k].version]
        BY DEF LogInv, EditsRead, Value
    <2>2. \A k \in Keys : settings'[k] = [value |-> settings'[k].value, version |-> settings'[k].version]
        BY <1>4, <2>1 DEF row
    <2>3. settings' = [k \in Keys |-> settings'[k]]
        BY <1>2 DEF LogInv, EditsRead
    <2>4. \A k \in Keys : settings'[k].version \in Nat /\ settings'[k].version >= settings[k].version
        BY <1>1, <1>3, <1>4 DEF LogInv, EditsRead
    <2>5. settings'[key].version > f.version
        BY <1>1, <1>3, <1>4
    <2>6. ASSUME NEW d \in Editors, form'[d] # None
          PROVE  /\ form'[d].key \in Keys
                 /\ form'[d].version \in Nat /\ form'[d].version <= settings'[form'[d].key].version
                 /\ form'[d].saving /\ settings'[form'[d].key].version = form'[d].version =>
                      form'[d].before = settings'[form'[d].key]
        <3>1. d # e /\ form'[d] = form[d] /\ form[d] # None
            BY <1>4, <2>6
        <3>2. /\ form[d].key \in Keys /\ form[d].version \in Nat
              /\ form[d].version <= settings[form[d].key].version
              /\ settings[form[d].key].version \in Nat
              /\ form[d].saving /\ settings[form[d].key].version = form[d].version =>
                   form[d].before = settings[form[d].key]
            BY <3>1 DEF LogInv, EditsRead
        <3>3. CASE form[d].key = key
            BY <1>1, <1>3, <1>4, <2>5, <3>1, <3>2, <3>3
        <3>4. CASE form[d].key # key
            BY <1>4, <3>1, <3>2, <3>4
        <3> QED
            BY <3>3, <3>4
    <2> QED
        BY <1>4, <2>2, <2>3, <2>4, <2>6 DEF EditsRead, Value
<1>9. ASSUME NEW k \in Keys PROVE Leaves(audit', Len(audit'), k, FirstSetting(k), settings'[k])
    <2>1. Leaves(audit, Len(audit), k, FirstSetting(k), settings[k])
        BY DEF LogInv, AuditReplays
    <2>2. CASE k = key
        <3>1. Leaves(Append(audit, entry), Len(audit) + 1, k, FirstSetting(k),
                     [value |-> entry.after, version |-> entry.version])
            BY <1>3, <1>5, <1>6, <2>2, LeavesAppended
        <3> QED
            BY <1>2, <1>3, <1>4, <1>6, <2>2, <3>1
    <2>3. CASE k # key
        <3>1. Leaves(Append(audit, entry), Len(audit) + 1, k, FirstSetting(k), settings[k])
            BY <1>3, <1>5, <1>6, <2>1, <2>3, LeavesAppended
        <3> QED
            BY <1>2, <1>4, <1>6, <2>3, <3>1
    <2> QED
        BY <2>2, <2>3
<1>10. ASSUME NEW i \in DOMAIN audit'
       PROVE  Leaves(audit', i - 1, audit'[i].key, FirstSetting(audit'[i].key),
                     [value |-> audit'[i].before, version |-> audit'[i].version - 1])
    <2>1. i \in 1..(Len(audit) + 1) /\ i - 1 \in Nat /\ i - 1 <= Len(audit)
        BY <1>6
    <2>2. CASE i = Len(audit) + 1
        <3>1. Leaves(audit, Len(audit), key, FirstSetting(key), settings[key])
            BY <1>1 DEF LogInv, AuditReplays
        <3>2. Leaves(Append(audit, entry), Len(audit), key, FirstSetting(key), settings[key])
            BY <1>5, <1>6, <3>1, Len(audit) <= Len(audit), LeavesAppended
        <3>3. audit'[i] = entry /\ i - 1 = Len(audit)
            BY <1>6, <2>2
        <3> QED
            BY <1>1, <1>2, <1>3, <3>2, <3>3
    <2>3. CASE i # Len(audit) + 1
        <3>1. i \in 1..Len(audit) /\ i \in DOMAIN audit /\ audit'[i] = audit[i]
            BY <1>6, <2>1, <2>3
        <3>2. Leaves(audit, i - 1, audit[i].key, FirstSetting(audit[i].key),
                     [value |-> audit[i].before, version |-> audit[i].version - 1])
            BY <3>1 DEF LogInv, AuditReplays
        <3>3. Leaves(Append(audit, entry), i - 1, audit[i].key, FirstSetting(audit[i].key),
                     [value |-> audit[i].before, version |-> audit[i].version - 1])
            BY <1>5, <2>1, <3>2, LeavesAppended
        <3> QED
            BY <1>2, <3>1, <3>3
    <2> QED
        BY <2>2, <2>3
<1>11. AuditReplays'
    BY <1>7, <1>9, <1>10 DEF AuditReplays
<1> QED
    BY <1>6, <1>8, <1>11 DEF LogInv, IsLog

LEMMA PolicyStepKeeps ==
    ASSUME LogInv, UNCHANGED scenario, PolicyStep
    PROVE  LogInv'
<1>1. EditsRead
    BY DEF LogInv
<1>2. ASSUME NEW e \in Editors, NEW key \in Keys, OpenSetting(e, key) PROVE LogInv'
    <2> DEFINE new == [key |-> key, version |-> settings[key].version, saving |-> FALSE]
    <2>1. UNCHANGED <<settings, audit>> /\ form' = [form EXCEPT ![e] = new]
        BY <1>2 DEF OpenSetting
    <2>2. /\ new.key = key /\ new.version = settings[key].version /\ new.saving = FALSE
          /\ settings[key].version \in Nat /\ settings[key].version <= settings[key].version
        BY <1>1 DEF EditsRead
    <2> HIDE DEF new
    <2>3. EditsRead'
        BY <1>1, <2>1, <2>2, EditsWritten
    <2> QED
        BY <2>1, <2>3, LogUntouched
<1>3. ASSUME NEW e \in Editors, NEW x, form[e] # None, SaveRead(e, x) PROVE LogInv'
    <2> DEFINE f == form[e]
               new == [key |-> f.key, version |-> f.version, saving |-> TRUE, value |-> x, before |-> settings[f.key]]
    <2>1. UNCHANGED <<settings, audit>> /\ \E g \in {new, None} : form' = [form EXCEPT ![e] = g]
        BY <1>3 DEF SaveRead
    <2>2. new.key = f.key /\ new.version = f.version /\ new.before = settings[f.key]
        OBVIOUS
    <2>3. f.key \in Keys /\ f.version \in Nat /\ f.version <= settings[f.key].version
        BY <1>1, <1>3 DEF EditsRead
    <2> HIDE DEF new
    <2>4. EditsRead'
        BY <1>1, <2>1, <2>2, <2>3, EditsWritten
    <2> QED
        BY <2>1, <2>4, LogUntouched
<1>4. ASSUME NEW e \in Editors, SaveCommit(e) PROVE LogInv'
    <2>1. CASE settings[form[e].key].version = form[e].version
        BY <1>4, <2>1, SavedKeeps DEF SaveCommit
    <2>2. CASE settings[form[e].key].version # form[e].version
        <3>1. UNCHANGED <<settings, audit>> /\ form' = [form EXCEPT ![e] = None]
            BY <1>4, <2>2 DEF SaveCommit
        <3>2. EditsRead'
            BY <1>1, <3>1, EditsWritten
        <3> QED
            BY <3>1, <3>2, LogUntouched
    <2> QED
        BY <2>1, <2>2
<1> QED
    BY <1>2, <1>3, <1>4 DEF PolicyStep

LEMMA LogInvInit == PricingInit => LogInv
<1> SUFFICES ASSUME PricingInit PROVE LogInv
    OBVIOUS
<1>1. audit = <<>> /\ Len(audit) = 0 /\ DOMAIN audit = {} /\ audit = [i \in 1..0 |-> audit[i]]
    BY DEF PricingInit
<1>2. \A key \in Keys : settings[key] = FirstSetting(key)
    BY DEF PricingInit, FirstSetting
<1>3. AuditReplays
    BY <1>1, <1>2 DEF AuditReplays, Leaves
<1>4. EditsRead
    BY <1>2 DEF PricingInit, EditsRead, Value, FirstSetting
<1> QED
    BY <1>1, <1>3, <1>4 DEF LogInv

LEMMA PricingInvInit == PricingInit => PricingInv
<1> SUFFICES ASSUME PricingInit PROVE PricingInv
    OBVIOUS
<1>1. scenario \in Scenarios /\ config = scenario.start /\ clock = 0
    BY DEF PricingInit
<1>2. ConfigTyped(config) /\ ZonesServe(config, clock)
    BY <1>1, StartAssumption
<1> QED
    BY <1>1, <1>2, LogInvInit DEF PricingInv

LEMMA PricingInvNext == PricingInv /\ [PricingNext]_vars => PricingInv'
<1> SUFFICES ASSUME PricingInv, [PricingNext]_vars PROVE PricingInv'
    OBVIOUS
<1>1. ASSUME UNCHANGED <<config, clock>> PROVE ConfigTyped(config)' /\ ZonesServe(config, clock)' /\ clock' \in Nat
    BY <1>1, OthersWritten DEF PricingInv
<1>3. UNCHANGED scenario
    BY DEF PricingNext, vars
<1>2. ASSUME UNCHANGED policyVars PROVE LogInv'
    BY <1>2, <1>3, LogUntouched, EditsUntouched DEF PricingInv, LogInv, policyVars
<1>4. CASE ConfigStep
    <2>1. UNCHANGED <<clock, policyVars>>
        BY <1>4 DEF ConfigStep
    <2> QED
        BY <1>2, <1>3, <1>4, <2>1, ConfigStepKeeps DEF PricingInv
<1>5. CASE PolicyStep
    <2>1. UNCHANGED <<config, clock>>
        BY <1>5 DEF PolicyStep
    <2> QED
        BY <1>1, <1>3, <1>5, <2>1, PolicyStepKeeps DEF PricingInv
<1>6. CASE Tick
    <2>1. UNCHANGED policyVars
        BY <1>6 DEF Tick
    <2> QED
        BY <1>2, <1>3, <1>6, <2>1, TickKeeps DEF PricingInv
<1>7. ASSUME NEW k \in Checkouts,
             \/ \E l \in Localities, amount \in Amounts, express \in BOOLEAN :
                  CheckoutZone(k, l, amount, express)
             \/ CheckoutRates(k)
             \/ \E p \in Pickups, amount \in Amounts : CheckoutPickup(k, p, amount)
      PROVE  PricingInv'
    <2>1. UNCHANGED <<config, clock, policyVars>>
        BY <1>7 DEF CheckoutZone, CheckoutRates, CheckoutPickup
    <2> QED
        BY <1>1, <1>2, <1>3, <2>1 DEF PricingInv
<1>8. CASE UNCHANGED vars
    <2>1. UNCHANGED <<config, clock, policyVars>>
        BY <1>8 DEF vars
    <2> QED
        BY <1>1, <1>2, <1>3, <2>1 DEF PricingInv
<1> QED
    BY <1>4, <1>5, <1>6, <1>7, <1>8 DEF PricingNext

\* PricingInv holds in every reachable state.
THEOREM PricingInvHolds == PricingSpec => []PricingInv
BY PricingInvInit, PricingInvNext, PTL DEF PricingSpec

\* However zones, links and rates are edited, an active zone reaches an active
\* locality and had a base rate, and Bizerte Express stays in Bizerte: the
\* handlers check every zone an edit can affect.
THEOREM ActiveZonesAlwaysServe == PricingSpec => []ActiveZoneServes
<1>1. PricingInv => ActiveZoneServes
    BY DEF PricingInv, ZonesServe, ZoneServes, ActiveZoneServes, ZoneActive
<1> QED
    BY <1>1, PricingInvHolds, PTL

\* The audit log replays to the settings, however many administrators save at
\* once: a save logs the version it read only if it replaces that version.
THEOREM AuditAlwaysReplays == PricingSpec => []AuditReplays
<1>1. PricingInv => AuditReplays
    BY DEF PricingInv, LogInv
<1> QED
    BY <1>1, PricingInvHolds, PTL

-----------------------------------------------------------------------------
(* Rates that are apart, and fees that are explicit *)

\* What the rates and windows of a configuration promise.
Sound(c) == RatesApart(c) /\ FeesExplicit(c) /\ WindowsTyped(c)

\* Whether two rates can be meant at once does not depend on their order.
LEMMA AmbiguousSymmetric ==
    ASSUME NEW v \in RateValue, NEW w \in RateValue, Ambiguous(v, w) PROVE Ambiguous(w, v)
BY DEF Ambiguous, RateValue

\* An edit of a zone: a zone that is not free for all has no active rate that
\* costs nothing.
LEMMA ZoneEditSound ==
    ASSUME PricingInv, Sound(config), NEW z \in Zones, NEW row \in ZoneRow,
           config' = [config EXCEPT !.zone[z] = row],
           \/ row.value.free = 0
           \/ \A r \in Rates : config.rate[r] # None /\ config.rate[r].active /\ config.rate[r].value.fee = 0 =>
                config.rate[r].value.scope # z
    PROVE  Sound(config)'
<1> DEFINE t == [config.zone EXCEPT ![z] = row]
<1>1. t[z] = row /\ \A y \in Zones : y # z => t[y] = config.zone[y]
    BY DEF PricingInv, ConfigTyped
<1>2. config' = [config EXCEPT !.zone = t]
    OBVIOUS
<1> HIDE DEF t
<1>3. config'.zone = t /\ config'.rate = config.rate /\ config'.window = config.window
    BY <1>2 DEF PricingInv, ConfigTyped
<1>4. row # None
    BY NullAssumption
<1>5. FeesExplicit(config)'
    BY <1>1, <1>3, <1>4 DEF Sound, FeesExplicit
<1> QED
    BY <1>3, <1>5 DEF Sound, RatesApart, WindowsTyped

\* An edit of a rate that checks the rate if it is active.
LEMMA RateEditSound ==
    ASSUME PricingInv, Sound(config), NEW r \in Rates, NEW row \in RateRow,
           config' = [config EXCEPT !.rate[r] = row],
           row.active => /\ assertNoAmbiguousRate(row.value, r)
                         /\ row.value.fee = 0 => /\ row.value.scope \in Zones
                                                 /\ config.zone[row.value.scope] # None
                                                 /\ config.zone[row.value.scope].value.free = 0
    PROVE  Sound(config)'
<1> DEFINE t == [config.rate EXCEPT ![r] = row]
<1>1. t[r] = row /\ \A q \in Rates : q # r => t[q] = config.rate[q]
    BY DEF PricingInv, ConfigTyped
<1>2. config' = [config EXCEPT !.rate = t]
    OBVIOUS
<1> HIDE DEF t
<1>3. config'.rate = t /\ config'.zone = config.zone /\ config'.window = config.window
    BY <1>2 DEF PricingInv, ConfigTyped
<1>4. FeesExplicit(config)'
    BY <1>1, <1>3 DEF Sound, FeesExplicit
<1>5. ASSUME NEW p \in Rates, NEW q \in Rates, p # q, t[p] # None, t[p].active, t[q] # None, t[q].active
      PROVE  ~ Ambiguous(t[p].value, t[q].value)
    <2>1. row.value \in RateValue
        BY DEF RateRow
    <2>2. \A x \in Rates : config.rate[x] # None => config.rate[x].value \in RateValue
        BY DEF PricingInv, ConfigTyped, RateRow
    <2>3. CASE p = r
        <3>1. q # r /\ t[p] = row /\ t[q] = config.rate[q]
            BY <1>1, <1>5, <2>3
        <3> QED
            BY <1>5, <3>1 DEF assertNoAmbiguousRate, RateActive
    <2>4. CASE q = r
        <3>1. p # r /\ t[q] = row /\ t[p] = config.rate[p]
            BY <1>1, <1>5, <2>4
        <3>2. ~ Ambiguous(row.value, config.rate[p].value)
            BY <1>5, <3>1 DEF assertNoAmbiguousRate, RateActive
        <3> QED
            BY <1>5, <2>1, <2>2, <3>1, <3>2, AmbiguousSymmetric
    <2>5. CASE p # r /\ q # r
        <3>1. t[p] = config.rate[p] /\ t[q] = config.rate[q]
            BY <1>1, <2>5
        <3> QED
            BY <1>5, <3>1 DEF Sound, RatesApart
    <2> QED
        BY <2>3, <2>4, <2>5
<1>6. RatesApart(config)'
    BY <1>3, <1>5 DEF RatesApart
<1> QED
    BY <1>3, <1>4, <1>6 DEF Sound, WindowsTyped

\* Every edit of zones leaves the rates sound.
LEMMA ZoneStepsSound ==
    ASSUME PricingInv, Sound(config), NEW z \in Zones,
           \/ \E v \in ZoneValue : CreateZone(z, v) \/ UpdateZone(z, v)
           \/ \E active \in BOOLEAN : SetZoneActive(z, active)
    PROVE  Sound(config)'
<1>1. ASSUME NEW v \in ZoneValue, CreateZone(z, v) PROVE Sound(config)'
    <2> DEFINE row == [value |-> v, active |-> FALSE]
    <2>1. row \in ZoneRow /\ config' = [config EXCEPT !.zone[z] = row] /\ config.zone[z] = None
        BY <1>1 DEF ZoneRow, CreateZone
    <2> HIDE DEF row
    <2>2. \A r \in Rates : config.rate[r] # None /\ config.rate[r].active /\ config.rate[r].value.fee = 0 =>
            config.rate[r].value.scope # z
        BY <2>1 DEF Sound, FeesExplicit
    <2> QED
        BY <2>1, <2>2, ZoneEditSound
<1>2. ASSUME NEW v \in ZoneValue, UpdateZone(z, v) PROVE Sound(config)'
    <2> DEFINE old == config.zone[z]
               row == [old EXCEPT !.value = v]
    <2>1. old \in ZoneRow
        BY <1>2 DEF UpdateZone, PricingInv, ConfigTyped
    <2>2. row \in ZoneRow /\ row.value = v
        BY <2>1 DEF ZoneRow
    <2>3. config' = [config EXCEPT !.zone[z] = row] /\ assertZoneFeeConfiguration(config', z)
        BY <1>2 DEF UpdateZone
    <2> HIDE DEF row
    <2>4. config'.zone[z] = row /\ config'.rate = config.rate
        BY <2>3 DEF PricingInv, ConfigTyped
    <2>5. \/ row.value.free = 0
          \/ \A r \in Rates : config.rate[r] # None /\ config.rate[r].active /\ config.rate[r].value.fee = 0 =>
                config.rate[r].value.scope # z
        BY <2>3, <2>4 DEF assertZoneFeeConfiguration
    <2> QED
        BY <2>2, <2>3, <2>5, ZoneEditSound
<1>3. ASSUME NEW active \in BOOLEAN, SetZoneActive(z, active) PROVE Sound(config)'
    <2> DEFINE old == config.zone[z]
               row == [old EXCEPT !.active = active]
    <2>1. old \in ZoneRow
        BY <1>3 DEF SetZoneActive, PricingInv, ConfigTyped
    <2>2. row \in ZoneRow /\ row.value = old.value
        BY <2>1 DEF ZoneRow
    <2>3. config' = [config EXCEPT !.zone[z] = row]
        BY <1>3 DEF SetZoneActive
    <2> HIDE DEF row
    <2>4. \/ row.value.free = 0
          \/ \A r \in Rates : config.rate[r] # None /\ config.rate[r].active /\ config.rate[r].value.fee = 0 =>
                config.rate[r].value.scope # z
        BY <2>2 DEF Sound, FeesExplicit
    <2> QED
        BY <2>2, <2>3, <2>4, ZoneEditSound
<1> QED
    BY <1>1, <1>2, <1>3

\* Every edit of rates leaves them sound: validateRate and
\* assertNoAmbiguousRate are made before a rate is or becomes active.
LEMMA RateStepsSound ==
    ASSUME PricingInv, Sound(config), NEW r \in Rates,
           \/ \E v \in RateValue : CreateRate(r, v) \/ UpdateRate(r, v)
           \/ \E active \in BOOLEAN : SetRateActive(r, active)
    PROVE  Sound(config)'
<1>1. ASSUME NEW v \in RateValue, CreateRate(r, v) PROVE Sound(config)'
    <2> DEFINE row == [value |-> v, active |-> FALSE]
    <2>1. row \in RateRow /\ ~row.active /\ config' = [config EXCEPT !.rate[r] = row]
        BY <1>1 DEF RateRow, CreateRate
    <2> HIDE DEF row
    <2> QED
        BY <2>1, RateEditSound
<1>2. ASSUME NEW v \in RateValue, UpdateRate(r, v) PROVE Sound(config)'
    <2> DEFINE old == config.rate[r]
               row == [old EXCEPT !.value = v]
    <2>1. old \in RateRow /\ config.rate[r] # None
        BY <1>2 DEF UpdateRate, PricingInv, ConfigTyped
    <2>2. row \in RateRow /\ row.value = v /\ row.active = old.active
        BY <2>1 DEF RateRow
    <2>3. config' = [config EXCEPT !.rate[r] = row]
        BY <1>2 DEF UpdateRate
    <2>4. row.active => assertNoAmbiguousRate(row.value, r)
        BY <1>2, <2>1, <2>2 DEF UpdateRate, RateActive
    <2>5. row.value.fee = 0 => /\ row.value.scope \in Zones
                               /\ config.zone[row.value.scope] # None
                               /\ config.zone[row.value.scope].value.free = 0
        BY <1>2, <2>2 DEF UpdateRate, validateRate
    <2> HIDE DEF row
    <2> QED
        BY <2>2, <2>3, <2>4, <2>5, RateEditSound
<1>3. ASSUME NEW active \in BOOLEAN, SetRateActive(r, active) PROVE Sound(config)'
    <2> DEFINE old == config.rate[r]
               row == [old EXCEPT !.active = active]
    <2>1. old \in RateRow
        BY <1>3 DEF SetRateActive, PricingInv, ConfigTyped
    <2>2. row \in RateRow /\ row.value = old.value /\ row.active = active
        BY <2>1 DEF RateRow
    <2>3. config' = [config EXCEPT !.rate[r] = row]
        BY <1>3 DEF SetRateActive
    <2>4. row.active => assertNoAmbiguousRate(row.value, r)
        BY <1>3, <2>2 DEF SetRateActive
    <2>5. row.value.fee = 0 => /\ row.value.scope \in Zones
                               /\ config.zone[row.value.scope] # None
                               /\ config.zone[row.value.scope].value.free = 0
        BY <1>3, <2>2 DEF SetRateActive, validateRate
    <2> HIDE DEF row
    <2> QED
        BY <2>2, <2>3, <2>4, <2>5, RateEditSound
<1> QED
    BY <1>1, <1>2, <1>3

\* Links and pickup locations are no part of it.
LEMMA OtherEditsSound ==
    ASSUME PricingInv, Sound(config),
           UNCHANGED <<config.zone, config.rate, config.window>>
    PROVE  Sound(config)'
BY DEF Sound, RatesApart, FeesExplicit, WindowsTyped

\* Windows keep their columns.
LEMMA WindowStepsSound ==
    ASSUME PricingInv, Sound(config), NEW w \in Windows,
           \/ \E o \in Zones \cup Pickups : CreateWindow(w, o) \/ UpdateWindow(w, o)
           \/ \E active \in BOOLEAN : SetWindowActive(w, active)
    PROVE  Sound(config)'
<1>1. ASSUME NEW row \in WindowRow, config' = [config EXCEPT !.window[w] = row] PROVE Sound(config)'
    <2> DEFINE t == [config.window EXCEPT ![w] = row]
    <2>1. t \in [Windows -> WindowRow \cup {None}]
        BY DEF Sound, WindowsTyped
    <2>2. config' = [config EXCEPT !.window = t]
        BY <1>1
    <2> HIDE DEF t
    <2>3. config'.window = t /\ UNCHANGED <<config.zone, config.rate>>
        BY <2>2 DEF PricingInv, ConfigTyped
    <2> QED
        BY <2>1, <2>3 DEF Sound, RatesApart, FeesExplicit, WindowsTyped
<1>2. ASSUME NEW o \in Zones \cup Pickups, CreateWindow(w, o) PROVE Sound(config)'
    <2>1. [owner |-> o, active |-> FALSE] \in WindowRow
        BY DEF WindowRow
    <2> QED
        BY <1>1, <1>2, <2>1 DEF CreateWindow
<1>3. ASSUME NEW o \in Zones \cup Pickups, UpdateWindow(w, o) PROVE Sound(config)'
    <2> DEFINE old == config.window[w]
    <2>1. old \in WindowRow
        BY <1>3 DEF Sound, WindowsTyped, UpdateWindow
    <2>2. [old EXCEPT !.owner = o] \in WindowRow
        BY <2>1 DEF WindowRow
    <2> QED
        BY <1>1, <1>3, <2>2 DEF UpdateWindow
<1>4. ASSUME NEW active \in BOOLEAN, SetWindowActive(w, active) PROVE Sound(config)'
    <2> DEFINE old == config.window[w]
    <2>1. old \in WindowRow
        BY <1>4 DEF Sound, WindowsTyped, SetWindowActive
    <2>2. [old EXCEPT !.active = active] \in WindowRow
        BY <2>1 DEF WindowRow
    <2> QED
        BY <1>1, <1>4, <2>2 DEF SetWindowActive
<1> QED
    BY <1>2, <1>3, <1>4

\* Every edit of the configuration leaves rates and windows sound.
LEMMA ConfigStepSound ==
    ASSUME PricingInv, Sound(config), ConfigStep
    PROVE  Sound(config)'
<1>1. scenario.zoneValues \subseteq ZoneValue /\ scenario.rateValues \subseteq RateValue
    BY StartAssumption DEF PricingInv
<1>2. CASE \E z \in Zones \cap scenario.rows, v \in scenario.zoneValues : CreateZone(z, v) \/ UpdateZone(z, v)
    BY <1>1, <1>2, ZoneStepsSound
<1>3. CASE \E z \in Zones \cap scenario.rows, active \in BOOLEAN : SetZoneActive(z, active)
    BY <1>3, ZoneStepsSound
<1>4. CASE \E z \in Zones \cap scenario.rows, place \in scenario.places, active \in BOOLEAN :
            \E override \in {None, 1} : LinkGeography(z, place, active, override)
    <2>1. \E t : config' = [config EXCEPT !.link = t]
        BY <1>4 DEF LinkGeography
    <2>2. UNCHANGED <<config.zone, config.rate, config.window>>
        BY <2>1 DEF PricingInv, ConfigTyped
    <2> QED
        BY <2>2, OtherEditsSound
<1>5. CASE \E r \in Rates \cap scenario.rows, v \in scenario.rateValues : CreateRate(r, v) \/ UpdateRate(r, v)
    BY <1>1, <1>5, RateStepsSound
<1>6. CASE \E r \in Rates \cap scenario.rows, active \in BOOLEAN : SetRateActive(r, active)
    BY <1>6, RateStepsSound
<1>7. CASE \/ \E p \in Pickups, limit \in {None, 1} :
                CreatePickup(p, limit, limit) \/ UpdatePickup(p, limit, limit)
           \/ \E p \in Pickups, active \in BOOLEAN : SetPickupActive(p, active)
    <2>1. \E t : config' = [config EXCEPT !.pickup = t]
        BY <1>7 DEF CreatePickup, UpdatePickup, SetPickupActive
    <2>2. UNCHANGED <<config.zone, config.rate, config.window>>
        BY <2>1 DEF PricingInv, ConfigTyped
    <2> QED
        BY <2>2, OtherEditsSound
<1>8. CASE \/ \E w \in Windows, o \in Zones \cup Pickups : CreateWindow(w, o) \/ UpdateWindow(w, o)
           \/ \E w \in Windows, active \in BOOLEAN : SetWindowActive(w, active)
    BY <1>8, WindowStepsSound
<1> QED
    BY <1>2, <1>3, <1>4, <1>5, <1>6, <1>7, <1>8 DEF ConfigStep

\* A checkout keeps its amount from its first read to its order.
LEMMA CheckoutSteps ==
    ASSUME CheckoutsTyped, NEW k \in Checkouts,
           \/ \E l \in Localities, amount \in Amounts, express \in BOOLEAN :
                CheckoutZone(k, l, amount, express)
           \/ CheckoutRates(k)
           \/ \E p \in Pickups, amount \in Amounts : CheckoutPickup(k, p, amount)
    PROVE  CheckoutsTyped' /\ UNCHANGED config
<1>1. ASSUME NEW l \in Localities, NEW amount \in Amounts, NEW express \in BOOLEAN,
             CheckoutZone(k, l, amount, express)
      PROVE  CheckoutsTyped' /\ UNCHANGED config
    <2> DEFINE row == [locality |-> l, amount |-> amount, express |-> express, now |-> clock,
                       zone |-> SelectedZone(l), value |-> config.zone[SelectedZone(l)].value]
    <2>1. row.amount \in Amounts /\ row.locality \in Localities /\ checkout' = [checkout EXCEPT ![k] = row] /\ UNCHANGED <<config, order>>
        BY <1>1 DEF CheckoutZone
    <2> HIDE DEF row
    <2> QED
        BY <2>1 DEF CheckoutsTyped
<1>2. ASSUME CheckoutRates(k) PROVE CheckoutsTyped' /\ UNCHANGED config
    <2>1. /\ checkout' = [checkout EXCEPT ![k] = None] /\ UNCHANGED config
          /\ order' = order \/ \E o : order' = [order EXCEPT ![k] = o]
        BY <1>2 DEF CheckoutRates, Refuse
    <2> QED
        BY <2>1 DEF CheckoutsTyped
<1>3. ASSUME NEW p \in Pickups, NEW amount \in Amounts, CheckoutPickup(k, p, amount)
      PROVE  CheckoutsTyped' /\ UNCHANGED config
    <2>1. (\E o : order' = [order EXCEPT ![k] = o]) /\ UNCHANGED <<config, checkout>>
        BY <1>3 DEF CheckoutPickup
    <2> QED
        BY <2>1 DEF CheckoutsTyped
<1> QED
    BY <1>1, <1>2, <1>3

LEMMA RatesInvInit == PricingInit => RatesInv
<1> SUFFICES ASSUME PricingInit PROVE RatesInv
    OBVIOUS
<1>1. /\ scenario \in Scenarios /\ config = scenario.start
      /\ checkout = [k \in Checkouts |-> None] /\ order = [k \in Checkouts |-> None]
    BY DEF PricingInit
<1>2. RatesApart(config) /\ FeesExplicit(config) /\ WindowsTyped(config)
    BY <1>1, StartAssumption
<1> QED
    BY <1>1, <1>2 DEF RatesInv, CheckoutsTyped

LEMMA RatesInvNext == PricingInv /\ RatesInv /\ [PricingNext]_vars => RatesInv'
<1> SUFFICES ASSUME PricingInv, RatesInv, [PricingNext]_vars PROVE RatesInv'
    OBVIOUS
<1>1. Sound(config) /\ CheckoutsTyped
    BY DEF RatesInv, Sound
<1>2. ASSUME UNCHANGED config PROVE Sound(config)'
    BY <1>1, <1>2 DEF Sound, RatesApart, FeesExplicit, WindowsTyped
<1>3. ASSUME UNCHANGED <<checkout, order>> PROVE CheckoutsTyped'
    BY <1>1, <1>3 DEF CheckoutsTyped
<1>4. Sound(config)' /\ CheckoutsTyped'
    <2>1. CASE ConfigStep
        <3>1. UNCHANGED <<checkout, order>>
            BY <2>1 DEF ConfigStep
        <3> QED
            BY <1>1, <1>3, <2>1, <3>1, ConfigStepSound
    <2>2. CASE PolicyStep \/ Tick \/ UNCHANGED vars
        <3>1. UNCHANGED <<config, checkout, order>>
            BY <2>2 DEF PolicyStep, Tick, vars
        <3> QED
            BY <1>2, <1>3, <3>1
    <2>3. ASSUME NEW k \in Checkouts,
                 \/ \E l \in Localities, amount \in Amounts, express \in BOOLEAN :
                      CheckoutZone(k, l, amount, express)
                 \/ CheckoutRates(k)
                 \/ \E p \in Pickups, amount \in Amounts : CheckoutPickup(k, p, amount)
          PROVE  Sound(config)' /\ CheckoutsTyped'
        BY <1>1, <1>2, <2>3, CheckoutSteps
    <2> QED
        BY <2>1, <2>2, <2>3 DEF PricingNext
<1> QED
    BY <1>4 DEF Sound, RatesInv

\* RatesInv holds in every reachable state.
THEOREM RatesInvHolds == PricingSpec => [](PricingInv /\ RatesInv)
BY PricingInvInit, PricingInvNext, RatesInvInit, RatesInvNext, PTL DEF PricingSpec

-----------------------------------------------------------------------------
(* Free delivery *)

\* The rates of an order are rows, so that their fees add up.
LEMMA FeesAddUp ==
    ASSUME PricingInv, NEW rs \in SUBSET Rates, \A r \in rs : config.rate[r] # None
    PROVE  SumOfFees(rs) \in Nat /\ \A r \in rs : config.rate[r].value.fee <= SumOfFees(rs)
<1> DEFINE f == [r \in rs |-> config.rate[r].value.fee]
<1>1. \A r \in rs : f[r] \in Nat /\ f[r] \in Int /\ f[r] = config.rate[r].value.fee
    BY GeographyAssumption DEF PricingInv, ConfigTyped, RateRow, RateValue
<1>2. SumOfFees(rs) = Total(f, rs)
    BY DEF SumOfFees
<1>3. IsFiniteSet(rs)
    BY GeographyAssumption, FS_Subset
<1> HIDE DEF f
<1>4. \A R \in SUBSET rs : Total(f, R) \in Nat
    BY <1>1, <1>3, TotalMonotone
<1>5. ASSUME NEW r \in rs PROVE f[r] <= Total(f, rs)
    <2>1. Total(f, rs) = f[r] + Total(f, rs \ {r})
        BY <1>1, <1>3, TotalSplits
    <2>2. Total(f, rs \ {r}) \in Nat
        BY <1>4
    <2> QED
        BY <1>1, <2>1, <2>2
<1> QED
    BY <1>1, <1>2, <1>4, <1>5

\* Selected rates are current rates of the locality, within their bounds.
LEMMA SelectedAreCurrent ==
    ASSUME NEW l, NEW z, NEW amount, NEW now, NEW express,
           NEW r \in SelectedRates(l, z, amount, now, express)
    PROVE  r \in Applicable(l, z, amount, now)
BY DEF SelectedRates, selectBaseRate, Surcharges, selectSurchargeRate, chooseUnique

LEMMA ApplicableAreRates ==
    ASSUME NEW l, NEW z, NEW amount, NEW now, NEW r \in Applicable(l, z, amount, now)
    PROVE  /\ r \in Rates /\ config.rate[r] # None /\ config.rate[r].active
           /\ CurrentAt(config.rate[r].value, now)
           /\ geographicRank(config.rate[r].value, l, z) > 0
           /\ withinBounds(config.rate[r].value, amount)
BY DEF Applicable, currentRate

\* A rate of a zone applies in that zone alone.
LEMMA RankOfZone ==
    ASSUME NEW v, v.scope \in Zones, NEW l \in Localities, NEW z, geographicRank(v, l, z) > 0
    PROVE  v.scope = z
<1>1. v.scope # l /\ v.scope # DelegationOf[l] /\ v.scope # GovernorateOf[l] /\ v.scope # None
    BY PlacesAssumption, GeographyAssumption DEF Places, Delegations, Governorates
<1> QED
    BY <1>1 DEF geographicRank

\* What an order that is placed was charged.
LEMMA OrderPlaced ==
    ASSUME PricingInv, RatesInv, NEW k \in Checkouts, CheckoutRates(k), order[k] = None, order'[k] # None,
           order'[k].delivery = 0
    PROVE  \E threshold \in {order'[k].threshold, config.zone[order'[k].zone].value.free} \ {None} :
               order'[k].amount >= threshold
<1> DEFINE c == checkout[k]
           rates == SelectedRates(c.locality, c.zone, c.amount, c.now, c.express)
           o == [amount |-> c.amount, zone |-> c.zone, threshold |-> c.value.free, rates |-> rates,
                 delivery |-> DeliveryTotal(c.locality, c.zone, c.value, c.amount, c.now, c.express)]
<1>1. /\ RateOutcome(c.locality, c.zone, c.amount, c.now, c.express) = "OK"
      /\ order' = [order EXCEPT ![k] = o] /\ c # None
    BY DEF CheckoutRates, Refuse
<1>2. order'[k] = o /\ c.amount \in Nat /\ c.locality \in Localities
    BY <1>1, GeographyAssumption DEF RatesInv, CheckoutsTyped
<1>3. /\ order'[k].threshold = c.value.free /\ order'[k].zone = c.zone /\ order'[k].amount = c.amount
      /\ DeliveryTotal(c.locality, c.zone, c.value, c.amount, c.now, c.express) = 0
    BY <1>2
<1>4. CASE c.value.free # None /\ c.amount >= c.value.free
    BY <1>3, <1>4
<1>5. CASE ~(c.value.free # None /\ c.amount >= c.value.free)
    <2>1. SumOfFees(rates) = 0
        BY <1>3, <1>5 DEF DeliveryTotal
    <2>2. PICK r \in selectBaseRate(c.locality, c.zone, c.amount, c.now) : TRUE
        BY <1>1 DEF RateOutcome
    <2>3. r \in rates
        BY DEF SelectedRates
    <2>4. \A q \in rates : q \in Rates /\ config.rate[q] # None
        BY SelectedAreCurrent, ApplicableAreRates
    <2>5. /\ r \in Rates /\ config.rate[r] # None /\ config.rate[r].active
          /\ geographicRank(config.rate[r].value, c.locality, c.zone) > 0
        BY <2>3, SelectedAreCurrent, ApplicableAreRates
    <2> HIDE DEF rates
    <2>6. config.rate[r].value.fee = 0
        <3>1. config.rate[r].value.fee \in Nat
            BY <2>5, GeographyAssumption DEF PricingInv, ConfigTyped, RateRow, RateValue
        <3>2. config.rate[r].value.fee <= 0
            BY <2>1, <2>3, <2>4, FeesAddUp
        <3> QED
            BY <3>1, <3>2
    <2>7. config.rate[r].value.scope \in Zones /\ config.zone[config.rate[r].value.scope].value.free = 0
        BY <2>5, <2>6 DEF RatesInv, FeesExplicit
    <2>8. config.rate[r].value.scope = c.zone
        BY <1>2, <2>5, <2>7, RankOfZone
    <2>9. config.zone[c.zone].value.free = 0 /\ 0 # None
        BY <2>7, <2>8, GeographyAssumption
    <2> QED
        BY <1>2, <1>3, <2>9
<1> QED
    BY <1>4, <1>5

\* Delivery is free only from a threshold on that the order read, or that its
\* zone has when the order is placed: a rate that costs nothing is active only
\* in a zone that is free for every order.
THEOREM FreeIsExplicit == PricingSpec => FreeOnlyWhenExplicit
<1> DEFINE Explicit ==
        \A k \in Checkouts : order[k] = None /\ order'[k] # None =>
           LET o == order'[k] IN
           o.zone # None /\ o.delivery = 0 =>
             \E threshold \in {o.threshold, config.zone[o.zone].value.free} \ {None} :
               o.amount >= threshold
<1>1. PricingInv /\ RatesInv /\ [PricingNext]_vars => [Explicit]_vars
    <2> SUFFICES ASSUME PricingInv, RatesInv, PricingNext, NEW k \in Checkouts,
                        order[k] = None, order'[k] # None, order'[k].zone # None, order'[k].delivery = 0
                 PROVE  \E threshold \in {order'[k].threshold, config.zone[order'[k].zone].value.free} \ {None} :
                            order'[k].amount >= threshold
        OBVIOUS
    <2>1. ~UNCHANGED order /\ order = [j \in Checkouts |-> order[j]]
        BY DEF RatesInv, CheckoutsTyped
    <2>2. PICK j \in Checkouts :
            \/ \E l \in Localities, amount \in Amounts, express \in BOOLEAN :
                 CheckoutZone(j, l, amount, express)
            \/ CheckoutRates(j)
            \/ \E p \in Pickups, amount \in Amounts : CheckoutPickup(j, p, amount)
        BY <2>1 DEF PricingNext, ConfigStep, PolicyStep, Tick
    <2>3. CASE CheckoutRates(j)
        <3>1. \A i \in Checkouts : i # j => order'[i] = order[i]
            BY <2>1, <2>3 DEF CheckoutRates, Refuse
        <3>2. j = k
            BY <3>1
        <3> QED
            BY <2>3, <3>2, OrderPlaced
    <2>4. CASE \E p \in Pickups, amount \in Amounts : CheckoutPickup(j, p, amount)
        <3>1. PICK o : o.zone = None /\ order' = [order EXCEPT ![j] = o]
            BY <2>4 DEF CheckoutPickup
        <3>2. \A i \in Checkouts : order'[i] = IF i = j THEN o ELSE order[i]
            BY <2>1, <3>1
        <3> QED
            BY <3>1, <3>2
    <2> QED
        BY <2>1, <2>2, <2>3, <2>4 DEF CheckoutZone
<1> QED
    BY <1>1, RatesInvHolds, PTL DEF PricingSpec, FreeOnlyWhenExplicit

-----------------------------------------------------------------------------
(* What is offered can be ordered *)

\* A finite set of rows has one of the greatest value.
LEMMA GreatestExists ==
    ASSUME NEW S, IsFiniteSet(S), S # {}, NEW f, \A x \in S : f[x] \in Int
    PROVE  \E x \in S : \A y \in S : f[y] <= f[x]
<1> DEFINE Good == {T \in SUBSET S : T # {} => \E x \in T : \A y \in T : f[y] <= f[x]}
<1>1. ASSUME NEW T \in SUBSET S, \A x \in T : T \ {x} \in Good PROVE T \in Good
    <2> SUFFICES ASSUME T # {} PROVE \E x \in T : \A y \in T : f[y] <= f[x]
        OBVIOUS
    <2>1. PICK x \in T : TRUE
        OBVIOUS
    <2>2. CASE T \ {x} = {}
        <3>1. T = {x} /\ f[x] \in Int
            BY <2>2
        <3> QED
            BY <3>1
    <2>3. CASE T \ {x} # {}
        <3>1. PICK u \in T \ {x} : \A y \in T \ {x} : f[y] <= f[u]
            BY <1>1, <2>1, <2>3
        <3>2. CASE f[x] <= f[u]
            <4>1. \A y \in T : f[y] <= f[u]
                BY <3>1, <3>2
            <4> QED
                BY <4>1
        <3>3. CASE f[u] <= f[x]
            <4>1. ASSUME NEW y \in T PROVE f[y] <= f[x]
                <5>1. f[x] \in Int /\ f[y] \in Int /\ f[u] \in Int
                    OBVIOUS
                <5> QED
                    BY <3>1, <3>3, <5>1
            <4> QED
                BY <4>1
        <3>4. f[x] \in Int /\ f[u] \in Int
            OBVIOUS
        <3> QED
            BY <3>2, <3>3, <3>4
    <2> QED
        BY <2>2, <2>3
<1> HIDE DEF Good
<1>2. S \in Good
    BY <1>1, SubsetInduction
<1> QED
    BY <1>2 DEF Good

\* A set without two different members has one at most.
LEMMA OneAtMost ==
    ASSUME NEW S, \A x, y \in S : x = y PROVE ~(Cardinality(S) > 1)
<1>1. CASE S = {}
    BY <1>1, FS_EmptySet
<1>2. CASE S # {}
    <2>1. PICK x \in S : S = {x}
        BY <1>2
    <2>2. Cardinality({x}) = 1
        BY FS_Singleton
    <2> QED
        BY <2>1, <2>2
<1> QED
    BY <1>1, <1>2

\* The rank of a rate says which place it names.
LEMMA RankOfScope ==
    ASSUME NEW v, NEW l \in Localities, NEW z \in Zones
    PROVE  /\ geographicRank(v, l, z) \in {5, 4, 3, 2, 1, -1}
           /\ geographicRank(v, l, z) = 5 => v.scope = l
           /\ geographicRank(v, l, z) = 4 => v.scope = DelegationOf[l]
           /\ geographicRank(v, l, z) = 3 => v.scope = GovernorateOf[l]
           /\ geographicRank(v, l, z) = 2 => v.scope = z
           /\ geographicRank(v, l, z) = 1 => v.scope = None
<1>1. /\ l # DelegationOf[l] /\ l # GovernorateOf[l] /\ l # z /\ l # None
      /\ DelegationOf[l] # GovernorateOf[l] /\ DelegationOf[l] # z /\ DelegationOf[l] # None
      /\ GovernorateOf[l] # z /\ GovernorateOf[l] # None /\ z # None
    BY PlacesAssumption, GeographyAssumption DEF Places, Delegations, Governorates
<1>2. CASE v.scope = l
    BY <1>1, <1>2 DEF geographicRank
<1>3. CASE v.scope = DelegationOf[l]
    BY <1>1, <1>3 DEF geographicRank
<1>4. CASE v.scope = GovernorateOf[l]
    BY <1>1, <1>4 DEF geographicRank
<1>5. CASE v.scope = z
    BY <1>1, <1>5 DEF geographicRank
<1>6. CASE v.scope = None
    BY <1>1, <1>6 DEF geographicRank
<1>7. CASE v.scope \notin {l, DelegationOf[l], GovernorateOf[l], z, None}
    BY <1>7 DEF geographicRank
<1> QED
    BY <1>2, <1>3, <1>4, <1>5, <1>6, <1>7

\* Of the rates that apply to an order no two have one type, place and priority.
LEMMA NoTwoAlike ==
    ASSUME PricingInv, RatesInv, NEW l \in Localities, NEW z \in Zones, NEW amount, NEW now \in Nat,
           NEW r \in Applicable(l, z, amount, now), NEW q \in Applicable(l, z, amount, now),
           config.rate[r].value.type = config.rate[q].value.type,
           geographicRank(config.rate[r].value, l, z) = geographicRank(config.rate[q].value, l, z),
           config.rate[r].value.priority = config.rate[q].value.priority
    PROVE  r = q
<1>1. /\ r \in Rates /\ config.rate[r] # None /\ config.rate[r].active /\ CurrentAt(config.rate[r].value, now)
      /\ q \in Rates /\ config.rate[q] # None /\ config.rate[q].active /\ CurrentAt(config.rate[q].value, now)
      /\ geographicRank(config.rate[r].value, l, z) > 0
    BY ApplicableAreRates
<1>2. config.rate[r].value.scope = config.rate[q].value.scope
    BY <1>1, RankOfScope
<1>3. config.rate[r].value \in RateValue /\ config.rate[q].value \in RateValue
    BY <1>1 DEF PricingInv, ConfigTyped, RateRow
<1>4. Ambiguous(config.rate[r].value, config.rate[q].value)
    BY <1>1, <1>2, <1>3 DEF Ambiguous, CurrentAt, RateValue
<1> QED
    BY <1>1, <1>4 DEF RatesInv, RatesApart

\* Rates among which one is chosen: applicable ones whose rank tells their type.
Alike(rs, l, z, amount, now) ==
    /\ rs \subseteq Applicable(l, z, amount, now)
    /\ \A r, q \in rs :
          geographicRank(config.rate[r].value, l, z) = geographicRank(config.rate[q].value, l, z) =>
              config.rate[r].value.type = config.rate[q].value.type

\* The rank of a base rate tells its type.
LEMMA BaseRatesAlike ==
    ASSUME NEW l \in Localities, NEW z \in Zones, NEW amount, NEW now
    PROVE  Alike({r \in Applicable(l, z, amount, now) :
                    baseTypeMatchesRank(config.rate[r].value, geographicRank(config.rate[r].value, l, z))},
                 l, z, amount, now)
BY DEF Alike, baseTypeMatchesRank

\* chooseUnique chooses one rate at most, and one if there is any.
LEMMA ChoosesOne ==
    ASSUME PricingInv, RatesInv, NEW l \in Localities, NEW z \in Zones, NEW amount, NEW now \in Nat,
           NEW rs, Alike(rs, l, z, amount, now)
    PROVE  /\ ~(Cardinality(chooseUnique(rs, l, z)) > 1)
           /\ rs # {} => chooseUnique(rs, l, z) # {}
<1> DEFINE rank == [r \in rs |-> geographicRank(config.rate[r].value, l, z)]
           priority == [r \in rs |-> config.rate[r].value.priority]
           TheRate == {r \in rs : \A q \in rs :
                        rank[q] < rank[r] \/ (rank[q] = rank[r] /\ priority[q] <= priority[r])}
<1>1. rs \subseteq Rates /\ \A r \in rs : config.rate[r] # None
    BY ApplicableAreRates DEF Alike
<1>2. \A r \in rs : rank[r] \in Int /\ priority[r] \in Int
    <2>1. \A r \in rs : priority[r] \in Int
        BY <1>1 DEF PricingInv, ConfigTyped, RateRow, RateValue
    <2>2. \A r \in rs : rank[r] \in Int
        BY RankOfScope
    <2> QED
        BY <2>1, <2>2
<1>3. chooseUnique(rs, l, z) = TheRate
    BY DEF chooseUnique
<1>4. ASSUME NEW r \in TheRate, NEW q \in TheRate PROVE r = q
    <2>1. rank[r] = rank[q] /\ priority[r] = priority[q]
        <3>1. rank[q] < rank[r] \/ (rank[q] = rank[r] /\ priority[q] <= priority[r])
            OBVIOUS
        <3>2. rank[r] < rank[q] \/ (rank[r] = rank[q] /\ priority[r] <= priority[q])
            OBVIOUS
        <3> HIDE DEF rank, priority
        <3> QED
            BY <1>2, <3>1, <3>2
    <2>2. /\ r \in Applicable(l, z, amount, now) /\ q \in Applicable(l, z, amount, now)
          /\ config.rate[r].value.type = config.rate[q].value.type
        BY <2>1 DEF Alike
    <2> QED
        BY <2>1, <2>2, NoTwoAlike
<1>5. ASSUME rs # {} PROVE TheRate # {}
    <2>1. IsFiniteSet(rs)
        BY <1>1, GeographyAssumption, FS_Subset
    <2> HIDE DEF rank, priority
    <2>2. PICK t \in rs : \A q \in rs : rank[q] <= rank[t]
        BY <1>2, <1>5, <2>1, GreatestExists
    <2> DEFINE best == {q \in rs : rank[q] = rank[t]}
    <2>3. IsFiniteSet(best) /\ best # {} /\ \A q \in best : q \in rs /\ priority[q] \in Int
        BY <1>2, <2>1, FS_Subset
    <2>4. PICK r \in best : \A q \in best : priority[q] <= priority[r]
        <3> HIDE DEF best
        <3> QED
            BY <2>3, GreatestExists
    <2>5. ASSUME NEW q \in rs PROVE rank[q] < rank[r] \/ (rank[q] = rank[r] /\ priority[q] <= priority[r])
        <3>1. rank[q] \in Int /\ rank[t] \in Int /\ rank[r] = rank[t] /\ rank[q] <= rank[t]
            BY <1>2, <2>2
        <3>2. CASE rank[q] = rank[t]
            BY <2>4, <3>1, <3>2
        <3>3. CASE rank[q] # rank[t]
            BY <3>1, <3>3
        <3> QED
            BY <3>2, <3>3
    <2> QED
        BY <2>5
<1> HIDE DEF TheRate
<1> QED
    BY <1>3, <1>4, <1>5, OneAtMost

\* The zone of a locality is an active one that is linked to it.
LEMMA SelectedZoneEligible ==
    ASSUME NEW l, SelectedZone(l) # None
    PROVE  l \in ActiveLocalities /\ SelectedZone(l) \in EligibleZones(l) /\ SelectedZone(l) \in Zones
<1>1. l \in ActiveLocalities /\ Cardinality(TopZones(l)) = 1
    BY DEF SelectedZone
<1>2. TopZones(l) # {}
    BY <1>1, FS_EmptySet
<1>3. SelectedZone(l) \in TopZones(l)
    BY <1>1, <1>2 DEF SelectedZone
<1> QED
    BY <1>1, <1>3 DEF TopZones, EligibleZones

\* The greater of two amounts
LEMMA MaxOfTwo ==
    ASSUME NEW a \in Nat, NEW b \in Nat
    PROVE  Max({a, b}) \in {a, b} /\ Max({a, b}) >= a /\ Max({a, b}) >= b
<1>1. \E x \in {a, b} : \A y \in {a, b} : x >= y
    <2>1. CASE a >= b
        BY <2>1
    <2>2. CASE b >= a
        BY <2>2
    <2> QED
        BY <2>1, <2>2
<1>2. Max({a, b}) \in {a, b} /\ \A y \in {a, b} : Max({a, b}) >= y
    BY <1>1 DEF Max
<1> QED
    BY <1>2

\* An amount within the limits of zone and rate gets a quote.
LEMMA OfferedIsQuoted ==
    ASSUME PricingInv, RatesInv, NEW l \in Localities, CourierMethod(l)
    PROVE  \E amount \in Amounts : Courier(l, amount, FALSE) \in {"OK", "MAXIMUM_COD_EXCEEDED"}
<1>1. PICK z : z = SelectedZone(l)
    OBVIOUS
<1>2. z # None /\ l \in ActiveLocalities /\ z \in EligibleZones(l) /\ z \in Zones
    BY <1>1, SelectedZoneEligible DEF CourierMethod
<1>3. PICK r \in Rates : currentRate(config, r, clock) /\ canBackCourierMethod(config.rate[r].value, l, z)
    BY <1>1 DEF CourierMethod
<1>4. PICK v : v = config.rate[r].value
    OBVIOUS
<1>5. PICK zv : zv = config.zone[z].value
    OBVIOUS
<1>6. v \in RateValue /\ zv \in ZoneValue
    BY <1>2, <1>3, <1>4, <1>5
       DEF PricingInv, ConfigTyped, RateRow, ZoneRow, currentRate, EligibleZones, ZoneActive
<1>7. PICK a : a = OrElse(zv.minOrder, 0)
    OBVIOUS
<1>8. PICK b : b = OrElse(v.minOrder, 0)
    OBVIOUS
<1>9. a \in Amounts /\ b \in Amounts /\ a \in Nat /\ b \in Nat
    BY <1>6, <1>7, <1>8, GeographyAssumption DEF OrElse, ZoneValue, RateValue, Limit
<1>10. PICK amount : amount = Max({a, b})
    OBVIOUS
<1>11. amount \in Amounts /\ amount \in Nat /\ amount >= a /\ amount >= b
    BY <1>9, <1>10, MaxOfTwo
<1>12. /\ baseTypeMatchesRank(v, geographicRank(v, l, z))
       /\ \A limit \in {zv.maxCod, v.maxOrder, v.maxCod} \ {None} : amount <= limit
    BY <1>3, <1>4, <1>5, <1>7, <1>8, <1>10 DEF canBackCourierMethod
<1>13. withinBounds(v, amount)
    BY <1>6, <1>8, <1>11, <1>12 DEF withinBounds, OrElse
<1>14. geographicRank(v, l, z) > 0
    BY <1>12 DEF baseTypeMatchesRank
<1>15. r \in Applicable(l, z, amount, clock)
    BY <1>3, <1>4, <1>13, <1>14 DEF Applicable
<1>16. ZoneOutcome(l, amount) = "OK"
    BY <1>1, <1>2, <1>5, <1>7, <1>9, <1>11 DEF ZoneOutcome
<1> DEFINE bases == {q \in Applicable(l, z, amount, clock) :
                baseTypeMatchesRank(config.rate[q].value, geographicRank(config.rate[q].value, l, z))}
<1>17. r \in bases /\ Alike(bases, l, z, amount, clock) /\ clock \in Nat
    BY <1>2, <1>4, <1>12, <1>15, BaseRatesAlike DEF PricingInv
<1>18. selectBaseRate(l, z, amount, clock) = chooseUnique(bases, l, z)
    BY DEF selectBaseRate
<1> HIDE DEF bases
<1>19. selectBaseRate(l, z, amount, clock) # {} /\ ~(Cardinality(selectBaseRate(l, z, amount, clock)) > 1)
    BY <1>2, <1>17, <1>18, ChoosesOne
<1>20. ASSUME NEW type PROVE ~(Cardinality(selectSurchargeRate(l, z, amount, clock, type, FALSE)) > 1)
    <2> DEFINE extras == {q \in Applicable(l, z, amount, clock) :
                    config.rate[q].value.type = type /\ (type = "EXPRESS_SURCHARGE" => FALSE)}
    <2>1. Alike(extras, l, z, amount, clock)
        BY DEF Alike
    <2>2. selectSurchargeRate(l, z, amount, clock, type, FALSE) = chooseUnique(extras, l, z)
        BY DEF selectSurchargeRate
    <2> HIDE DEF extras
    <2> QED
        BY <1>2, <1>17, <2>1, <2>2, ChoosesOne
<1>21. RateOutcome(l, z, amount, clock, FALSE) = "OK"
    BY <1>19, <1>20 DEF RateOutcome
<1>22. Courier(l, amount, FALSE) \in {"OK", "MAXIMUM_COD_EXCEEDED"}
    BY <1>1, <1>16, <1>21 DEF Courier
<1> QED
    BY <1>11, <1>22

\* What an order can be charged backs the offer.
LEMMA QuotedIsOffered ==
    ASSUME PricingInv, RatesInv, NEW l \in Localities, NEW amount \in Amounts, NEW express \in BOOLEAN,
           Courier(l, amount, express) = "OK"
    PROVE  CourierMethod(l) /\ Supported(GovernorateOf[l])
<1>1. PICK z : z = SelectedZone(l)
    OBVIOUS
<1>2. /\ ZoneOutcome(l, amount) = "OK" /\ RateOutcome(l, z, amount, clock, express) = "OK"
      /\ WithinMaxCod(l, z, config.zone[z].value, amount, clock, express)
    BY <1>1 DEF Courier
<1>3. z # None /\ l \in ActiveLocalities /\ z \in EligibleZones(l) /\ z \in Zones
    BY <1>1, <1>2, SelectedZoneEligible DEF ZoneOutcome
<1>4. PICK zv : zv = config.zone[z].value
    OBVIOUS
<1>5. PICK r \in selectBaseRate(l, z, amount, clock) : TRUE
    BY <1>2 DEF RateOutcome
<1> DEFINE rates == SelectedRates(l, z, amount, clock, express)
<1>6. /\ r \in Rates /\ currentRate(config, r, clock) /\ withinBounds(config.rate[r].value, amount)
      /\ baseTypeMatchesRank(config.rate[r].value, geographicRank(config.rate[r].value, l, z))
    BY <1>5 DEF selectBaseRate, chooseUnique, Applicable
<1>7. PICK v : v = config.rate[r].value
    OBVIOUS
<1>8. v \in RateValue /\ zv \in ZoneValue
    BY <1>3, <1>4, <1>6, <1>7
       DEF PricingInv, ConfigTyped, RateRow, ZoneRow, currentRate, EligibleZones, ZoneActive
<1>9. DeliveryTotal(l, z, zv, amount, clock, express) \in Nat
    <2>1. rates \in SUBSET Rates /\ \A q \in rates : config.rate[q] # None
        BY SelectedAreCurrent, ApplicableAreRates
    <2>2. SumOfFees(rates) \in Nat
        <3> HIDE DEF rates
        <3> QED
            BY <2>1, FeesAddUp
    <2> QED
        BY <2>2 DEF DeliveryTotal
<1>10. amount \in Nat /\ amount >= OrElse(zv.minOrder, 0)
    BY <1>1, <1>2, <1>3, <1>4, <1>8, GeographyAssumption DEF ZoneOutcome, OrElse, ZoneValue, Limit
<1>11. zv.maxCod # None => amount <= zv.maxCod
    <2>1. zv.maxCod # None => amount + DeliveryTotal(l, z, zv, amount, clock, express) <= zv.maxCod
        BY <1>2, <1>4 DEF WithinMaxCod
    <2>2. zv.maxCod # None => zv.maxCod \in Nat
        BY <1>8, GeographyAssumption DEF ZoneValue, Limit
    <2> QED
        BY <1>9, <1>10, <2>1, <2>2
<1>12. /\ v.minOrder # None => amount >= v.minOrder
       /\ v.maxOrder # None => amount <= v.maxOrder
       /\ v.maxCod # None => amount <= v.maxCod
    BY <1>6, <1>7 DEF withinBounds
<1>13. PICK a : a = OrElse(zv.minOrder, 0)
    OBVIOUS
<1>14. PICK b : b = OrElse(v.minOrder, 0)
    OBVIOUS
<1>15. a \in Nat /\ b \in Nat /\ amount >= a /\ amount >= b
    BY <1>8, <1>10, <1>12, <1>13, <1>14, GeographyAssumption DEF OrElse, ZoneValue, RateValue, Limit
<1>16. Max({a, b}) <= amount /\ Max({a, b}) \in Nat
    BY <1>15, MaxOfTwo
<1>17. \A limit \in {zv.maxCod, v.maxOrder, v.maxCod} \ {None} : limit \in Nat /\ amount <= limit
    BY <1>8, <1>11, <1>12, GeographyAssumption DEF ZoneValue, RateValue, Limit
<1>18. \A limit \in {zv.maxCod, v.maxOrder, v.maxCod} \ {None} : Max({a, b}) <= limit
    BY <1>10, <1>16, <1>17
<1>19. canBackCourierMethod(v, l, z)
    BY <1>4, <1>6, <1>7, <1>13, <1>14, <1>18 DEF canBackCourierMethod
<1>20. CourierMethod(l)
    BY <1>1, <1>3, <1>6, <1>7, <1>19 DEF CourierMethod
<1>21. Supported(GovernorateOf[l])
    BY <1>3 DEF Supported
<1> QED
    BY <1>20, <1>21

\* The storefront offers courier delivery to a locality exactly when some order
\* there can be priced: its own copy of the rules agrees with the pricing of
\* orders in every configuration that edits can reach.
THEOREM OffersMatchQuotes == PricingSpec => []MethodsMatchQuote
<1>1. ASSUME PricingInv, RatesInv PROVE MethodsMatchQuote
    <2> SUFFICES ASSUME NEW l \in Localities
                 PROVE  /\ CourierMethod(l) =>
                             \E amount \in Amounts : Courier(l, amount, FALSE) \in {"OK", "MAXIMUM_COD_EXCEEDED"}
                        /\ (\E amount \in Amounts, express \in BOOLEAN : Courier(l, amount, express) = "OK") =>
                             CourierMethod(l) /\ Supported(GovernorateOf[l])
                        /\ DeliveryWindows(l) # {} =>
                             ZoneOutcome(l, Max(Amounts)) # "DELIVERY_CONFIGURATION_INVALID"
        BY DEF MethodsMatchQuote
    <2>1. ASSUME DeliveryWindows(l) # {} PROVE SelectedZone(l) # None
        <3>1. PICK w \in Windows : config.window[w] # None /\ config.window[w].owner = SelectedZone(l)
            BY <2>1 DEF DeliveryWindows
        <3>2. config.window[w].owner \in Zones \cup Pickups
            BY <1>1, <3>1 DEF RatesInv, WindowsTyped, WindowRow
        <3> QED
            BY <3>1, <3>2, GeographyAssumption
    <2>2. DeliveryWindows(l) # {} => ZoneOutcome(l, Max(Amounts)) # "DELIVERY_CONFIGURATION_INVALID"
        BY <2>1 DEF ZoneOutcome
    <2> QED
        BY <1>1, <2>2, OfferedIsQuoted, QuotedIsOffered
<1> QED
    BY <1>1, RatesInvHolds, PTL
=============================================================================

---------------------------- MODULE StorePolicy ----------------------------
(***************************************************************************)
(* The settings that open and close the store, the checkout policy they    *)
(* and the delivery configuration decide.                                  *)
(***************************************************************************)
EXTENDS Quote, Sequences, TLC

CONSTANTS
    Editors,    \* administrators editing settings
    MaxEdits    \* settings saved in a behaviour

VARIABLES
    settings,   \* key -> [value, version]
    form,       \* editor -> the edit it has under way, or None
    audit       \* the log of saved settings, oldest first

policyVars == <<settings, form, audit>>

\* storeRules and complianceRules of the keys the policy reads.
\* "store.information" stands for name, phone, email and address, whose values
\* count as missing when empty.
SettingValues ==
    [key \in {"checkout.enabled", "maintenance.mode", "prelaunch.mode", "store.information",
              "age_gate.entry.enabled", "age_gate.checkout.enabled",
              "delivery.age_verification_required"} |-> BOOLEAN]
    @@ [key \in {"minimum_purchase_age"} |-> {18, 21}]

Keys == DOMAIN SettingValues

Value(key) == settings[key].value

\* An administrator loads a setting.
OpenSetting(e, key) ==
    /\ "settings" \in ops
    /\ key \in scenario.keys
    /\ form[e] = None
    /\ Len(audit) < MaxEdits
    /\ form' = [form EXCEPT ![e] = [key |-> key, version |-> settings[key].version, saving |-> FALSE]]
    /\ UNCHANGED <<settings, audit>>

\* update reads the setting: it refuses a version that is not the current one,
\* and a value that already is, and keeps what it read for the audit log.
SaveRead(e, value) ==
    LET f == form[e] IN
    /\ f # None /\ ~ f.saving
    /\ form' = [form EXCEPT ![e] =
          IF settings[f.key].version = f.version /\ Value(f.key) # value
          THEN [key |-> f.key, version |-> f.version, saving |-> TRUE,
                value |-> value, before |-> settings[f.key]]
          ELSE None]
    /\ UNCHANGED <<settings, audit>>

\* The setting and its audit entry are written.
Saved(f) ==
    /\ settings' = [settings EXCEPT ![f.key] = [value |-> f.value, version |-> @.version + 1]]
    /\ audit' = Append(audit, [key |-> f.key, before |-> f.before.value, after |-> f.value,
                               version |-> f.before.version + 1])

\* Mutant: the read has compared the version, the update does not.
SaveUnversioned(e) ==
    /\ form[e] # None /\ form[e].saving
    /\ form' = [form EXCEPT ![e] = None]
    /\ Saved(form[e])

\* The update is conditional on the version, once more.
SaveCommit(e) ==
    LET f == form[e] IN
    /\ f # None /\ f.saving
    /\ form' = [form EXCEPT ![e] = None]
    /\ IF settings[f.key].version = f.version THEN Saved(f) ELSE UNCHANGED <<settings, audit>>

-----------------------------------------------------------------------------
(* Checkout policy *)

minimumAgeRequired ==
    \/ Value("age_gate.entry.enabled")
    \/ Value("age_gate.checkout.enabled")
    \/ Value("delivery.age_verification_required")

hasDeliveryMethod ==
    \/ \E p \in Pickups : config.pickup[p] # None /\ config.pickup[p].active
    \/ \E z \in Zones : ZoneActive(z) /\ HasCurrentBase(config, z, clock)

\* A seeded store may have no minimum age yet; None is not configured.
evaluateCheckoutPolicy ==
    /\ Value("checkout.enabled")
    /\ ~ Value("maintenance.mode")
    /\ ~ Value("prelaunch.mode")
    /\ minimumAgeRequired => Value("minimum_purchase_age") # None
    /\ Value("store.information")
    /\ hasDeliveryMethod
=============================================================================

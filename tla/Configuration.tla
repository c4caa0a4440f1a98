---------------------------- MODULE Configuration ----------------------------
(***************************************************************************)
(* The settings form and what the rest of the program reads of it.  The    *)
(* form is validated, written to editable_settings key by key as text, and *)
(* read back by RuntimeSettings.load, which has limits and defaults of its *)
(* own for the case that a key is missing or was written by an older       *)
(* version.  The webhook mappings of the form are looked at only after its *)
(* settings are saved.                                                     *)
(*                                                                         *)
(* A key that was never written is not in the domain of the store.  The    *)
(* switches that are handed to dovi_convert as they are (safe mode,        *)
(* verbose, debug) are left out.                                           *)
(***************************************************************************)
EXTENDS Integers, Functions

CONSTANTS
    Forms,       \* the forms users submit
    OldStores,   \* what editable_settings may hold when this version starts
    DefaultRetention, DefaultDepth   \* RETENTION_DAYS and SCAN_DEPTH

ASSUME DefaultsAssumption == {DefaultRetention, DefaultDepth} \subseteq Nat \ {0}

VARIABLES
    store,      \* editable_settings
    mappings,   \* webhook_path_mappings: a list, or the prefix of an older version
    token       \* is there a webhook token?

configuration == <<store, mappings, token>>

UnitMinutes == [minutes |-> 1, hours |-> 60, days |-> 1440, weeks |-> 10080]
Unit == DOMAIN UnitMinutes
MaxScheduleMinutes == 52 * 7 * 24 * 60

-----------------------------------------------------------------------------
(* RuntimeSettings.load                                                    *)

StoredInt(s, key, default, minimum, maximum) ==
    IF key \in DOMAIN s /\ s[key] \in minimum .. maximum THEN s[key] ELSE default

(* What the deletion job reads: the text as it is, without the limits.     *)
StoredRetention(s) ==
    IF "retention" \in DOMAIN s THEN s["retention"] ELSE DefaultRetention

StoredBool(s, key, default) == IF key \in DOMAIN s THEN s[key] ELSE default

StoredUnit(s) ==
    IF "unit" \in DOMAIN s /\ s["unit"] \in Unit THEN s["unit"] ELSE "minutes"

(* Before there were units the interval was stored in minutes.             *)
LegacyMinutes(s) == StoredInt(s, "minutes", 30, 5, MaxScheduleMinutes)

Interval(s) ==
    LET value == StoredInt(s, "value", LegacyMinutes(s), 1, MaxScheduleMinutes)
        minutes == value * UnitMinutes[StoredUnit(s)]
    IN  IF minutes \in 5 .. MaxScheduleMinutes
        THEN [value |-> value, unit |-> StoredUnit(s), minutes |-> minutes]
        ELSE [value |-> LegacyMinutes(s), unit |-> "minutes", minutes |-> LegacyMinutes(s)]

StoredStart(s) ==
    IF /\ "start" \in DOMAIN s
       /\ s["start"].hour \in 0 .. 23
       /\ s["start"].minute \in 0 .. 59
    THEN s["start"]
    ELSE [hour |-> 3, minute |-> 0]

(* The one webhook prefix that versions before the mappings had, "" for    *)
(* none; a prefix in "invalid" is not an absolute path.                    *)
StoredPrefix(s) == IF "prefix" \in DOMAIN s THEN s["prefix"] ELSE ""

Load(s) ==
    [retention |-> StoredInt(s, "retention", DefaultRetention, 1, 3650),
     depth |-> StoredInt(s, "depth", DefaultDepth, 1, 20),
     value |-> Interval(s).value,
     unit |-> Interval(s).unit,
     minutes |-> Interval(s).minutes,
     start |-> StoredStart(s),
     archive |-> StoredBool(s, "archive", TRUE),
     compactOnly |-> StoredBool(s, "compactOnly", TRUE),
     autoQueue |-> StoredBool(s, "autoQueue", FALSE),
     gate |-> StoredBool(s, "gate", FALSE),
     inspect |-> StoredBool(s, "inspect", FALSE),
     override |-> StoredBool(s, "override", FALSE),
     webhooks |-> StoredBool(s, "webhooks", FALSE),
     prefix |-> StoredPrefix(s)]

BackupMode(runtime) ==
    IF ~runtime.archive THEN "full_only"
    ELSE IF runtime.compactOnly THEN "compact_only" ELSE "both"

-----------------------------------------------------------------------------
(* POST /settings                                                          *)

AcceptsAnyProduct(current, form) ==   \* mutant: the limits are those of the value, not of the minutes
    /\ form.retention \in 1 .. 3650
    /\ form.depth \in 1 .. 20
    /\ form.unit \in Unit
    /\ form.value \in 1 .. MaxScheduleMinutes
    /\ form.start.hour \in 0 .. 23
    /\ form.start.minute \in 0 .. 59
    /\ form.archive /\ form.compactOnly /\ ~current.compactOnly => form.compactAcknowledged
    /\ form.autoQueue /\ ~current.autoQueue => form.automationAcknowledged

Accepts(current, form) ==
    /\ form.retention \in 1 .. 3650
    /\ form.depth \in 1 .. 20
    /\ form.unit \in Unit
    /\ form.value * UnitMinutes[form.unit] \in 5 .. MaxScheduleMinutes
    /\ form.start.hour \in 0 .. 23
    /\ form.start.minute \in 0 .. 59
    /\ form.archive /\ form.compactOnly /\ ~current.compactOnly => form.compactAcknowledged
    /\ form.autoQueue /\ ~current.autoQueue => form.automationAcknowledged

(* The fields of a form have been parsed, and what an older version stored *)
(* is within the limits.                                                   *)
ASSUME FormsAssumption ==
    \A form \in Forms :
        /\ {form.retention, form.depth, form.value} \subseteq Int
        /\ form.start \in [hour : Int, minute : Int]
        /\ {form.archive, form.compactOnly, form.autoQueue, form.gate,
            form.inspect, form.override, form.webhooks} \subseteq BOOLEAN
ASSUME OldStoresAssumption ==
    \A s \in OldStores :
        /\ \A key \in DOMAIN s : Load(s)[key] = s[key]
        /\ Load(s).override \in BOOLEAN

(* What set_settings is given: no compact-only mode without archives, no   *)
(* gate without automation, and no gate without inspections.               *)
Written(form) ==
    [retention |-> form.retention,
     depth |-> form.depth,
     value |-> form.value,
     unit |-> form.unit,
     minutes |-> form.value * UnitMinutes[form.unit],
     start |-> form.start,
     archive |-> form.archive,
     compactOnly |-> form.archive /\ form.compactOnly,
     autoQueue |-> form.autoQueue,
     gate |-> form.autoQueue /\ form.gate,
     inspect |-> (form.autoQueue /\ form.gate) \/ form.inspect,
     override |-> form.override,
     webhooks |-> form.webhooks,
     prefix |-> form.prefix]

(* Rows that cannot be translated end the handler with an error after the  *)
(* settings are saved; two rows with one prefix make the replacement of    *)
(* the table fail as a whole, and the prefix of an older form is looked at *)
(* only if the form has no rows.                                           *)
MappingsFail(form) ==
    form.rows \in {"invalid", "duplicate"} \/ (form.rows = "absent" /\ form.prefix = "invalid")

(* Rows without a prefix are skipped: if all are ("none"), the table is    *)
(* cleared.                                                                *)
Submitted(form) ==
    IF form.rows # "absent" THEN form.rows
    ELSE IF form.prefix # "" THEN form.prefix ELSE mappings

(* The keys are replaced one by one; the form has all of those that are    *)
(* read.                                                                   *)
SaveSettings(form) ==
    /\ Accepts(Load(store), form)
    /\ store' = Written(form)
    /\ mappings' = IF MappingsFail(form) THEN mappings ELSE Submitted(form)
    /\ token' = (token \/ (form.webhooks /\ ~MappingsFail(form)))

(* At a start; the prefix is taken as it was stored.                       *)
MigrateLegacyMapping ==
    /\ mappings' = IF mappings = "none" /\ StoredPrefix(store) # ""
                   THEN StoredPrefix(store)
                   ELSE mappings
    /\ UNCHANGED <<store, token>>

(* This version has started for the first time.                            *)
ConfigurationInit ==
    /\ store \in OldStores
    /\ mappings = IF StoredPrefix(store) # "" THEN StoredPrefix(store) ELSE "none"
    /\ token = FALSE

-----------------------------------------------------------------------------
(* The validation of the form and the limits of load agree: what a user    *)
(* has saved is what the schedule, the scans, the conversions and the      *)
(* deletions read, whatever was stored before; no default takes the place  *)
(* of a saved value, and the deletion job, which has no limits of its own, *)
(* goes by the same retention as the page.                                 *)
NoFallback == \A key \in DOMAIN store : Load(store)[key] = store[key]

=============================================================================

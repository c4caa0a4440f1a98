---------------------------- MODULE MCRetention ----------------------------
(* The forms: those the deletions tell apart, three that are refused, and   *)
(* two with the limits and the combinations of the other fields.            *)
EXTENDS Retention

Usual ==
    [retention |-> 1, depth |-> 5, value |-> 30, unit |-> "minutes",
     start |-> [hour |-> 3, minute |-> 0], archive |-> TRUE, compactOnly |-> FALSE,
     compactAcknowledged |-> FALSE, autoQueue |-> FALSE, automationAcknowledged |-> FALSE,
     gate |-> FALSE, inspect |-> FALSE, override |-> FALSE, webhooks |-> FALSE,
     rows |-> "absent", prefix |-> ""]

Deletions ==
    {Usual,
     [Usual EXCEPT !.override = TRUE, !.rows = "none"],
     [Usual EXCEPT !.retention = 2, !.prefix = "/movies"]}

Refused ==
    {[Usual EXCEPT !.retention = 0],
     [Usual EXCEPT !.value = 4],
     [Usual EXCEPT !.value = 53, !.unit = "weeks"]}

Others ==
    {[Usual EXCEPT !.value = 52, !.unit = "weeks", !.archive = FALSE, !.compactOnly = TRUE,
         !.autoQueue = TRUE, !.gate = TRUE, !.automationAcknowledged = TRUE,
         !.webhooks = TRUE, !.rows = "one"],
     [Usual EXCEPT !.compactOnly = TRUE, !.webhooks = TRUE, !.rows = "duplicate",
         !.prefix = "invalid"]}

FormsChecked == Deletions \cup Refused \cup Others

(* A new database, and one of a version without units and mappings.         *)
OldStoresChecked == {<<>>, [minutes |-> 45, prefix |-> "/films"]}

=============================================================================

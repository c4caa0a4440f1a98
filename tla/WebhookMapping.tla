--------------------------- MODULE WebhookMapping ---------------------------
(***************************************************************************)
(* Radarr and Sonarr name a file by the path it has in their container.    *)
(* webhooks.map_external_path translates it with the mappings of the       *)
(* settings page: prefixes are compared part by part and without regard to *)
(* case, the prefix with most parts decides, and of several such prefixes  *)
(* the first in the order list_webhook_mappings returns them.              *)
(*                                                                         *)
(* A path is the sequence of its parts; a mapping has a prefix and a root. *)
(***************************************************************************)
EXTENDS ScanScope

CONSTANT Casefold   \* for each part of a path, the part without its case

Folded(path) == [i \in 1 .. Len(path) |-> Casefold[path[i]]]

Matches(mapping, path) == IsUnder(Folded(mapping.prefix), Folded(path))

FirstMatch(mappings, path, i) ==   \* mutant: the first match decides
    /\ Matches(mappings[i], path)
    /\ \A j \in 1 .. i - 1 : ~Matches(mappings[j], path)

Decides(mappings, path, i) ==
    /\ Matches(mappings[i], path)
    /\ \A j \in 1 .. Len(mappings) :
          Matches(mappings[j], path) =>
              \/ Len(mappings[j].prefix) < Len(mappings[i].prefix)
              \/ Len(mappings[j].prefix) = Len(mappings[i].prefix) /\ i <= j

Below(prefix, path) == [i \in 1 .. Len(path) - Len(prefix) |-> path[Len(prefix) + i]]

(* Where the path leads; empty if no mapping matches or nothing is left    *)
(* below the prefix.                                                       *)
MapExternalPath(mappings, path) ==
    {[root |-> mappings[i].root, parts |-> Below(mappings[i].prefix, path)] :
        i \in {j \in 1 .. Len(mappings) :
                  /\ Decides(mappings, path, j)
                  /\ Len(mappings[j].prefix) < Len(path)}}

=============================================================================

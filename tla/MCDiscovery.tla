---------------------------- MODULE MCDiscovery ----------------------------
(* Discovery for TLC: two files under one root, in one folder or not,      *)
(* or one file under each of two roots.                                    *)
EXTENDS Discovery, TLC

CONSTANTS p1, p2, r1, r2

OneRoot == p1 :> r1 @@ p2 :> r1
TwoRoots == p1 :> r1 @@ p2 :> r2
Nested == p1 :> <<"file">> @@ p2 :> <<"folder", "file">>
Beside == p1 :> <<"folder", "file">> @@ p2 :> <<"folder", "second">>

(* Two files of one folder that every walk treats alike.                   *)
Swap == Permutations({p1, p2})

(* Names that are printed whole, or shortened to the same letters.         *)
Whole == p1 :> {p1} @@ p2 :> {p2}
Alike == p1 :> {p1, p2} @@ p2 :> {p1, p2}

(* Radarr sees the first root inside a folder of what it has mapped to the *)
(* second one, and writes that folder's name in another case.              *)
Casing == [part \in {"media", "folder", "tv", "file", "second"} |-> part] @@ "Folder" :> "folder"
ExternalPaths == p1 :> <<"media", "folder", "file">> @@ p2 :> <<"tv", "folder", "file">>
Overlapping ==
    <<[prefix |-> <<"media">>, root |-> r2],
      [prefix |-> <<"media", "Folder">>, root |-> r1],
      [prefix |-> <<"tv">>, root |-> r2]>>
Direct == <<[prefix |-> <<"media">>, root |-> r1]>>
DirectPaths == p1 :> <<"media", "folder", "file">> @@ p2 :> <<"media", "folder", "second">>

(* The root alone, and the folder; a depth of 1 does not reach the folder. *)
ShallowWalks ==
    {[target |-> <<>>, recursive |-> TRUE, depth |-> 1],
     [target |-> <<"folder">>, recursive |-> FALSE, depth |-> 1]}
NoWalks == {}

=============================================================================

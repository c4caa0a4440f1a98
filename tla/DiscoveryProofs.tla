--------------------------- MODULE DiscoveryProofs ---------------------------
(***************************************************************************)
(* Theorems about Discovery and the scope of a scan, for every library,    *)
(* batch size, number of requests and of crashes.                          *)
(*                                                                         *)
(* The two definitions of ScanScope agree, so a custom scan touches no row *)
(* outside of what it walks.  A step does one of nine things to the scan   *)
(* job and the worker's locals (ScanStep), all of which keep a path from   *)
(* being judged twice in one scan (ScanOK); therefore a row and the        *)
(* candidate that belongs to it change together.  What the worker has seen *)
(* of a path stays so unless somebody touches it, and every path of a root *)
(* that was listed is accounted for (TruthOK); therefore the tables tell   *)
(* the truth when a scan succeeds, and each step of Discovery is a step of *)
(* MediaIndex or none.  A report is held by a request until the scan made  *)
(* from it holds the path itself (ReportsOK).                              *)
(***************************************************************************)
EXTENDS Discovery, SequenceTheorems, FiniteSetTheorems, WellFoundedInduction, TLAPS

-----------------------------------------------------------------------------
(* The scope of a scan: what a custom scan removes is what its walk would  *)
(* have met.                                                               *)

LEMMA ParentParts ==
    ASSUME NEW S, NEW file \in Seq(S), Len(file) > 0
    PROVE  /\ Parent(file) \in Seq(S)
           /\ Len(Parent(file)) = Len(file) - 1
           /\ \A i \in 1 .. Len(file) - 1 : Parent(file)[i] = file[i]
BY DEF Parent

LEMMA MaxDepthIsNat ==
    ASSUME NEW recursive \in BOOLEAN, NEW depth \in Nat
    PROVE  MaxDepth(recursive, depth) \in Nat
BY DEF MaxDepth

(* A file lies under a folder when the folder it is in does.               *)
LEMMA ParentUnder ==
    ASSUME NEW S, NEW file \in Seq(S), NEW target \in Seq(S), Len(file) > 0
    PROVE  IsUnder(target, Parent(file)) <=> IsUnder(target, file) /\ Len(file) > Len(target)
BY ParentParts DEF IsUnder

(* No folder on the way is as deep as the limit: only the deepest counts.  *)
LEMMA DeepestCounts ==
    ASSUME NEW from \in Nat, NEW to \in Nat, NEW limit \in Nat, from <= to
    PROVE  (\A n \in from .. to - 1 : n - from < limit) <=> to - from <= limit
<1>1. CASE from = to
  BY <1>1
<1>2. CASE from < to
  <2>1. to - 1 \in from .. to - 1 /\ (to - 1) - from < limit <=> to - from <= limit
    BY <1>2
  <2>2. ASSUME to - from <= limit, NEW n \in from .. to - 1
        PROVE  n - from < limit
    BY <2>2
  <2>. QED BY <2>1, <2>2
<1>. QED BY <1>1, <1>2

(* inventory_media visits a file exactly when path_in_scan_scope says so.  *)
THEOREM WalkMatchesScope ==
    ASSUME NEW S, NEW file \in Seq(S), NEW target \in Seq(S),
           NEW recursive \in BOOLEAN, NEW depth \in Nat
    PROVE  Walked(file, target, recursive, depth)
              <=> PathInScanScope(file, target, recursive, depth)
<1>. DEFINE limit == MaxDepth(recursive, depth)
<1>1. CASE Len(file) = 0
  BY <1>1 DEF Walked, PathInScanScope
<1>2. CASE Len(file) > 0 /\ ~IsUnder(target, Parent(file))
  BY <1>2, ParentUnder DEF Walked, Entered, PathInScanScope
<1>3. CASE Len(file) > 0 /\ IsUnder(target, Parent(file))
  <2>1. IsUnder(target, file) /\ Len(file) > Len(target)
    BY <1>3, ParentUnder
  <2>2. Len(Parent(file)) = Len(file) - 1
    BY <1>3, ParentParts
  <2>3. Walked(file, target, recursive, depth)
           <=> \A n \in Len(target) .. Len(Parent(file)) - 1 : n - Len(target) < limit
    BY <1>3 DEF Walked, Entered
  <2>4. limit \in Nat
    BY MaxDepthIsNat
  <2>5. (\A n \in Len(target) .. Len(Parent(file)) - 1 : n - Len(target) < limit)
           <=> Len(Parent(file)) - Len(target) <= limit
    <3>1. Len(target) \in Nat /\ Len(Parent(file)) \in Nat /\ Len(target) <= Len(Parent(file))
      BY <2>1, <2>2
    <3>. QED BY <3>1, <2>4, DeepestCounts
  <2>6. Len(Parent(file)) - Len(target) <= limit <=> Len(file) - Len(target) - 1 <= limit
    BY <2>1, <2>2, <2>4
  <2>. QED BY <2>1, <2>3, <2>5, <2>6 DEF PathInScanScope
<1>. QED BY <1>1, <1>2, <1>3

-----------------------------------------------------------------------------
(* Where a path of Radarr or Sonarr leads.                                 *)

Mapping == [prefix : Seq(STRING), root : Roots]

LEMMA LeastOf ==
    ASSUME NEW S \in SUBSET Nat, S # {}
    PROVE  \E n \in S : \A m \in S : n <= m
<1>. DEFINE less == {pair \in Nat \X Nat : pair[1] < pair[2]}
<1>1. IsWellFoundedOn(less, Nat)
  BY NatLessThanWellFounded, Zenon DEF OpToRel
<1>2. PICK n \in S : \A m \in S : <<m, n>> \notin less
  <2>. HIDE DEF less
  <2>. QED BY <1>1, WFMin
<1>3. ASSUME NEW m \in S PROVE n <= m
  <2>1. ~(m < n)
    BY <1>2
  <2>. QED BY <2>1
<1>. QED BY <1>3

LEMMA PrefixFits ==
    ASSUME NEW mapping \in Mapping, NEW path \in Seq(STRING), Matches(mapping, path)
    PROVE  /\ Len(mapping.prefix) \in Nat /\ Len(path) \in Nat
           /\ Len(path) - Len(mapping.prefix) \in Nat
<1>1. mapping.prefix \in Seq(STRING)
  BY DEF Mapping
<1>2. Len(mapping.prefix) \in Nat /\ Len(path) \in Nat
  BY <1>1
<1>3. Len(Folded(mapping.prefix)) = Len(mapping.prefix)
  BY <1>2 DEF Folded
<1>4. Len(Folded(path)) = Len(path)
  BY <1>2 DEF Folded
<1>5. Len(mapping.prefix) <= Len(path)
  BY <1>3, <1>4 DEF Matches, IsUnder
<1>. QED BY <1>2, <1>5

(* max() over the matches returns one: the longest prefix decides, the     *)
(* first of them when there are several, so a path below a mapping always  *)
(* leads somewhere and never to two places.                                *)
THEOREM OneMappingDecides ==
    ASSUME NEW mappings \in Seq(Mapping), NEW path \in Seq(STRING)
    PROVE  /\ \A i, j \in 1 .. Len(mappings) :
                 Decides(mappings, path, i) /\ Decides(mappings, path, j) => i = j
           /\ (\E i \in 1 .. Len(mappings) : Matches(mappings[i], path))
                 => \E i \in 1 .. Len(mappings) : Decides(mappings, path, i)
<1>1. ASSUME NEW i \in 1 .. Len(mappings)
      PROVE  mappings[i] \in Mapping /\ Len(mappings[i].prefix) \in Nat
  <2>1. mappings[i] \in Mapping
    OBVIOUS
  <2>2. mappings[i].prefix \in Seq(STRING)
    BY <2>1 DEF Mapping
  <2>. QED BY <2>1, <2>2
<1>2. ASSUME NEW i \in 1 .. Len(mappings), NEW j \in 1 .. Len(mappings),
             Decides(mappings, path, i), Decides(mappings, path, j)
      PROVE  i = j
  <2>1. Len(mappings[i].prefix) \in Nat /\ Len(mappings[j].prefix) \in Nat
    BY <1>1
  <2>. QED BY <1>2, <2>1 DEF Decides
<1>3. ASSUME NEW k \in 1 .. Len(mappings), Matches(mappings[k], path)
      PROVE  \E i \in 1 .. Len(mappings) : Decides(mappings, path, i)
  <2>. DEFINE matching == {i \in 1 .. Len(mappings) : Matches(mappings[i], path)}
              left(i) == Len(path) - Len(mappings[i].prefix)
              longest == {i \in matching : \A j \in matching : left(i) <= left(j)}
  <2>1. \A i \in matching : left(i) \in Nat
    BY <1>1, PrefixFits
  <2>2. longest # {}
    <3>. DEFINE lefts == {left(i) : i \in matching}
    <3>1. lefts \in SUBSET Nat /\ lefts # {}
      BY <1>3, <2>1
    <3>. HIDE DEF left
    <3>2. PICK n \in lefts : \A m \in lefts : n <= m
      <4>. HIDE DEF lefts
      <4>. QED BY <3>1, LeastOf
    <3>3. PICK i \in matching : left(i) = n
      BY <3>2
    <3>4. \A j \in matching : left(i) <= left(j)
      BY <3>2, <3>3
    <3>. QED BY <3>3, <3>4
  <2>3. PICK i \in longest : \A j \in longest : i <= j
    <3>1. longest \in SUBSET Nat
      OBVIOUS
    <3>. HIDE DEF longest
    <3>. QED BY <2>2, <3>1, LeastOf
  <2>4. ASSUME NEW j \in 1 .. Len(mappings), Matches(mappings[j], path)
        PROVE  \/ Len(mappings[j].prefix) < Len(mappings[i].prefix)
               \/ Len(mappings[j].prefix) = Len(mappings[i].prefix) /\ i <= j
    <3>1. j \in matching /\ i \in matching
      BY <2>4
    <3>2. /\ Len(mappings[j].prefix) \in Nat /\ Len(mappings[i].prefix) \in Nat
          /\ Len(path) \in Nat
      BY <1>1, <3>1
    <3>3. left(i) <= left(j)
      BY <3>1
    <3>4. left(j) = left(i) => j \in longest
      BY <3>1
    <3>5. left(j) = left(i) => i <= j
      BY <2>3, <3>4
    <3>. DEFINE mine == Len(mappings[i].prefix)
                other == Len(mappings[j].prefix)
                all == Len(path)
    <3>6. mine \in Nat /\ other \in Nat /\ all \in Nat
      BY <3>2
    <3>7. all - mine <= all - other
      BY <3>3
    <3>8. all - other = all - mine => i <= j
      BY <3>5
    <3>. HIDE DEF longest, matching, left, mine, other, all
    <3>9. other < mine \/ other = mine
      BY <3>6, <3>7
    <3>10. other = mine => i <= j
      BY <3>8
    <3>. QED BY <3>9, <3>10 DEF mine, other
  <2>5. i \in 1 .. Len(mappings) /\ Matches(mappings[i], path)
    OBVIOUS
  <2>. HIDE DEF longest, matching, left
  <2>. QED BY <2>4, <2>5 DEF Decides
<1>. QED BY <1>2, <1>3

(* The settings are right if every file lies below the prefix of a mapping *)
(* to its root, under its own name, and no longer prefix takes it          *)
(* elsewhere; then a report leads to its file and to no other.             *)
WellMapped ==
    /\ Mappings \in Seq(Mapping)
    /\ ExternalOf \in [Paths -> Seq(STRING)]
    /\ \A p \in Paths : \E i \in 1 .. Len(Mappings) :
          /\ Decides(Mappings, ExternalOf[p], i)
          /\ Mappings[i].root = RootOf[p]
          /\ Below(Mappings[i].prefix, ExternalOf[p]) = PartsOf[p]
    /\ \A p, q \in Paths : RootOf[p] = RootOf[q] /\ PartsOf[p] = PartsOf[q] => p = q

(* What reports need of the mappings: a path of Radarr or Sonarr leads to  *)
(* no file but its own.                                                    *)
MappingsRight ==
    \A p, q \in Paths :
        [root |-> RootOf[q], parts |-> PartsOf[q]] \in MapExternalPath(Mappings, ExternalOf[p])
            => q = p

(* Mappings as the settings page asks for them give the reports their file.*)
THEOREM WellMappedIsRight == WellMapped => MappingsRight
<1> SUFFICES ASSUME WellMapped, NEW p \in Paths, NEW q \in Paths,
                    [root |-> RootOf[q], parts |-> PartsOf[q]]
                       \in MapExternalPath(Mappings, ExternalOf[p])
             PROVE  q = p
  BY DEF MappingsRight
<1>1. PICK j \in 1 .. Len(Mappings) :
        /\ Decides(Mappings, ExternalOf[p], j)
        /\ [root |-> RootOf[q], parts |-> PartsOf[q]]
              = [root |-> Mappings[j].root, parts |-> Below(Mappings[j].prefix, ExternalOf[p])]
  BY DEF MapExternalPath
<1>2. RootOf[q] = Mappings[j].root /\ PartsOf[q] = Below(Mappings[j].prefix, ExternalOf[p])
  BY <1>1
<1>3. PICK i \in 1 .. Len(Mappings) :
        /\ Decides(Mappings, ExternalOf[p], i)
        /\ Mappings[i].root = RootOf[p]
        /\ Below(Mappings[i].prefix, ExternalOf[p]) = PartsOf[p]
  BY DEF WellMapped
<1>4. Mappings \in Seq(Mapping) /\ ExternalOf[p] \in Seq(STRING)
  BY DEF WellMapped
<1>5. i = j
  BY <1>1, <1>3, <1>4, OneMappingDecides
<1>. QED BY <1>2, <1>3, <1>5 DEF WellMapped

-----------------------------------------------------------------------------
(* What is typed besides the requests, and what the scan job is.           *)

TablesOK ==
    /\ disk \in [Paths -> Content]
    /\ inventory \in [Paths -> Row]
    /\ candidates \in [Paths -> [active : BOOLEAN, file : Content]]
    /\ touched \cup misjudged \cup reported \subseteq Paths
    /\ imports \in 0 .. MaxImports
    /\ crashes \in 0 .. MaxCrashes

(* One request per key; the claimed one is in the coordinator's hands,     *)
(* which waits for a running scan to end.                                  *)
RequestsOK ==
    /\ requests \in Seq(ScanRequest)
    /\ \A i, j \in 1 .. Len(requests) : requests[i].key = requests[j].key => i = j
    /\ coordinator \in {"idle", "claimed", "queued"}
    /\ coordinator = "idle" => Claimed = {}
    /\ coordinator # "idle" => \E i \in 1 .. Len(requests) : Claimed = {i}
    /\ coordinator = "claimed" => scan = NoScan
    /\ Running => coordinator = "idle"

(* A webhook call is written out before the coordinator goes on.           *)
EventOK ==
    /\ event \in Event
    /\ event.paths = {} <=> event.keys = {}
    /\ event # NoEvent => coordinator = "idle"

ScanTyped ==
    /\ scan \in ScanJob \cup {NoScan}
    /\ stage \in Stage
    /\ stage = "none" <=> scan = NoScan
    /\ ~Running => locals = NoLocals
    /\ root \in Roots \cup {AllRoots}
    /\ listed \cup waiting \cup batch \cup removed \subseteq Paths
    /\ unread \subseteq batch
    /\ verdicts \subseteq Verdict
    /\ found \subseteq Result

JudgedPaths == {v.path : v \in verdicts}

(* A path is handed to dovi_convert once, judged once and found once, in   *)
(* the turn of its root.                                                   *)
ScanOK ==
    /\ root \notin scan.roots
    /\ stage = "queued" => scan.scope \subseteq Under(scan.roots)
    /\ stage = "reconcile" => scan.roots = {}
    /\ stage # "tool" => waiting = {} /\ batch = {} /\ verdicts = {}
    /\ stage = "tool" /\ scan.mode # "smart" => waiting = {}
    /\ listed \cup waiting \cup batch \subseteq scan.scope \cap Under({root})
    /\ waiting \cap batch = {}
    /\ JudgedPaths \subseteq batch \ unread
    /\ \A v, w \in verdicts : v.path = w.path => v = w
    /\ \A x, y \in found : x.path = y.path => x = y
    /\ \A x \in found :
          /\ x.path \in scan.scope
          /\ RootOf[x.path] \notin scan.roots
          /\ stage = "listed" => RootOf[x.path] # root
          /\ stage = "tool" => x.path \notin waiting \cup batch \cup Pool
    /\ scan.mode = "custom" => Met(scan.walk, scan.roots \cup {root}) \subseteq scan.scope
    /\ scan.mode = "custom" => removed \subseteq scan.scope
    /\ scan.mode = "file" => removed = {}

-----------------------------------------------------------------------------
(* The keys of requests.                                                   *)

LEMMA Keys ==
    /\ \A p \in Paths : /\ FileKey(p) \in Key /\ FileKey(p).type = "file"
                        /\ FileKey(p).path = p /\ FileKey(p).root = RootOf[p]
    /\ \A r \in Roots \cup {AllRoots} :
          SmartKey(r) \in Key /\ SmartKey(r).type = "smart" /\ SmartKey(r).root = r
    /\ \A key \in Key :
          \/ key.type = "file" /\ key.path \in Paths /\ key = FileKey(key.path)
          \/ /\ key.type = "smart" /\ key.root \in Roots \cup {AllRoots}
             /\ key = SmartKey(key.root)
<1>1. ASSUME NEW p \in Paths
      PROVE  /\ FileKey(p) \in Key /\ FileKey(p).type = "file"
             /\ FileKey(p).path = p /\ FileKey(p).root = RootOf[p]
  BY DEF Key, FileKey
<1>2. ASSUME NEW r \in Roots \cup {AllRoots}
      PROVE  SmartKey(r) \in Key /\ SmartKey(r).type = "smart" /\ SmartKey(r).root = r
  BY DEF Key, SmartKey
<1>3. ASSUME NEW key \in Key
      PROVE  \/ key.type = "file" /\ key.path \in Paths /\ key = FileKey(key.path)
             \/ /\ key.type = "smart" /\ key.root \in Roots \cup {AllRoots}
                /\ key = SmartKey(key.root)
  <2>1. (\E p \in Paths : key = FileKey(p))
           \/ \E r \in Roots \cup {AllRoots} : key = SmartKey(r)
    BY DEF Key
  <2>. QED BY <2>1, <1>1, <1>2
<1>. QED BY <1>1, <1>2, <1>3

LEMMA RequestFields ==
    ASSUME RequestsOK, NEW i \in 1 .. Len(requests)
    PROVE  /\ requests[i] \in ScanRequest
           /\ requests[i].key \in Key
           /\ requests[i].state \in {"pending", "claimed"}
           /\ i \in Claimed <=> requests[i].state = "claimed"
<1>1. requests[i] \in ScanRequest
  BY DEF RequestsOK
<1>2. i \in Claimed <=> requests[i].state = "claimed"
  BY DEF Claimed
<1>. QED BY <1>1, <1>2 DEF ScanRequest

LEMMA RootsTyped ==
    /\ \A p \in Paths : RootOf[p] \in Roots
    /\ AllRoots \notin Roots
    /\ \A r \in Roots \cup {AllRoots} : RootsOf(r) \subseteq Roots
    /\ Under({AllRoots}) = {}
    /\ \A roots : Under(roots) \subseteq Paths
    /\ \A walk, roots : Met(walk, roots) \subseteq Under(roots)
BY PathsAssumption DEF RootsOf, Under, Met

(* A request is appended, or one of its key is waiting already.            *)
LEMMA Enqueued ==
    ASSUME RequestsOK, NEW key \in Key, EnqueueScanRequest(key)
    PROVE  /\ requests' \in Seq(ScanRequest)
           /\ Len(requests') >= Len(requests)
           /\ \A i \in 1 .. Len(requests) : requests'[i] = requests[i]
           /\ \A i, j \in 1 .. Len(requests') : requests'[i].key = requests'[j].key => i = j
           /\ Claimed' = Claimed
           /\ \E i \in 1 .. Len(requests') : requests'[i].key = key
           /\ \A i \in 1 .. Len(requests') :
                 i \in 1 .. Len(requests) \/ requests'[i] = [key |-> key, state |-> "pending"]
<1>1. CASE Requested(key)
  BY <1>1 DEF EnqueueScanRequest, Requested, RequestsOK, Claimed
<1>2. CASE ~Requested(key)
  <2>. DEFINE new == [key |-> key, state |-> "pending"]
  <2>1. requests' = Append(requests, new)
    BY <1>2 DEF EnqueueScanRequest
  <2>2. requests \in Seq(ScanRequest) /\ new \in ScanRequest
    BY DEF RequestsOK, ScanRequest
  <2>3. /\ requests' \in Seq(ScanRequest)
        /\ Len(requests') = Len(requests) + 1 /\ Len(requests) \in Nat
        /\ \A i \in 1 .. Len(requests) : requests'[i] = requests[i]
        /\ requests'[Len(requests) + 1] = new
    BY <2>1, <2>2
  <2>4. \A i \in 1 .. Len(requests') : i \in 1 .. Len(requests) \/ i = Len(requests) + 1
    BY <2>3
  <2>5. \A i \in 1 .. Len(requests) : requests[i].key # key
    BY <1>2 DEF Requested
  <2>6. new.key = key /\ new.state = "pending"
    OBVIOUS
  <2>. HIDE DEF new
  <2>7. \A i, j \in 1 .. Len(requests') : requests'[i].key = requests'[j].key => i = j
    BY <2>3, <2>4, <2>5, <2>6 DEF RequestsOK
  <2>8. Claimed' = Claimed
    BY <2>3, <2>4, <2>6 DEF Claimed
  <2>9. Len(requests) + 1 \in 1 .. Len(requests') /\ Len(requests') >= Len(requests)
    BY <2>3
  <2>10. \A i \in 1 .. Len(requests') : i \in 1 .. Len(requests) \/ requests'[i] = new
    BY <2>3, <2>4
  <2>11. \E i \in 1 .. Len(requests') : requests'[i].key = key
    BY <2>3, <2>6, <2>9
  <2>. QED BY <2>3, <2>7, <2>8, <2>9, <2>10, <2>11 DEF new
<1>. QED BY <1>1, <1>2

(* What is left when the coordinator completes the request it holds.       *)
LEMMA Completed ==
    ASSUME RequestsOK, NEW k \in 1 .. Len(requests), Claimed = {k},
           requests' = RemoveAt(requests, k)
    PROVE  /\ requests' \in Seq(ScanRequest)
           /\ \A i, j \in 1 .. Len(requests') : requests'[i].key = requests'[j].key => i = j
           /\ Claimed' = {}
           /\ \A i \in 1 .. Len(requests) \ {k} :
                 \E j \in 1 .. Len(requests') : requests'[j] = requests[i]
<1>1. requests \in Seq(ScanRequest) /\ Len(requests) \in Nat /\ k \in Int
  BY DEF RequestsOK
<1>. DEFINE before == SubSeq(requests, 1, k - 1)
            after == SubSeq(requests, k + 1, Len(requests))
<1>2. /\ before \in Seq(ScanRequest)
      /\ Len(before) = k - 1
      /\ \A i \in 1 .. k - 1 : before[i] = requests[i]
  BY <1>1, SubSeqProperties
<1>3. /\ after \in Seq(ScanRequest)
      /\ Len(after) = Len(requests) - k
      /\ \A i \in 1 .. Len(requests) - k : after[i] = requests[k + i]
  BY <1>1, SubSeqProperties
<1>4. requests' = before \o after
  BY DEF RemoveAt
<1>. HIDE DEF before, after
<1>5. /\ requests' \in Seq(ScanRequest)
      /\ Len(requests') = Len(requests) - 1
      /\ \A i \in 1 .. Len(requests) - 1 :
            requests'[i] = IF i < k THEN requests[i] ELSE requests[i + 1]
  <2>1. Len(requests') = Len(before) + Len(after)
    BY <1>2, <1>3, <1>4, ConcatProperties
  <2>2. requests' \in Seq(ScanRequest)
    BY <1>2, <1>3, <1>4, ConcatProperties
  <2>3. \A i \in 1 .. Len(before) + Len(after) :
           requests'[i] = IF i <= Len(before) THEN before[i] ELSE after[i - Len(before)]
    BY <1>2, <1>3, <1>4, ConcatProperties
  <2>4. Len(before) + Len(after) = Len(requests) - 1
    BY <1>1, <1>2, <1>3
  <2>5. ASSUME NEW i \in 1 .. Len(requests) - 1
        PROVE  requests'[i] = IF i < k THEN requests[i] ELSE requests[i + 1]
    <3>1. CASE i < k
      BY <1>1, <1>2, <2>3, <2>4, <3>1
    <3>2. CASE ~(i < k)
      <4>1. /\ i - Len(before) \in 1 .. Len(requests) - k
            /\ k + (i - Len(before)) = i + 1
            /\ ~(i <= Len(before))
        BY <1>1, <1>2, <3>2
      <4>2. requests'[i] = after[i - Len(before)]
        BY <2>3, <2>4, <4>1
      <4>3. after[i - Len(before)] = requests[k + (i - Len(before))]
        BY <1>3, <4>1
      <4>. QED BY <3>2, <4>1, <4>2, <4>3
    <3>. QED BY <3>1, <3>2
  <2>. QED BY <2>1, <2>2, <2>4, <2>5
<1>6. \A i \in 1 .. Len(requests') :
         \E j \in 1 .. Len(requests) \ {k} :
            /\ j = IF i < k THEN i ELSE i + 1
            /\ requests'[i] = requests[j]
  BY <1>1, <1>5
<1>7. \A i, j \in 1 .. Len(requests') : requests'[i].key = requests'[j].key => i = j
  <2> SUFFICES ASSUME NEW i \in 1 .. Len(requests'), NEW j \in 1 .. Len(requests'),
                      requests'[i].key = requests'[j].key
               PROVE  i = j
    OBVIOUS
  <2>1. PICK m \in 1 .. Len(requests) \ {k} :
           m = (IF i < k THEN i ELSE i + 1) /\ requests'[i] = requests[m]
    BY <1>6
  <2>2. PICK n \in 1 .. Len(requests) \ {k} :
           n = (IF j < k THEN j ELSE j + 1) /\ requests'[j] = requests[n]
    BY <1>6
  <2>3. m = n
    BY <2>1, <2>2 DEF RequestsOK
  <2>. QED BY <1>1, <1>5, <2>1, <2>2, <2>3
<1>8. \A i \in 1 .. Len(requests') : requests'[i].state # "claimed"
  <2> SUFFICES ASSUME NEW i \in 1 .. Len(requests') PROVE requests'[i].state # "claimed"
    OBVIOUS
  <2>1. PICK m \in 1 .. Len(requests) \ {k} : requests'[i] = requests[m]
    BY <1>6
  <2>. QED BY <2>1, RequestFields
<1>9. Claimed' = {}
  BY <1>8 DEF Claimed
<1>10. ASSUME NEW i \in 1 .. Len(requests) \ {k}
       PROVE  \E j \in 1 .. Len(requests') : requests'[j] = requests[i]
  <2>1. CASE i < k
    <3>1. i \in 1 .. Len(requests') /\ requests'[i] = requests[i]
      BY <1>1, <1>5, <2>1
    <3>. QED BY <3>1
  <2>2. CASE i > k
    <3>1. i - 1 \in 1 .. Len(requests') /\ requests'[i - 1] = requests[i]
      BY <1>1, <1>5, <2>2
    <3>. QED BY <3>1
  <2>. QED BY <1>1, <2>1, <2>2
<1>. QED BY <1>5, <1>7, <1>9, <1>10

-----------------------------------------------------------------------------
(* The scan job and the worker's locals.                                   *)

(* A transaction of the tail takes a root off the job's list.              *)
Kept ==
    /\ UNCHANGED <<stage, locals>>
    /\ \/ scan' = scan
       \/ /\ scan # NoScan
          /\ \E roots \in SUBSET Roots : scan' = [scan EXCEPT !.unreconciled = roots]

Created ==
    /\ stage = "none"
    /\ stage' = "queued"
    /\ UNCHANGED locals
    /\ \E mode \in ScanMode, walk \in CustomWalks \cup {RootWalk}, scope \in SUBSET Paths,
          roots \in SUBSET Roots :
          /\ scan' = ScanOf(mode, walk, scope, roots)
          /\ scope \subseteq Under(roots)
          /\ mode = "custom" => scope = Met(walk, roots)

Begun == stage = "queued" /\ stage' = "root" /\ UNCHANGED <<scan, locals>>

ScanStep ==
    \/ Kept \/ Created \/ Begun \/ ListRoot \/ CompareSmart \/ CompareNothing
    \/ \E p \in Paths : ToolReads(p)
    \/ ParseBatch \/ DropScan

LEMMA BatchTaken ==
    ASSUME NEW todo, TakeBatch(todo)
    PROVE  \/ /\ todo = {} /\ UNCHANGED <<waiting, unread>> /\ batch' = {}
              /\ stage' = IF scan.roots = {} THEN "reconcile" ELSE "root"
           \/ /\ todo # {} /\ stage' = "tool"
              /\ unread' = batch' /\ batch' \subseteq todo /\ waiting' = todo \ batch'
              /\ scan.mode # "smart" => waiting' = {}
<1>1. \A next \in Batches(todo) : next \subseteq todo /\ (scan.mode # "smart" => next = todo)
  BY DEF Batches, kSubset
<1>. QED BY <1>1 DEF TakeBatch

LEMMA MetUnder ==
    ASSUME NEW walk, NEW roots
    PROVE  Met(walk, roots) \subseteq Under(roots) /\ Under(roots) \subseteq Paths
BY DEF Met, Under

LEMMA JobMade ==
    ASSUME ScanTyped, NEW mode \in ScanMode, NEW walk \in CustomWalks \cup {RootWalk},
           NEW scope \in SUBSET Paths, NEW roots \in SUBSET Roots,
           CreateScan(mode, walk, scope, roots), UNCHANGED locals,
           scope \subseteq Under(roots), mode = "custom" => scope = Met(walk, roots)
    PROVE  Created
<1>1. scan = NoScan /\ scan' = ScanOf(mode, walk, scope, roots) /\ stage' = "queued"
  BY DEF CreateScan
<1>2. stage = "none"
  BY <1>1 DEF ScanTyped
<1>. QED BY <1>1, <1>2 DEF Created

(* A claimed request becomes a scan of its file or of its roots.           *)
LEMMA RequestBecomesScan ==
    ASSUME RequestsOK, ScanTyped, QueueScan
    PROVE  Kept \/ Created
<1>1. PICK i \in Claimed :
        \/ /\ requests[i].key.type = "file"
           /\ CreateScan("file", RootWalk, {requests[i].key.path}, {requests[i].key.root})
        \/ UNCHANGED <<scan, stage>>
        \/ /\ requests[i].key.type = "smart"
           /\ CreateScan("smart", RootWalk, Met(RootWalk, RootsOf(requests[i].key.root)),
                         RootsOf(requests[i].key.root))
  BY DEF QueueScan
<1>2. UNCHANGED locals
  BY DEF QueueScan
<1>3. requests[i].key \in Key
  BY RequestFields DEF Claimed
<1>4. CASE UNCHANGED <<scan, stage>>
  BY <1>2, <1>4 DEF Kept
<1>5. CASE /\ requests[i].key.type = "file"
           /\ CreateScan("file", RootWalk, {requests[i].key.path}, {requests[i].key.root})
  <2>1. /\ requests[i].key.path \in Paths
        /\ requests[i].key.root = RootOf[requests[i].key.path]
    BY <1>3, <1>5, Keys
  <2>2. requests[i].key.root \in Roots
    BY <2>1, RootsTyped
  <2>3. {requests[i].key.path} \subseteq Under({requests[i].key.root})
    BY <2>1 DEF Under
  <2>. QED BY <1>2, <1>5, <2>1, <2>2, <2>3, JobMade DEF ScanMode
<1>6. CASE /\ requests[i].key.type = "smart"
           /\ CreateScan("smart", RootWalk, Met(RootWalk, RootsOf(requests[i].key.root)),
                         RootsOf(requests[i].key.root))
  <2>1. requests[i].key.root \in Roots \cup {AllRoots}
    BY <1>3, <1>6, Keys
  <2>2. RootsOf(requests[i].key.root) \subseteq Roots
    BY <2>1, RootsTyped
  <2>. DEFINE roots == RootsOf(requests[i].key.root)
              scope == Met(RootWalk, roots)
  <2>3. scope \subseteq Under(roots) /\ scope \subseteq Paths
    BY MetUnder
  <2>4. CreateScan("smart", RootWalk, scope, roots)
    BY <1>6
  <2>. HIDE DEF roots, scope
  <2>5. roots \in SUBSET Roots
    BY <2>2 DEF roots
  <2>. QED BY <1>2, <2>3, <2>4, <2>5, JobMade DEF ScanMode
<1>. QED BY <1>1, <1>4, <1>5, <1>6

LEMMA ButtonMakesScan ==
    ASSUME ScanTyped, NEW mode \in ScanMode, NEW walk \in CustomWalks \cup {RootWalk},
           NEW roots \in SUBSET Roots, CreateScan(mode, walk, Met(walk, roots), roots),
           UNCHANGED locals
    PROVE  Created
<1>. DEFINE scope == Met(walk, roots)
<1>1. scope \subseteq Under(roots) /\ scope \subseteq Paths
  BY MetUnder
<1>2. CreateScan(mode, walk, scope, roots)
  OBVIOUS
<1>3. mode = "custom" => scope = Met(walk, roots)
  OBVIOUS
<1>. HIDE DEF scope
<1>. QED BY <1>1, <1>2, <1>3, JobMade

LEMMA ReconcileKeeps ==
    ASSUME ScanTyped, NEW r \in Roots, Reconcile(r)
    PROVE  Kept
<1>1. /\ scan # NoScan
      /\ UNCHANGED <<stage, locals>>
      /\ scan' = [scan EXCEPT !.unreconciled = @ \ {r}]
  BY DEF Reconcile, ScanTyped
<1>2. scan \in ScanJob
  BY <1>1 DEF ScanTyped
<1>3. scan.unreconciled \ {r} \in SUBSET Roots
  BY <1>2 DEF ScanJob
<1>. QED BY <1>1, <1>3 DEF Kept

LEMMA StepIsScanStep ==
    ASSUME RequestsOK, ScanTyped, [Next]_vars
    PROVE  ScanStep
<1>1. ASSUME NEW p \in Paths, Import(p) \/ Delete(p) \/ Recover(p) \/ Convert(p) PROVE Kept
  BY <1>1 DEF Import, Delete, Recover, Convert, Kept
<1>2. ASSUME \/ \E paths, type : Webhook(paths, type)
             \/ \E key : WriteRequest(key)
      PROVE  Kept
  BY <1>2 DEF Webhook, WriteRequest, Kept
<1>3. ASSUME NEW mode \in {"full", "smart"}, NEW r \in Roots \cup {AllRoots},
             QueueManualScan(mode, r)
      PROVE  Created
  <2>1. RootsOf(r) \in SUBSET Roots
    BY RootsTyped
  <2>2. CreateScan(mode, RootWalk, Met(RootWalk, RootsOf(r)), RootsOf(r)) /\ UNCHANGED locals
    BY <1>3 DEF QueueManualScan
  <2>3. mode \in ScanMode
    BY DEF ScanMode
  <2>. QED BY <2>1, <2>2, <2>3, ButtonMakesScan
<1>4. ASSUME NEW walk \in CustomWalks, NEW r \in Roots, QueueCustomScan(walk, r) PROVE Created
  <2>1. CreateScan("custom", walk, Met(walk, {r}), {r}) /\ UNCHANGED locals
    BY <1>4 DEF QueueCustomScan
  <2>2. "custom" \in ScanMode /\ {r} \in SUBSET Roots
    BY DEF ScanMode
  <2>. QED BY <2>1, <2>2, ButtonMakesScan
<1>5. ASSUME ScheduleDue \/ ClaimRequest \/ CompleteRequest \/ UNCHANGED vars PROVE Kept
  BY <1>5 DEF ScheduleDue, ClaimRequest, CompleteRequest, vars, Kept
<1>6. ASSUME QueueScan PROVE Kept \/ Created
  BY <1>6, RequestBecomesScan
<1>7. ASSUME BeginScan PROVE Begun
  BY <1>7 DEF BeginScan, Begun
<1>8. ASSUME NEW r \in Roots, Reconcile(r) PROVE Kept
  BY <1>8, ReconcileKeeps
<1>9. ASSUME SucceedScan \/ FailScan PROVE DropScan
  BY <1>9 DEF SucceedScan, FailScan
<1>10. ASSUME Crash PROVE Kept \/ DropScan
  BY <1>10 DEF Crash, Kept
<1>. QED
  BY <1>1, <1>2, <1>3, <1>4, <1>5, <1>6, <1>7, <1>8, <1>9, <1>10
  DEF Next, External, Handler, Coordinator, Worker, ScanStep

-----------------------------------------------------------------------------
(* What each of these steps does to the types.                             *)

LEMMA JobFields ==
    ASSUME ScanTyped
    PROVE  /\ scan.scope \subseteq Paths /\ scan.roots \subseteq Roots
           /\ scan.mode \in ScanMode \cup {"none"}
           /\ scan.walk \in CustomWalks \cup {RootWalk}
           /\ Running => scan \in ScanJob /\ scan # NoScan
BY DEF ScanTyped, ScanJob, NoScan, Running

LEMMA NewJob ==
    ASSUME NEW mode \in ScanMode, NEW walk \in CustomWalks \cup {RootWalk},
           NEW scope \in SUBSET Paths, NEW roots \in SUBSET Roots
    PROVE  /\ ScanOf(mode, walk, scope, roots) \in ScanJob
           /\ ScanOf(mode, walk, scope, roots) # NoScan
           /\ ScanOf(mode, walk, scope, roots).mode = mode
           /\ ScanOf(mode, walk, scope, roots).walk = walk
           /\ ScanOf(mode, walk, scope, roots).scope = scope
           /\ ScanOf(mode, walk, scope, roots).roots = roots
BY DEF ScanOf, ScanJob, ScanMode, NoScan

LEMMA JobIsNotNone == \A job \in ScanJob : job # NoScan
BY DEF ScanJob, ScanMode, NoScan

LEMMA TypedStep ==
    ASSUME ScanTyped, ScanOK, TablesOK, ScanStep
    PROVE  ScanTyped'
<1>1. CASE Kept
  <2>1. scan' \in ScanJob \cup {NoScan} /\ (scan' = NoScan <=> scan = NoScan)
    <3>1. CASE scan' = scan
      BY <3>1 DEF ScanTyped
    <3>2. CASE scan' # scan
      <4>1. PICK roots \in SUBSET Roots : scan' = [scan EXCEPT !.unreconciled = roots]
        BY <1>1, <3>2 DEF Kept
      <4>2. scan \in ScanJob
        BY <1>1, <3>2 DEF Kept, ScanTyped
      <4>3. scan' \in ScanJob
        BY <4>1, <4>2 DEF ScanJob
      <4>. QED BY <4>2, <4>3, JobIsNotNone
    <3>. QED BY <3>1, <3>2
  <2>. QED BY <1>1, <2>1 DEF Kept, locals, ScanTyped, Running
<1>2. CASE Created
  <2>1. scan' \in ScanJob /\ scan' # NoScan /\ stage' = "queued"
    BY <1>2, NewJob DEF Created
  <2>. QED BY <1>2, <2>1 DEF Created, locals, ScanTyped, Running, Stage
<1>3. CASE Begun
  BY <1>3 DEF Begun, locals, ScanTyped, Running, Stage
<1>4. CASE ListRoot
  <2>1. scan \in ScanJob
    BY <1>4, JobFields DEF ListRoot, Running
  <2>2. PICK r \in scan.roots :
          /\ scan' = [scan EXCEPT !.roots = @ \ {r}]
          /\ root' = r
          /\ listed' \subseteq scan.scope
    BY <1>4 DEF ListRoot
  <2>3. scan' \in ScanJob /\ r \in Roots
    BY <2>1, <2>2 DEF ScanJob
  <2>4. listed' \subseteq Paths
    BY <2>2, JobFields
  <2>5. stage' = "listed" /\ UNCHANGED <<waiting, batch, unread, verdicts, found, removed>>
    BY <1>4 DEF ListRoot
  <2>. QED BY <2>2, <2>3, <2>4, <2>5, JobIsNotNone DEF ScanTyped, Running, Stage
<1>5. CASE CompareSmart
  <2>1. scan' = scan /\ scan # NoScan /\ UNCHANGED <<root, listed, verdicts, found>>
    BY <1>5, JobFields DEF CompareSmart, Running
  <2>2. removed' \subseteq Paths
    BY <1>5 DEF CompareSmart, Missing, Under, ScanTyped
  <2>3. /\ stage' \in {"tool", "root", "reconcile"}
        /\ waiting' \cup batch' \subseteq Paths /\ unread' \subseteq batch'
    <3>1. unread = {}
      BY <1>5 DEF CompareSmart, ScanTyped, ScanOK
    <3>. QED BY <1>5, <3>1, BatchTaken DEF CompareSmart, ScanTyped
  <2>. QED BY <2>1, <2>2, <2>3 DEF ScanTyped, Running, Stage
<1>6. CASE CompareNothing
  <2>1. scan' = scan /\ scan # NoScan /\ UNCHANGED <<root, listed, verdicts, found>>
    BY <1>6, JobFields DEF CompareNothing, Running
  <2>2. removed' \subseteq Paths
    BY <1>6 DEF CompareNothing, MissingInScope, Under, ScanTyped
  <2>3. /\ stage' \in {"tool", "root", "reconcile"}
        /\ waiting' \cup batch' \subseteq Paths /\ unread' \subseteq batch'
    <3>1. scan.scope \cap Under({root}) \subseteq Paths
      BY DEF Under
    <3>2. unread = {}
      BY <1>6 DEF CompareNothing, ScanTyped, ScanOK
    <3>. QED BY <1>6, <3>1, <3>2, BatchTaken DEF CompareNothing, ScanTyped
  <2>. QED BY <2>1, <2>2, <2>3 DEF ScanTyped, Running, Stage
<1>7. ASSUME NEW p \in Paths, ToolReads(p) PROVE ScanTyped'
  <2>1. stage = "tool"
    BY <1>7 DEF ToolReads, ScanOK, ScanTyped
  <2>2. verdicts' \subseteq Verdict
    <3>1. [path |-> p, mel |-> disk[p].form = "mel"] \in Verdict
      BY DEF Verdict
    <3>. QED BY <1>7, <3>1 DEF ToolReads, ScanTyped
  <2>3. /\ unread' \subseteq batch'
        /\ UNCHANGED <<scan, stage, root, listed, waiting, batch, found, removed>>
    BY <1>7 DEF ToolReads, ScanTyped
  <2>. QED BY <2>1, <2>2, <2>3 DEF ScanTyped, Running
<1>8. CASE ParseBatch
  <2>1. scan' = scan /\ scan # NoScan /\ UNCHANGED <<root, listed, removed>> /\ verdicts' = {}
    BY <1>8, JobFields DEF ParseBatch, Running
  <2>2. found' \subseteq Result
    BY <1>8 DEF ParseBatch, ScanTyped
  <2>3. /\ stage' \in {"tool", "root", "reconcile"}
        /\ waiting' \cup batch' \subseteq Paths /\ unread' \subseteq batch'
    BY <1>8, BatchTaken DEF ParseBatch, ScanTyped
  <2>. QED BY <2>1, <2>2, <2>3 DEF ScanTyped, Running, Stage
<1>9. CASE DropScan
  BY <1>9 DEF DropScan, ScanTyped, Running, Stage, locals, NoLocals
<1>. QED BY <1>1, <1>2, <1>3, <1>4, <1>5, <1>6, <1>7, <1>8, <1>9 DEF ScanStep

-----------------------------------------------------------------------------
(* A path is judged and found once.                                        *)

LEMMA UnderOne ==
    ASSUME NEW r \in Roots
    PROVE  \A p \in Under({r}) : p \in Paths /\ RootOf[p] = r
BY DEF Under

(* A scan removes the row of no path that its walk does not reach.         *)
LEMMA MissingIsMet ==
    ASSUME ScanTyped, Running
    PROVE  MissingInScope \subseteq Met(scan.walk, {root})
<1> SUFFICES ASSUME NEW p \in MissingInScope PROVE p \in Met(scan.walk, {root})
  OBVIOUS
<1>1. /\ p \in Under({root}) /\ p \in Paths
      /\ PathInScanScope(PartsOf[p], scan.walk.target, scan.walk.recursive, scan.walk.depth)
  BY DEF MissingInScope, Under
<1>2. /\ PartsOf[p] \in Seq(STRING)
      /\ scan.walk \in [target : Seq(STRING), recursive : BOOLEAN, depth : 1 .. 20]
  <2>1. RootWalk \in [target : Seq(STRING), recursive : BOOLEAN, depth : 1 .. 20]
    BY PathsAssumption DEF RootWalk
  <2>. QED BY <1>1, <2>1, JobFields, PathsAssumption
<1>3. /\ scan.walk.target \in Seq(STRING) /\ scan.walk.recursive \in BOOLEAN
      /\ scan.walk.depth \in Nat
  BY <1>2
<1>4. Walked(PartsOf[p], scan.walk.target, scan.walk.recursive, scan.walk.depth)
  BY <1>1, <1>2, <1>3, WalkMatchesScope
<1>. QED BY <1>1, <1>4 DEF Met

(* Once a batch is taken, or none is left.                                 *)
LEMMA BatchKeeps ==
    ASSUME ScanTyped, ScanOK, Running, NEW todo, TakeBatch(todo),
           todo \subseteq scan.scope \cap Under({root}),
           UNCHANGED <<scan, root, listed>>, verdicts' = {},
           unread = {}, todo = {} => waiting = {},
           \A x, y \in found' : x.path = y.path => x = y,
           \A x \in found' : /\ x.path \in scan.scope \ todo
                             /\ RootOf[x.path] \notin scan.roots
                             /\ scan.mode # "smart" /\ todo # {} => x.path \notin listed,
           scan.mode = "custom" => removed' \subseteq scan.scope,
           scan.mode = "file" => removed' = {}
    PROVE  ScanOK'
<1>1. JudgedPaths' = {}
  BY DEF JudgedPaths
<1>2. \/ /\ stage' \in {"root", "reconcile"} /\ waiting' = {} /\ batch' = {} /\ todo = {}
         /\ stage' = "reconcile" => scan.roots = {}
      \/ /\ stage' = "tool" /\ batch' \subseteq todo /\ waiting' = todo \ batch' /\ todo # {}
         /\ scan.mode # "smart" => waiting' = {}
  BY BatchTaken
<1>3. waiting' \cup batch' \subseteq todo /\ waiting' \cap batch' = {}
  BY <1>2
<1>4. scan'.roots = scan.roots /\ scan'.scope = scan.scope /\ scan'.mode = scan.mode
      /\ scan'.walk = scan.walk
  OBVIOUS
<1>5. Met(scan'.walk, scan'.roots \cup {root'}) = Met(scan.walk, scan.roots \cup {root})
  OBVIOUS
<1>6. listed' \cup waiting' \cup batch' \subseteq scan'.scope \cap Under({root'})
  BY <1>3, <1>4 DEF ScanOK, Under
<1>7. \A x \in found' :
         /\ x.path \in scan'.scope
         /\ RootOf[x.path] \notin scan'.roots
         /\ stage' # "listed"
         /\ stage' = "tool" => x.path \notin waiting' \cup batch' \cup Pool'
  BY <1>2, <1>3, <1>4 DEF Pool
<1>. QED BY <1>1, <1>2, <1>3, <1>4, <1>5, <1>6, <1>7 DEF ScanOK, Under

(* What ParseBatch adds: one result for a file of the pool.                *)
LEMMA NewResults ==
    ASSUME ScanTyped, ParseBatch
    PROVE  \A x, y \in found' \ found : x.path = y.path => x = y
<1> SUFFICES ASSUME NEW x \in found' \ found, NEW y \in found' \ found, x.path = y.path
             PROVE  x = y
  OBVIOUS
<1>1. x \in Result /\ x.file = disk[x.path] /\ y \in Result /\ y.file = disk[y.path]
  BY DEF ParseBatch
<1>2. PICK v \in verdicts : x.path \in TakenFor(v) /\ x.mel = v.mel
  BY DEF ParseBatch
<1>3. PICK w \in verdicts : y.path \in TakenFor(w) /\ y.mel = w.mel
  BY DEF ParseBatch
<1>4. v = w
  BY <1>2, <1>3 DEF ParseBatch, RowsUnderstood
<1>. QED BY <1>1, <1>2, <1>3, <1>4 DEF Result

LEMMA ScanOKStep ==
    ASSUME ScanTyped, ScanOK, ScanStep
    PROVE  ScanOK'
<1>1. CASE Kept
  <2>1. /\ scan'.mode = scan.mode /\ scan'.walk = scan.walk
        /\ scan'.scope = scan.scope /\ scan'.roots = scan.roots
    <3>1. CASE scan' = scan
      BY <3>1
    <3>2. CASE scan' # scan
      <4>1. PICK roots \in SUBSET Roots : scan' = [scan EXCEPT !.unreconciled = roots]
        BY <1>1, <3>2 DEF Kept
      <4>2. scan \in ScanJob
        BY <1>1, <3>2 DEF Kept, ScanTyped
      <4>. QED BY <4>1, <4>2 DEF ScanJob
    <3>. QED BY <3>1, <3>2
  <2>2. UNCHANGED <<stage, root, listed, waiting, batch, unread, verdicts, found, removed>>
    BY <1>1 DEF Kept, locals
  <2>3. JudgedPaths' = JudgedPaths /\ Pool' = Pool
    BY <2>1, <2>2 DEF JudgedPaths, Pool
  <2>4. Met(scan'.walk, scan'.roots \cup {root'}) = Met(scan.walk, scan.roots \cup {root})
    BY <2>1, <2>2
  <2>. QED BY <2>1, <2>2, <2>3, <2>4 DEF ScanOK, Under
<1>2. CASE Created
  <2>1. PICK mode \in ScanMode, walk \in CustomWalks \cup {RootWalk}, scope \in SUBSET Paths,
             roots \in SUBSET Roots :
          /\ scan' = ScanOf(mode, walk, scope, roots)
          /\ scope \subseteq Under(roots)
          /\ mode = "custom" => scope = Met(walk, roots)
    BY <1>2 DEF Created
  <2>2. /\ scan'.mode = mode /\ scan'.walk = walk /\ scan'.scope = scope /\ scan'.roots = roots
    BY <2>1, NewJob
  <2>3. /\ root' = AllRoots /\ listed' = {} /\ waiting' = {} /\ batch' = {} /\ unread' = {}
        /\ verdicts' = {} /\ found' = {} /\ removed' = {} /\ stage' = "queued"
    BY <1>2 DEF Created, ScanTyped, Running, locals, NoLocals
  <2>4. JudgedPaths' = {}
    BY <2>3 DEF JudgedPaths
  <2>5. Met(walk, roots \cup {AllRoots}) \subseteq Met(walk, roots)
    BY RootsTyped DEF Met, Under
  <2>6. AllRoots \notin roots
    BY RootsTyped
  <2>7. scan'.mode = "custom" => Met(scan'.walk, scan'.roots \cup {root'}) \subseteq scan'.scope
    BY <2>1, <2>2, <2>3, <2>5
  <2>8. scan'.scope \subseteq Under(scan'.roots)
    BY <2>1, <2>2
  <2>. QED BY <2>2, <2>3, <2>4, <2>6, <2>7, <2>8 DEF ScanOK, Under
<1>3. CASE Begun
  <2>1. UNCHANGED <<scan, root, listed, waiting, batch, unread, verdicts, found, removed>>
    BY <1>3 DEF Begun, locals
  <2>2. JudgedPaths' = JudgedPaths
    BY <2>1 DEF JudgedPaths
  <2>3. Met(scan'.walk, scan'.roots \cup {root'}) = Met(scan.walk, scan.roots \cup {root})
    BY <2>1
  <2>. QED BY <1>3, <2>1, <2>2, <2>3 DEF Begun, ScanOK, Under
<1>4. CASE ListRoot
  <2>1. PICK r \in scan.roots :
          /\ scan' = [scan EXCEPT !.roots = @ \ {r}]
          /\ root' = r
          /\ listed' \subseteq scan.scope \cap Under({r})
    BY <1>4 DEF ListRoot
  <2>2. scan \in ScanJob
    BY <1>4, JobFields DEF ListRoot, Running
  <2>3. /\ scan'.mode = scan.mode /\ scan'.walk = scan.walk /\ scan'.scope = scan.scope
        /\ scan'.roots = scan.roots \ {r}
    BY <2>1, <2>2 DEF ScanJob
  <2>4. /\ UNCHANGED <<waiting, batch, unread, verdicts, found, removed>>
        /\ stage = "root" /\ stage' = "listed"
    BY <1>4 DEF ListRoot
  <2>5. waiting = {} /\ batch = {} /\ verdicts = {} /\ JudgedPaths' = {} /\ JudgedPaths = {}
    BY <2>4 DEF ScanOK, JudgedPaths
  <2>6. Met(scan'.walk, scan'.roots \cup {root'}) \subseteq Met(scan.walk, scan.roots \cup {root})
    <3>1. scan'.roots \cup {root'} = scan.roots
      BY <2>1, <2>3
    <3>. QED BY <2>3, <3>1 DEF Met, Under
  <2>7. listed' \subseteq scan'.scope \cap Under({root'})
    BY <2>1, <2>3
  <2>8. \A x \in found' : /\ x.path \in scan'.scope /\ RootOf[x.path] \notin scan'.roots
                          /\ RootOf[x.path] # root'
    BY <2>1, <2>3, <2>4 DEF ScanOK
  <2>. QED BY <2>1, <2>3, <2>4, <2>5, <2>6, <2>7, <2>8 DEF ScanOK, Under
<1>5. CASE CompareSmart
  <2>. DEFINE todo == listed \ Unchanged
  <2>1. /\ TakeBatch(todo) /\ UNCHANGED <<scan, root, listed, verdicts, found>>
        /\ stage = "listed" /\ scan.mode = "smart"
    BY <1>5 DEF CompareSmart
  <2>2. waiting = {} /\ unread = {} /\ verdicts' = {}
    BY <2>1 DEF ScanOK, ScanTyped
  <2>3. todo \subseteq scan.scope \cap Under({root})
    BY DEF ScanOK
  <2>4. \A x \in found' : x.path \in scan.scope \ todo /\ RootOf[x.path] \notin scan.roots
    BY <2>1, <2>3 DEF ScanOK, Under
  <2>5. \A x, y \in found' : x.path = y.path => x = y
    BY <2>1 DEF ScanOK
  <2>. HIDE DEF todo
  <2>. QED BY <2>1, <2>2, <2>3, <2>4, <2>5, BatchKeeps DEF Running
<1>6. CASE CompareNothing
  <2>. DEFINE todo == scan.scope \cap Under({root})
  <2>1. /\ TakeBatch(todo) /\ UNCHANGED <<scan, root, listed, verdicts, found>>
        /\ stage = "listed" /\ scan.mode # "smart"
        /\ removed' = IF scan.mode = "custom" THEN removed \cup MissingInScope ELSE removed
    BY <1>6 DEF CompareNothing
  <2>2. waiting = {} /\ unread = {} /\ verdicts' = {}
    BY <2>1 DEF ScanOK, ScanTyped
  <2>3. todo \subseteq scan.scope \cap Under({root})
    OBVIOUS
  <2>4. \A x \in found' : /\ x.path \in scan.scope \ todo /\ RootOf[x.path] \notin scan.roots
                          /\ x.path \notin listed
    BY <2>1 DEF ScanOK, Under
  <2>5. \A x, y \in found' : x.path = y.path => x = y
    BY <2>1 DEF ScanOK
  <2>6. scan.mode = "custom" => removed' \subseteq scan.scope
    <3>1. MissingInScope \subseteq Met(scan.walk, {root})
      BY <2>1, MissingIsMet DEF Running
    <3>2. Met(scan.walk, {root}) \subseteq Met(scan.walk, scan.roots \cup {root})
      BY DEF Met, Under
    <3>. QED BY <2>1, <3>1, <3>2 DEF ScanOK
  <2>7. scan.mode = "file" => removed' = {}
    BY <2>1 DEF ScanOK
  <2>. HIDE DEF todo
  <2>. QED BY <2>1, <2>2, <2>3, <2>4, <2>5, <2>6, <2>7, BatchKeeps DEF Running
<1>7. ASSUME NEW p \in Paths, ToolReads(p) PROVE ScanOK'
  <2>1. /\ p \in unread /\ unread' = unread \ {p} /\ p \in batch /\ stage = "tool"
        /\ UNCHANGED <<scan, stage, root, listed, waiting, batch, found, removed>>
    BY <1>7 DEF ToolReads, ScanOK, ScanTyped
  <2>. DEFINE verdict == [path |-> p, mel |-> disk[p].form = "mel"]
              new == IF disk[p] = Absent THEN {} ELSE {verdict}
  <2>2. verdicts' = verdicts \cup new
    BY <1>7 DEF ToolReads
  <2>3. \A v \in new : v.path = p
    OBVIOUS
  <2>4. \A v, w \in new : v = w
    OBVIOUS
  <2>. HIDE DEF verdict, new
  <2>5. \A v \in verdicts : v.path \in JudgedPaths
    BY DEF JudgedPaths
  <2>6. p \notin JudgedPaths
    BY <2>1 DEF ScanOK
  <2>7. \A v, w \in verdicts' : v.path = w.path => v = w
    BY <2>2, <2>3, <2>4, <2>5, <2>6 DEF ScanOK
  <2>8. JudgedPaths' \subseteq JudgedPaths \cup {p}
    BY <2>2, <2>3 DEF JudgedPaths
  <2>9. Met(scan'.walk, scan'.roots \cup {root'}) = Met(scan.walk, scan.roots \cup {root})
    BY <2>1
  <2>10. JudgedPaths' \subseteq batch' \ unread'
    BY <2>1, <2>8 DEF ScanOK
  <2>11. Pool' = Pool
    BY <2>1 DEF Pool
  <2>. QED BY <2>1, <2>7, <2>9, <2>10, <2>11 DEF ScanOK, Under
<1>8. CASE ParseBatch
  <2>1. /\ TakeBatch(waiting) /\ UNCHANGED <<scan, root, listed, removed>>
        /\ stage = "tool" /\ unread = {} /\ verdicts' = {}
    BY <1>8 DEF ParseBatch
  <2>2. \A x \in found' \ found : x.path \in Pool
    BY <1>8 DEF ParseBatch, TakenFor
  <2>3. \A x, y \in found' \ found : x.path = y.path => x = y
    BY <1>8, NewResults
  <2>4. \A x \in found : x.path \notin waiting \cup Pool
    BY <2>1 DEF ScanOK
  <2>5. \A x, y \in found' : x.path = y.path => x = y
    BY <2>2, <2>3, <2>4 DEF ScanOK
  <2>6. root \in Roots \/ Under({root}) = {}
    BY RootsTyped DEF ScanTyped
  <2>7. Pool \subseteq scan.scope \cap Under({root})
    BY DEF ScanOK, Pool
  <2>8. \A q \in Pool : q \in scan.scope /\ RootOf[q] = root
    BY <2>6, <2>7, UnderOne
  <2>9. Pool \cap waiting = {}
    BY <2>1 DEF ScanOK, Pool
  <2>10. scan.mode # "smart" => waiting = {}
    BY <2>1 DEF ScanOK
  <2>11. root \notin scan.roots
    BY DEF ScanOK
  <2>12. \A x \in found' : x.path \in scan.scope \ waiting /\ RootOf[x.path] \notin scan.roots
    <3>1. \A x \in found : x.path \in scan.scope \ waiting /\ RootOf[x.path] \notin scan.roots
      BY <2>4 DEF ScanOK
    <3>. QED BY <2>2, <2>8, <2>9, <2>11, <3>1
  <2>13. waiting \subseteq scan.scope \cap Under({root})
    BY DEF ScanOK
  <2>14. scan.mode = "custom" => removed' \subseteq scan.scope
    BY <2>1 DEF ScanOK
  <2>15. scan.mode = "file" => removed' = {}
    BY <2>1 DEF ScanOK
  <2>. QED BY <2>1, <2>5, <2>10, <2>12, <2>13, <2>14, <2>15, BatchKeeps DEF Running
<1>9. CASE DropScan
  <2>1. /\ scan' = NoScan /\ stage' = "none" /\ root' = AllRoots
        /\ listed' = {} /\ waiting' = {} /\ batch' = {} /\ unread' = {} /\ verdicts' = {}
        /\ found' = {} /\ removed' = {}
    BY <1>9 DEF DropScan
  <2>2. JudgedPaths' = {}
    BY <2>1 DEF JudgedPaths
  <2>3. scan'.mode = "none" /\ scan'.roots = {} /\ scan'.scope = {}
    BY <2>1 DEF NoScan
  <2>. QED BY <2>1, <2>2, <2>3 DEF ScanOK, Under
<1>. QED BY <1>1, <1>2, <1>3, <1>4, <1>5, <1>6, <1>7, <1>8, <1>9 DEF ScanStep

-----------------------------------------------------------------------------
(* The requests.                                                           *)

(* Nothing happens to the requests, and no scan begins under the           *)
(* coordinator's hands.                                                    *)
LEMMA RequestsRest ==
    ASSUME RequestsOK, UNCHANGED <<requests, coordinator>>,
           coordinator = "idle" \/ UNCHANGED <<scan, stage>>
    PROVE  RequestsOK'
BY DEF RequestsOK, Claimed, Running

LEMMA EnqueueKeeps ==
    ASSUME RequestsOK, NEW key \in Key, EnqueueScanRequest(key),
           UNCHANGED <<coordinator, scan, stage>>
    PROVE  RequestsOK'
<1>1. /\ requests' \in Seq(ScanRequest)
      /\ Len(requests') >= Len(requests)
      /\ \A i, j \in 1 .. Len(requests') : requests'[i].key = requests'[j].key => i = j
      /\ Claimed' = Claimed
  BY Enqueued
<1>2. Len(requests) \in Nat /\ Len(requests') \in Nat
  BY <1>1 DEF RequestsOK
<1>3. \A i \in 1 .. Len(requests) : i \in 1 .. Len(requests')
  BY <1>1, <1>2
<1>. QED BY <1>1, <1>3 DEF RequestsOK, Running

(* The keys of a call are those of files, of their roots or of everything. *)
LEMMA CallKeys ==
    ASSUME NEW paths \in SUBSET Paths, NEW type, Webhook(paths, type), paths # {}
    PROVE  EventOK'
<1>. DEFINE mapped == {p \in paths : MappedFile(p) # {}}
            files == UNION {MappedFile(p) : p \in mapped}
<1>1. event' = IF mapped = {}
               THEN [paths |-> paths, keys |-> {SmartKey(AllRoots)}]
               ELSE [paths |-> mapped,
                     keys |-> IF type = "rename" THEN {SmartKey(RootOf[q]) : q \in files}
                                                 ELSE {FileKey(q) : q \in files}]
  BY DEF Webhook
<1>2. files \subseteq Paths
  BY DEF MappedFile
<1>3. mapped # {} => files # {}
  OBVIOUS
<1>4. mapped \subseteq Paths
  OBVIOUS
<1>. HIDE DEF mapped, files
<1>5. SmartKey(AllRoots) \in Key
  BY Keys
<1>6. \A q \in Paths : FileKey(q) \in Key /\ SmartKey(RootOf[q]) \in Key
  BY Keys, RootsTyped
<1>7. {SmartKey(RootOf[q]) : q \in files} \subseteq Key /\ {FileKey(q) : q \in files} \subseteq Key
  BY <1>2, <1>6
<1>8. files # {} => {SmartKey(RootOf[q]) : q \in files} # {} /\ {FileKey(q) : q \in files} # {}
  OBVIOUS
<1>9. coordinator' = "idle"
  BY DEF Webhook, LoopFree
<1>10. CASE mapped = {}
  BY <1>1, <1>5, <1>9, <1>10 DEF EventOK, Event
<1>11. CASE mapped # {} /\ type = "rename"
  BY <1>1, <1>3, <1>4, <1>7, <1>8, <1>9, <1>11 DEF EventOK, Event
<1>12. CASE mapped # {} /\ type # "rename"
  BY <1>1, <1>3, <1>4, <1>7, <1>8, <1>9, <1>12 DEF EventOK, Event
<1>. QED BY <1>10, <1>11, <1>12

LEMMA EventStep ==
    ASSUME EventOK, RequestsOK, [Next]_vars
    PROVE  EventOK'
<1>1. ASSUME NEW paths \in (SUBSET Paths) \ {{}}, NEW type, Webhook(paths, type) PROVE EventOK'
  BY <1>1, CallKeys
<1>2. ASSUME NEW key \in event.keys, WriteRequest(key) PROVE EventOK'
  <2>1. coordinator' = coordinator
    BY <1>2 DEF WriteRequest
  <2>2. CASE event.keys = {key}
    BY <1>2, <2>1, <2>2 DEF WriteRequest, EventOK, Event, NoEvent
  <2>3. CASE event.keys # {key}
    <3>1. event' = [event EXCEPT !.keys = event.keys \ {key}]
      BY <1>2, <2>3 DEF WriteRequest
    <3>2. event \in Event
      BY DEF EventOK
    <3>3. /\ event' \in Event /\ event'.paths = event.paths
          /\ event'.keys = event.keys \ {key}
      BY <3>1, <3>2 DEF Event
    <3>4. event'.keys # {} /\ event.paths # {}
      BY <1>2, <2>3, <3>3 DEF EventOK
    <3>5. event # NoEvent
      BY <1>2 DEF NoEvent
    <3>. QED BY <2>1, <3>3, <3>4, <3>5 DEF EventOK
  <2>. QED BY <2>2, <2>3
<1>3. ASSUME event' = NoEvent \/ (event' = event /\ coordinator' = coordinator) PROVE EventOK'
  BY <1>3 DEF EventOK, Event, NoEvent
<1>4. ASSUME event' = event, event = NoEvent PROVE EventOK'
  BY <1>3, <1>4
<1>5. CASE ClaimRequest
  BY <1>4, <1>5 DEF ClaimRequest, LoopFree
<1>6. CASE QueueScan \/ CompleteRequest
  <2>1. coordinator # "idle" /\ event' = event
    BY <1>6 DEF QueueScan, CompleteRequest
  <2>2. event = NoEvent
    BY <2>1 DEF EventOK
  <2>. QED BY <1>4, <2>1, <2>2
<1>7. CASE Crash
  BY <1>3, <1>7 DEF Crash
<1>8. ASSUME event' = event, coordinator' = coordinator PROVE EventOK'
  BY <1>3, <1>8
<1>9. CASE ScheduleDue \/ Worker \/ UNCHANGED vars
  BY <1>8, <1>9
  DEF ScheduleDue, Worker, BeginScan, ListRoot, CompareSmart, CompareNothing, ToolReads, ParseBatch,
      Reconcile, SucceedScan, FailScan, vars
<1>10. ASSUME NEW p \in Paths, Import(p) \/ Delete(p) \/ Recover(p) \/ Convert(p) PROVE EventOK'
  BY <1>8, <1>10 DEF Import, Delete, Recover, Convert
<1>11. ASSUME (\E mode, r : QueueManualScan(mode, r)) \/ \E walk, r : QueueCustomScan(walk, r)
       PROVE  EventOK'
  BY <1>8, <1>11 DEF QueueManualScan, QueueCustomScan
<1>. QED
  BY <1>1, <1>2, <1>5, <1>6, <1>7, <1>9, <1>10, <1>11 DEF Next, External, Handler, Coordinator

LEMMA ClaimStep ==
    ASSUME RequestsOK, ScanTyped, ClaimRequest
    PROVE  /\ RequestsOK'
           /\ Len(requests') = Len(requests)
           /\ \A i \in 1 .. Len(requests) : requests'[i].key = requests[i].key
<1>1. PICK i \in 1 .. Len(requests) :
        /\ requests[i].state = "pending"
        /\ requests' = [requests EXCEPT ![i].state = "claimed"]
  BY DEF ClaimRequest
<1>2. requests \in Seq(ScanRequest) /\ Claimed = {}
  BY DEF RequestsOK, ClaimRequest, LoopFree
<1>3. requests[i] \in ScanRequest
  BY <1>2
<1>4. [requests[i] EXCEPT !.state = "claimed"] \in ScanRequest
  BY <1>3 DEF ScanRequest
<1>5. /\ requests' \in Seq(ScanRequest) /\ Len(requests') = Len(requests)
      /\ \A j \in 1 .. Len(requests) \ {i} : requests'[j] = requests[j]
      /\ requests'[i] = [requests[i] EXCEPT !.state = "claimed"]
  BY <1>1, <1>2, <1>4
<1>6. requests'[i].key = requests[i].key /\ requests'[i].state = "claimed"
  BY <1>3, <1>5 DEF ScanRequest
<1>7. \A j \in 1 .. Len(requests) : requests'[j].key = requests[j].key
  BY <1>5, <1>6
<1>8. Claimed' = {i}
  <2>1. \A j \in 1 .. Len(requests) \ {i} : requests'[j].state # "claimed"
    BY <1>2, <1>5 DEF Claimed
  <2>. QED BY <1>5, <1>6, <2>1 DEF Claimed
<1>9. coordinator' = "claimed" /\ scan' = NoScan /\ stage' = "none"
  BY DEF ClaimRequest, ScanTyped
<1>. QED BY <1>5, <1>7, <1>8, <1>9 DEF RequestsOK, Running

LEMMA QueueStep ==
    ASSUME RequestsOK, ScanTyped, QueueScan
    PROVE  RequestsOK'
<1>1. PICK i \in Claimed :
        \/ UNCHANGED requests
        \/ /\ requests[i].key.type = "file"
           /\ EnqueueScanRequest(SmartKey(requests[i].key.root))
  BY DEF QueueScan
<1>2. requests[i].key \in Key
  BY RequestFields DEF Claimed
<1>3. coordinator = "claimed" /\ coordinator' = "queued" /\ scan = NoScan /\ stage = "none"
  BY DEF QueueScan, RequestsOK, ScanTyped
<1>4. stage' \in {"none", "queued"}
  BY <1>3 DEF QueueScan, CreateScan
<1>5. CASE UNCHANGED requests
  BY <1>3, <1>4, <1>5 DEF RequestsOK, Claimed, Running
<1>6. CASE /\ requests[i].key.type = "file"
           /\ EnqueueScanRequest(SmartKey(requests[i].key.root))
  <2>1. SmartKey(requests[i].key.root) \in Key
    BY <1>2, <1>6, Keys, RootsTyped
  <2>2. /\ requests' \in Seq(ScanRequest)
        /\ Len(requests') >= Len(requests)
        /\ \A m, n \in 1 .. Len(requests') : requests'[m].key = requests'[n].key => m = n
        /\ Claimed' = Claimed
    BY <1>6, <2>1, Enqueued
  <2>3. \E k \in 1 .. Len(requests') : Claimed' = {k}
    <3>1. PICK k \in 1 .. Len(requests) : Claimed = {k}
      BY <1>3 DEF RequestsOK
    <3>2. k \in 1 .. Len(requests')
      BY <2>2 DEF RequestsOK
    <3>. QED BY <2>2, <3>1, <3>2
  <2>. QED BY <1>3, <1>4, <2>2, <2>3 DEF RequestsOK, Running
<1>. QED BY <1>1, <1>5, <1>6

LEMMA CompleteStep ==
    ASSUME RequestsOK, CompleteRequest
    PROVE  /\ RequestsOK'
           /\ \A i \in 1 .. Len(requests) \ Claimed :
                 \E j \in 1 .. Len(requests') : requests'[j] = requests[i]
<1>1. PICK i \in 1 .. Len(requests) : Claimed = {i}
  BY DEF RequestsOK, CompleteRequest
<1>2. requests' = RemoveAt(requests, i)
  BY <1>1 DEF CompleteRequest
<1>3. /\ requests' \in Seq(ScanRequest)
      /\ \A m, n \in 1 .. Len(requests') : requests'[m].key = requests'[n].key => m = n
      /\ Claimed' = {}
      /\ \A m \in 1 .. Len(requests) \ {i} :
            \E j \in 1 .. Len(requests') : requests'[j] = requests[m]
  BY <1>1, <1>2, Completed
<1>. QED BY <1>1, <1>3 DEF RequestsOK, CompleteRequest, Running

LEMMA RecoverStep ==
    ASSUME RequestsOK, RecoverClaimedRequests
    PROVE  /\ requests' \in Seq(ScanRequest)
           /\ Len(requests') = Len(requests)
           /\ \A i \in 1 .. Len(requests) :
                 requests'[i].key = requests[i].key /\ requests'[i].state = "pending"
           /\ Claimed' = {}
<1>1. requests \in Seq(ScanRequest) /\ Len(requests) \in Nat
  BY DEF RequestsOK
<1>2. \A i \in 1 .. Len(requests) :
         /\ [requests[i] EXCEPT !.state = "pending"] \in ScanRequest
         /\ [requests[i] EXCEPT !.state = "pending"].key = requests[i].key
         /\ [requests[i] EXCEPT !.state = "pending"].state = "pending"
  <2> SUFFICES ASSUME NEW i \in 1 .. Len(requests)
               PROVE  /\ [requests[i] EXCEPT !.state = "pending"] \in ScanRequest
                      /\ [requests[i] EXCEPT !.state = "pending"].key = requests[i].key
                      /\ [requests[i] EXCEPT !.state = "pending"].state = "pending"
    OBVIOUS
  <2>1. requests[i] \in ScanRequest
    BY <1>1
  <2>. QED BY <2>1 DEF ScanRequest
<1>3. requests' = [i \in 1 .. Len(requests) |-> [requests[i] EXCEPT !.state = "pending"]]
  BY DEF RecoverClaimedRequests
<1>4. requests' \in Seq(ScanRequest) /\ Len(requests') = Len(requests)
  <2>1. \A i \in 1 .. Len(requests) : requests'[i] \in ScanRequest
    BY <1>2, <1>3
  <2>2. requests' \in [1 .. Len(requests) -> ScanRequest]
    BY <1>3, <2>1
  <2>. QED BY <1>1, <2>2, SeqDef
<1>5. \A i \in 1 .. Len(requests) :
         requests'[i].key = requests[i].key /\ requests'[i].state = "pending"
  BY <1>2, <1>3
<1>6. Claimed' = {}
  BY <1>4, <1>5 DEF Claimed
<1>. QED BY <1>4, <1>5, <1>6

LEMMA RequestsStep ==
    ASSUME RequestsOK, EventOK, ScanTyped, [Next]_vars
    PROVE  RequestsOK'
<1>1. ASSUME NEW p \in Paths, Import(p) \/ Delete(p) \/ Recover(p) \/ Convert(p)
      PROVE  RequestsOK'
  <2>1. UNCHANGED <<requests, coordinator, scan, stage>>
    BY <1>1 DEF Import, Delete, Recover, Convert
  <2>. QED BY <2>1, RequestsRest
<1>2. ASSUME \/ \E paths, type : Webhook(paths, type)
             \/ \E key \in event.keys : WriteRequest(key)
      PROVE  RequestsOK'
  <2>1. CASE \E paths, type : Webhook(paths, type)
    BY <2>1, RequestsRest DEF Webhook
  <2>2. ASSUME NEW key \in event.keys, WriteRequest(key) PROVE RequestsOK'
    <3>1. key \in Key
      BY DEF EventOK, Event
    <3>. QED BY <2>2, <3>1, EnqueueKeeps DEF WriteRequest
  <2>. QED BY <1>2, <2>1, <2>2
<1>3. ASSUME NEW mode \in {"full", "smart"}, NEW r \in Roots \cup {AllRoots},
             QueueManualScan(mode, r)
      PROVE  RequestsOK'
  BY <1>3, RequestsRest DEF QueueManualScan, LoopFree
<1>4. ASSUME NEW walk \in CustomWalks, NEW r \in Roots, QueueCustomScan(walk, r)
      PROVE  RequestsOK'
  BY <1>4, RequestsRest DEF QueueCustomScan, LoopFree
<1>5. CASE ScheduleDue
  <2>1. SmartKey(AllRoots) \in Key
    BY Keys
  <2>. QED BY <1>5, <2>1, EnqueueKeeps DEF ScheduleDue
<1>6. CASE ClaimRequest
  BY <1>6, ClaimStep
<1>7. CASE QueueScan
  BY <1>7, QueueStep
<1>8. CASE CompleteRequest
  BY <1>8, CompleteStep
<1>9. CASE BeginScan
  BY <1>9, RequestsRest DEF BeginScan, LoopFree
<1>10. CASE Worker /\ ~BeginScan
  <2>1. Running
    <3>1. ASSUME NEW p \in Paths, ToolReads(p), ~Running PROVE FALSE
      BY <3>1 DEF ToolReads, ScanTyped, locals, NoLocals
    <3>. QED
      BY <1>10, <3>1
      DEF Worker, ListRoot, CompareSmart, CompareNothing, ParseBatch, Reconcile, SucceedScan,
          FailScan, Running
  <2>2. UNCHANGED <<requests, coordinator>>
    BY <1>10
    DEF Worker, ListRoot, CompareSmart, CompareNothing, ToolReads, ParseBatch, Reconcile,
        SucceedScan, FailScan
  <2>3. coordinator = "idle"
    BY <2>1 DEF RequestsOK
  <2>. QED BY <2>2, <2>3, RequestsRest
<1>11. CASE Crash
  <2>1. RecoverClaimedRequests /\ coordinator' = "idle"
    BY <1>11 DEF Crash
  <2>2. /\ requests' \in Seq(ScanRequest) /\ Len(requests') = Len(requests)
        /\ \A i \in 1 .. Len(requests) : requests'[i].key = requests[i].key
        /\ Claimed' = {}
    BY <2>1, RecoverStep
  <2>. QED BY <2>1, <2>2 DEF RequestsOK
<1>12. CASE UNCHANGED vars
  BY <1>12, RequestsRest DEF vars
<1>. QED
  BY <1>1, <1>2, <1>3, <1>4, <1>5, <1>6, <1>7, <1>8, <1>9, <1>10, <1>11, <1>12
  DEF Next, External, Handler, Coordinator

-----------------------------------------------------------------------------
(* The tables.                                                             *)

(* What the transaction of a root does to a path: its one result, or its   *)
(* absence, decides over row and candidate together.                       *)
LEMMA RowStep ==
    ASSUME ScanTyped, ScanOK, NEW r \in Roots, ReconcileScan(r), NEW p \in Paths
    PROVE  \/ \E x \in found :
                 /\ x.path = p /\ RootOf[p] = r
                 /\ inventory'[p] = [file |-> x.file, mel |-> x.mel]
                 /\ candidates'[p] = IF x.mel THEN [active |-> TRUE, file |-> x.file]
                                     ELSE [candidates[p] EXCEPT !.active = FALSE]
           \/ /\ ResultFor(r, p) = {} /\ p \in Gone(r)
              /\ inventory'[p] = NoRow
              /\ candidates'[p] = [candidates[p] EXCEPT !.active = FALSE]
           \/ /\ ResultFor(r, p) = {} /\ p \notin Gone(r)
              /\ inventory'[p] = inventory[p]
              /\ \/ candidates'[p] = candidates[p]
                 \/ /\ scan.mode = "full" /\ RootOf[p] = r
                    /\ candidates'[p] = [candidates[p] EXCEPT !.active = FALSE]
<1>1. inventory'[p] = IF ResultFor(r, p) # {}
                      THEN LET result == CHOOSE x \in ResultFor(r, p) : TRUE
                           IN  [file |-> result.file, mel |-> result.mel]
                      ELSE IF p \in Gone(r) THEN NoRow ELSE inventory[p]
  BY DEF ReconcileScan
<1>2. candidates'[p] =
          IF \E result \in ResultFor(r, p) : result.mel
          THEN [active |-> TRUE, file |-> inventory'[p].file]
          ELSE IF \/ ResultFor(r, p) # {}
                  \/ p \in Gone(r)
                  \/ scan.mode = "full" /\ RootOf[p] = r
          THEN [candidates[p] EXCEPT !.active = FALSE]
          ELSE candidates[p]
  BY DEF ReconcileScan
<1>3. CASE ResultFor(r, p) # {}
  <2>. DEFINE x == CHOOSE x \in ResultFor(r, p) : TRUE
  <2>1. x \in ResultFor(r, p)
    BY <1>3
  <2>2. inventory'[p] = [file |-> x.file, mel |-> x.mel]
    BY <1>1, <1>3
  <2>. HIDE DEF x
  <2>3. x \in found /\ x.path = p /\ RootOf[p] = r
    BY <2>1 DEF ResultFor
  <2>4. \A y \in ResultFor(r, p) : y = x
    BY <2>3 DEF ResultFor, ScanOK
  <2>5. inventory'[p].file = x.file
    BY <2>2
  <2>6. CASE x.mel
    BY <1>2, <2>1, <2>2, <2>3, <2>5, <2>6
  <2>7. CASE ~x.mel
    BY <1>2, <1>3, <2>2, <2>3, <2>4, <2>7
  <2>. QED BY <2>6, <2>7
<1>4. CASE ResultFor(r, p) = {} /\ p \in Gone(r)
  BY <1>1, <1>2, <1>4
<1>5. CASE ResultFor(r, p) = {} /\ p \notin Gone(r)
  BY <1>1, <1>2, <1>5
<1>. QED BY <1>3, <1>4, <1>5

LEMMA Values ==
    /\ Absent \in Content /\ NoRow \in Row
    /\ \A file \in Content, mel \in BOOLEAN : [file |-> file, mel |-> mel] \in Row
    /\ \A file \in Content : /\ [file EXCEPT !.form = "converted"] \in Content
                             /\ [file EXCEPT !.form = "mel"] \in Content
<1>1. 0 \in 0 .. MaxImports
  BY BoundsAssumption
<1>2. Absent \in Content
  BY <1>1 DEF Absent, Content, Form
<1>3. NoRow \in Row
  BY <1>2 DEF NoRow, Row
<1>4. \A file \in Content, mel \in BOOLEAN : [file |-> file, mel |-> mel] \in Row
  BY DEF Row
<1>5. \A file \in Content : /\ [file EXCEPT !.form = "converted"] \in Content
                            /\ [file EXCEPT !.form = "mel"] \in Content
  BY DEF Content, Form
<1>. QED BY <1>2, <1>3, <1>4, <1>5

Entry == [active : BOOLEAN, file : Content]

LEMMA EntryKept == \A entry \in Entry : [entry EXCEPT !.active = FALSE] \in Entry
BY DEF Entry

LEMMA WrittenDisk ==
    ASSUME TablesOK, NEW p \in Paths, NEW file \in Content, Write(p, file)
    PROVE  disk' \in [Paths -> Content] /\ touched' \cup misjudged' \subseteq Paths
BY DEF TablesOK, Write

LEMMA ReconciledTables ==
    ASSUME TablesOK, ScanTyped, ScanOK, NEW r \in Roots, ReconcileScan(r)
    PROVE  /\ inventory' \in [Paths -> Row]
           /\ candidates' \in [Paths -> Entry]
<1>1. ASSUME NEW p \in Paths PROVE inventory'[p] \in Row /\ candidates'[p] \in Entry
  <2>1. inventory[p] \in Row /\ candidates[p] \in Entry
    BY DEF TablesOK, Entry
  <2>2. [candidates[p] EXCEPT !.active = FALSE] \in Entry
    BY <2>1, EntryKept
  <2>3. ASSUME NEW x \in found
        PROVE  /\ [file |-> x.file, mel |-> x.mel] \in Row
               /\ [active |-> TRUE, file |-> x.file] \in Entry
    <3>1. x \in Result
      BY DEF ScanTyped
    <3>2. x.file \in Content /\ x.mel \in BOOLEAN
      BY <3>1 DEF Result
    <3>. QED BY <3>2, Values DEF Entry
  <2>4. NoRow \in Row
    BY Values
  <2>5. ASSUME NEW x \in found, inventory'[p] = [file |-> x.file, mel |-> x.mel],
               candidates'[p] = IF x.mel THEN [active |-> TRUE, file |-> x.file]
                                ELSE [candidates[p] EXCEPT !.active = FALSE]
        PROVE  inventory'[p] \in Row /\ candidates'[p] \in Entry
    <3>1. inventory'[p] \in Row
      BY <2>3, <2>5
    <3>2. CASE x.mel
      BY <2>3, <2>5, <3>1, <3>2
    <3>3. CASE ~x.mel
      BY <2>2, <2>5, <3>1, <3>3
    <3>. QED BY <3>2, <3>3
  <2>6. CASE \E x \in found :
               /\ x.path = p
               /\ inventory'[p] = [file |-> x.file, mel |-> x.mel]
               /\ candidates'[p] = IF x.mel THEN [active |-> TRUE, file |-> x.file]
                                   ELSE [candidates[p] EXCEPT !.active = FALSE]
    BY <2>5, <2>6
  <2>7. CASE inventory'[p] = NoRow /\ candidates'[p] = [candidates[p] EXCEPT !.active = FALSE]
    BY <2>2, <2>4, <2>7
  <2>8. CASE /\ inventory'[p] = inventory[p]
             /\ \/ candidates'[p] = candidates[p]
                \/ candidates'[p] = [candidates[p] EXCEPT !.active = FALSE]
    BY <2>1, <2>2, <2>8
  <2>. QED BY <2>6, <2>7, <2>8, RowStep
<1>2. /\ inventory' = [p \in Paths |-> inventory'[p]]
      /\ candidates' = [p \in Paths |-> candidates'[p]]
  BY DEF ReconcileScan
<1>. QED BY <1>1, <1>2

LEMMA TablesStep ==
    ASSUME TablesOK, RequestsOK, EventOK, ScanTyped, ScanOK, [Next]_vars
    PROVE  TablesOK'
<1>1. ASSUME NEW p \in Paths, Import(p) PROVE TablesOK'
  <2>1. PICK form \in {"mel", "other"} : Write(p, [version |-> imports + 1, form |-> form])
    BY <1>1 DEF Import
  <2>2. imports' \in 0 .. MaxImports /\ imports' = imports + 1
    BY <1>1, BoundsAssumption DEF Import, TablesOK
  <2>3. [version |-> imports + 1, form |-> form] \in Content
    BY <2>2 DEF Content, Form
  <2>. QED BY <1>1, <2>1, <2>2, <2>3, WrittenDisk DEF Import, TablesOK, tables
<1>2. ASSUME NEW p \in Paths, Delete(p) PROVE TablesOK'
  BY <1>2, WrittenDisk, Values DEF Delete, TablesOK, tables
<1>3. ASSUME NEW p \in Paths, Recover(p) PROVE TablesOK'
  <2>1. [disk[p] EXCEPT !.form = "mel"] \in Content
    BY Values DEF TablesOK
  <2>. QED BY <1>3, <2>1, WrittenDisk DEF Recover, TablesOK, tables
<1>4. ASSUME NEW p \in Paths, Convert(p) PROVE TablesOK'
  <2>1. [disk[p] EXCEPT !.form = "converted"] \in Content
    BY Values DEF TablesOK
  <2>2. candidates' \in [Paths -> [active : BOOLEAN, file : Content]]
    BY <1>4 DEF Convert, TablesOK
  <2>3. disk' \in [Paths -> Content] /\ touched' \cup misjudged' \subseteq Paths
    BY <1>4, <2>1, WrittenDisk DEF Convert
  <2>. QED BY <1>4, <2>2, <2>3 DEF Convert, TablesOK
<1>5. ASSUME NEW paths, NEW type, Webhook(paths, type) PROVE TablesOK'
  BY <1>5 DEF Webhook, TablesOK, tables, changes
<1>6. ASSUME NEW mode, NEW r, QueueManualScan(mode, r) PROVE TablesOK'
  BY <1>6 DEF QueueManualScan, TablesOK, tables, changes
<1>7. ASSUME NEW walk, NEW r, QueueCustomScan(walk, r) PROVE TablesOK'
  BY <1>7 DEF QueueCustomScan, TablesOK, tables, changes
<1>8. CASE ScheduleDue \/ ClaimRequest \/ QueueScan \/ CompleteRequest
  BY <1>8 DEF ScheduleDue, ClaimRequest, QueueScan, CompleteRequest, TablesOK, tables, changes
<1>9. CASE BeginScan \/ ListRoot \/ CompareSmart \/ CompareNothing \/ ParseBatch
  BY <1>9
  DEF BeginScan, ListRoot, CompareSmart, CompareNothing, ParseBatch, TablesOK, tables, changes
<1>10. ASSUME NEW p \in Paths, ToolReads(p) PROVE TablesOK'
  BY <1>10 DEF ToolReads, TablesOK, tables, changes
<1>11. ASSUME NEW r \in Roots, Reconcile(r) PROVE TablesOK'
  <2>1. ReconcileScan(r) /\ UNCHANGED <<disk, touched, reported, imports, crashes>>
    BY <1>11 DEF Reconcile
  <2>2. misjudged' \subseteq Paths
    BY <1>11 DEF Reconcile
  <2>. QED BY <2>1, <2>2, ReconciledTables DEF TablesOK, Entry
<1>12. CASE SucceedScan \/ FailScan
  BY <1>12 DEF SucceedScan, FailScan, DropScan, TablesOK, tables
<1>13. CASE Crash
  <2>1. crashes' \in 0 .. MaxCrashes
    BY <1>13, BoundsAssumption DEF Crash, TablesOK
  <2>2. UNCHANGED <<disk, inventory, candidates, imports>>
    BY <1>13 DEF Crash, tables
  <2>3. touched' \subseteq touched /\ misjudged' = misjudged /\ reported' \subseteq reported
    BY <1>13 DEF Crash, DropScan, changes
  <2>. QED BY <2>1, <2>2, <2>3 DEF TablesOK
<1>14. CASE UNCHANGED vars
  BY <1>14 DEF vars, TablesOK, tables, changes
<1>15. ASSUME NEW key \in event.keys, WriteRequest(key) PROVE TablesOK'
  <2>1. reported' \subseteq Paths
    BY <1>15 DEF WriteRequest, EventOK, Event, TablesOK
  <2>. QED BY <1>15, <2>1 DEF WriteRequest, TablesOK, tables, changes
<1>. QED
  BY <1>1, <1>2, <1>3, <1>4, <1>5, <1>6, <1>7, <1>8, <1>9, <1>10, <1>11, <1>12, <1>13, <1>14, <1>15
  DEF Next, External, Handler, Coordinator, Worker

-----------------------------------------------------------------------------
(* The invariant, and what follows from it.                                *)

Inv == TablesOK /\ RequestsOK /\ EventOK /\ ScanTyped /\ ScanOK

LEMMA InvInit == Init => Inv
<1> SUFFICES ASSUME Init PROVE Inv
  OBVIOUS
<1>1. 0 \in 0 .. MaxImports /\ 0 \in 0 .. MaxCrashes
  BY BoundsAssumption
<1>2. TablesOK
  BY <1>1, Values DEF Init, TablesOK
<1>3. RequestsOK
  BY DEF Init, RequestsOK, Claimed, Running
<1>4. ScanTyped
  BY DEF Init, ScanTyped, Stage, Running, locals, NoLocals
<1>7. EventOK
  BY DEF Init, EventOK, Event, NoEvent
<1>5. scan.mode = "none" /\ scan.roots = {} /\ scan.scope = {} /\ JudgedPaths = {}
  BY DEF Init, NoScan, JudgedPaths
<1>6. ScanOK
  BY <1>5 DEF Init, ScanOK
<1>. QED BY <1>2, <1>3, <1>4, <1>6, <1>7 DEF Inv

LEMMA InvStep == Inv /\ [Next]_vars => Inv'
BY StepIsScanStep, TypedStep, ScanOKStep, RequestsStep, EventStep, TablesStep DEF Inv

LEMMA InvInductive == Spec => []Inv
BY InvInit, InvStep, PTL DEF Spec

(* The variables keep their types, no two requests have one key, and the   *)
(* worker's locals are empty between scans.                                *)
THEOREM DiscoveryTypes == Spec => []TypeOK
<1>1. Inv => TypeOK
  <2> SUFFICES ASSUME Inv PROVE TypeOK
    OBVIOUS
  <2>1. Cardinality(Claimed) = IF coordinator = "idle" THEN 0 ELSE 1
    <3>1. CASE coordinator = "idle"
      BY <3>1, FS_EmptySet DEF Inv, RequestsOK
    <3>2. CASE coordinator # "idle"
      BY <3>2, FS_Singleton DEF Inv, RequestsOK
    <3>. QED BY <3>1, <3>2
  <2>2. IsInjective([i \in DOMAIN requests |-> requests[i].key])
    BY DEF Inv, RequestsOK, IsInjective
  <2>. QED BY <2>1, <2>2 DEF Inv, TablesOK, RequestsOK, EventOK, ScanTyped, TypeOK
<1>. QED BY InvInductive, <1>1, PTL

LEMMA CandidateStep ==
    ASSUME Inv, CandidateMatchesRow, [Next]_vars
    PROVE  CandidateMatchesRow'
<1>1. CASE UNCHANGED tables
  BY <1>1 DEF tables, CandidateMatchesRow
<1>2. ASSUME NEW p \in Paths, Convert(p) PROVE CandidateMatchesRow'
  <2>1. \A q \in Paths : candidates'[q].active => candidates'[q] = candidates[q]
    BY <1>2 DEF Convert, Inv, TablesOK
  <2>2. inventory' = inventory
    BY <1>2 DEF Convert
  <2>. QED BY <2>1, <2>2 DEF CandidateMatchesRow
<1>3. ASSUME NEW r \in Roots, Reconcile(r) PROVE CandidateMatchesRow'
  <2> SUFFICES ASSUME NEW p \in Paths, candidates'[p].active
               PROVE  inventory'[p] = [file |-> candidates'[p].file, mel |-> TRUE]
    BY DEF CandidateMatchesRow
  <2>1. ReconcileScan(r)
    BY <1>3 DEF Reconcile
  <2>2. candidates[p] \in Entry
    BY DEF Inv, TablesOK, Entry
  <2>3. ~[candidates[p] EXCEPT !.active = FALSE].active
    BY <2>2 DEF Entry
  <2>4. \A x \in found : x.mel \in BOOLEAN
    BY DEF Inv, ScanTyped, Result
  <2>5. \/ \E x \in found :
              /\ inventory'[p] = [file |-> x.file, mel |-> x.mel]
              /\ x.mel /\ candidates'[p] = [active |-> TRUE, file |-> x.file]
        \/ inventory'[p] = inventory[p] /\ candidates'[p] = candidates[p]
    BY <2>1, <2>3, RowStep DEF Inv
  <2>6. CASE inventory'[p] = inventory[p] /\ candidates'[p] = candidates[p]
    BY <2>6 DEF CandidateMatchesRow
  <2>7. ASSUME NEW x \in found, inventory'[p] = [file |-> x.file, mel |-> x.mel], x.mel,
               candidates'[p] = [active |-> TRUE, file |-> x.file]
        PROVE  inventory'[p] = [file |-> candidates'[p].file, mel |-> TRUE]
    <3>1. x.mel = TRUE
      BY <2>4, <2>7
    <3>2. candidates'[p].file = x.file
      BY <2>7
    <3>. QED BY <2>7, <3>1, <3>2, Zenon
  <2>. QED BY <2>5, <2>6, <2>7
<1>. QED
  BY <1>1, <1>2, <1>3
  DEF Next, External, Handler, Coordinator, Worker, Import, Delete, Recover, Webhook, WriteRequest,
      QueueManualScan,
      QueueCustomScan, ScheduleDue, ClaimRequest, QueueScan, CompleteRequest, BeginScan, ListRoot,
      CompareSmart, CompareNothing, ToolReads, ParseBatch, SucceedScan, FailScan, Crash, vars

(* An active candidate is the inventory's row for its file, however files, *)
(* scans of every mode, conversions and crashes meet.                      *)
THEOREM CandidateMatchesHolds == Spec => []CandidateMatchesRow
<1>1. Init => CandidateMatchesRow
  BY DEF Init, CandidateMatchesRow
<1>2. Inv /\ CandidateMatchesRow /\ [Next]_vars => CandidateMatchesRow'
  BY CandidateStep
<1>. QED BY InvInductive, <1>1, <1>2, PTL DEF Spec

(* A custom or file scan leaves the rows and candidates alone that its     *)
(* walk does not reach.                                                    *)
THEOREM OutOfScopeHolds == Spec => OutOfScopeKept
<1>1. ASSUME Inv, scan.mode \in {"custom", "file"}, stage = "reconcile",
             NEW r \in Roots, Reconcile(r), NEW p \in Paths \ scan.scope
      PROVE  UNCHANGED <<inventory[p], candidates[p]>>
  <2>1. ReconcileScan(r)
    BY <1>1 DEF Reconcile
  <2>2. ResultFor(r, p) = {} /\ p \notin removed
    BY <1>1 DEF Inv, ScanOK, ResultFor
  <2>3. p \notin Gone(r)
    BY <1>1, <2>2 DEF Gone
  <2>4. \A x \in found : x.path # p
    BY <1>1 DEF Inv, ScanOK
  <2>. QED BY <1>1, <2>1, <2>3, <2>4, RowStep DEF Inv
<1>2. Inv /\ [Next]_vars =>
        (scan.mode \in {"custom", "file"} =>
            \A p \in Paths \ scan.scope :
                stage = "reconcile" => UNCHANGED <<inventory[p], candidates[p]>>)
  <2> SUFFICES ASSUME Inv, [Next]_vars, scan.mode \in {"custom", "file"}, stage = "reconcile",
                      NEW p \in Paths \ scan.scope
               PROVE  UNCHANGED <<inventory[p], candidates[p]>>
    OBVIOUS
  <2>1. UNCHANGED tables \/ \E r \in Roots : Reconcile(r)
    BY DEF Next, External, Handler, Coordinator, Worker, Import, Delete, Recover, Convert, LoopFree,
           Webhook, WriteRequest,
           QueueManualScan, QueueCustomScan, ScheduleDue, ClaimRequest, QueueScan, CompleteRequest,
           BeginScan, ListRoot, CompareSmart, CompareNothing, ToolReads, ParseBatch, SucceedScan,
           FailScan, Crash, vars
  <2>2. CASE UNCHANGED tables
    BY <2>2 DEF tables
  <2>. QED BY <1>1, <2>1, <2>2
<1>. QED BY InvInductive, <1>2, PTL DEF Spec, OutOfScopeKept

-----------------------------------------------------------------------------
(* What the tables say.                                                    *)

Judges(mel, file) == mel <=> file.form = "mel"
FoundPaths == {x.path : x \in found}

(* A row holds the verdict of its own file, and the candidate of a file    *)
(* that is still the one in its row is active when it should be.           *)
RowRight(p) ==
    p \notin misjudged =>
        /\ Judges(inventory[p].mel, inventory[p].file)
        /\ inventory[p].mel /\ inventory[p].file = disk[p] => candidates[p].active

(* What the worker has seen is still so where nobody touched it.  The row  *)
(* of a file that is no candidate is its own only if its name is clear.    *)
Spared(p) == p \in Unclear /\ disk[p].form # "mel"
VerdictRight(v) ==
    v.path \notin touched => disk[v.path] # Absent /\ Judges(v.mel, disk[v.path])
ReadRight(p) ==
    p \notin touched /\ disk[p] # Absent => p \in JudgedPaths
ResultRight(x) ==
    /\ x.file # Absent
    /\ x.path \notin touched =>
          /\ x.file = disk[x.path]
          /\ Spared(x.path) \/ Judges(x.mel, x.file)
WalkRight(p) ==
    p \notin touched =>
        /\ RootOf[p] = root => (p \in listed <=> disk[p] # Absent)
        /\ p \in removed => disk[p] = Absent
        /\ scan.mode = "file" /\ Running /\ RootOf[p] \notin scan.roots => disk[p] # Absent

(* A path whose root was listed is on its way to a result, or its row needs *)
(* none or goes; once its root is reconciled, the tables tell the truth.   *)
Accounted(p) ==
    \/ disk[p] = Absent /\ (inventory[p] = NoRow \/ p \in removed \/ scan.mode = "full")
    \/ disk[p] # Absent /\ p \in waiting \cup unread \cup JudgedPaths \cup FoundPaths
    \/ disk[p] # Absent /\ scan.mode = "smart" /\ inventory[p].file = disk[p]
    \/ disk[p] # Absent /\ Spared(p)
Turn(p) ==
    /\ Running
    /\ RootOf[p] \notin scan.roots
    /\ stage = "listed" => RootOf[p] # root
Dealt(p) ==
    Turn(p) /\ p \notin touched =>
        IF RootOf[p] \in scan.unreconciled
        THEN Accounted(p)
        ELSE p \notin misjudged => TruthAbout(p) \/ Spared(p)

JobOK ==
    /\ stage # "reconcile" => scan.scope \subseteq Under(scan.unreconciled)
    /\ scan.mode = "custom" => scan.scope \subseteq Met(scan.walk, Roots)
SeenOK ==
    /\ \A v \in verdicts : VerdictRight(v)
    /\ \A p \in batch \ unread : ReadRight(p)
    /\ \A x \in found : ResultRight(x)
    /\ \A p \in scan.scope : WalkRight(p)
TruthOK ==
    /\ \A p \in Paths : RowRight(p)
    /\ \A p \in scan.scope : Dealt(p)
    /\ JobOK
    /\ SeenOK

Known == Inv /\ CandidateMatchesRow /\ TruthOK

(* Between scans the worker has seen nothing.                              *)
LEMMA NothingSeen ==
    ASSUME Inv, ~Running
    PROVE  /\ verdicts = {} /\ found = {} /\ removed = {} /\ listed = {}
           /\ waiting = {} /\ batch = {} /\ unread = {} /\ root = AllRoots
           /\ \A p \in Paths : RootOf[p] # root /\ ~Judged(p)
<1>1. /\ verdicts = {} /\ found = {} /\ removed = {} /\ listed = {}
      /\ waiting = {} /\ batch = {} /\ unread = {} /\ root = AllRoots
  BY DEF Inv, ScanTyped, locals, NoLocals
<1>. QED BY <1>1, RootsTyped DEF Judged

LEMMA Typing ==
    ASSUME Inv
    PROVE  /\ scan.scope \subseteq Paths
           /\ \A p \in Paths : /\ inventory[p].mel \in BOOLEAN
                               /\ candidates[p].active \in BOOLEAN
                               /\ candidates[p] \in Entry
                               /\ inventory[p] \in Row
           /\ \A v \in verdicts : v.path \in Paths /\ v.mel \in BOOLEAN
           /\ \A x \in found : x.path \in Paths /\ x.mel \in BOOLEAN /\ x.file \in Content
<1>1. scan.scope \subseteq Paths
  BY JobFields DEF Inv
<1>2. \A p \in Paths : inventory[p] \in Row /\ candidates[p] \in Entry
  BY DEF Inv, TablesOK, Entry
<1>3. \A p \in Paths : inventory[p].mel \in BOOLEAN /\ candidates[p].active \in BOOLEAN
  BY <1>2 DEF Row, Entry
<1>4. \A v \in verdicts : v.path \in Paths /\ v.mel \in BOOLEAN
  BY DEF Inv, ScanTyped, Verdict
<1>5. \A x \in found : x.path \in Paths /\ x.mel \in BOOLEAN /\ x.file \in Content
  BY DEF Inv, ScanTyped, Result
<1>. QED BY <1>1, <1>2, <1>3, <1>4, <1>5

(* The files: a write takes its path out of everything that is claimed of  *)
(* paths nobody touched, and a file that returns out of the rest.          *)
LEMMA WriteKnown ==
    ASSUME Known, NEW p \in Paths, NEW file, Write(p, file),
           UNCHANGED <<inventory, scan, stage, locals>>,
           disk' \in [Paths -> Content],
           \A q \in Paths \ {p} : candidates'[q] = candidates[q],
           candidates'[p] # candidates[p] => ~Running
    PROVE  TruthOK'
<1>1. /\ UNCHANGED <<root, listed, waiting, batch, unread, verdicts, found, removed>>
      /\ Running' = Running /\ JudgedPaths' = JudgedPaths /\ Unclear' = Unclear
  BY DEF locals, Running, JudgedPaths, Unclear
<1>2. /\ disk'[p] = file
      /\ \A q \in Paths \ {p} : disk'[q] = disk[q]
      /\ misjudged' = IF Returns(p, file) THEN misjudged \cup {p} ELSE misjudged
      /\ touched' = IF Running THEN touched \cup {p} ELSE touched
  BY DEF Write, Known, Inv, TablesOK
<1>3. ASSUME NEW q \in Paths PROVE RowRight(q)'
  <2>1. RowRight(q)
    BY DEF Known, TruthOK
  <2>2. CASE q # p
    BY <1>2, <2>1, <2>2 DEF RowRight, Judges
  <2>3. CASE q = p
    <3> SUFFICES ASSUME p \notin misjudged'
                 PROVE  /\ Judges(inventory[p].mel, inventory[p].file)
                        /\ ~(inventory[p].mel /\ inventory[p].file = file)
      BY <1>2, <2>3 DEF RowRight, Judges
    <3>1. p \notin misjudged /\ ~Returns(p, file)
      BY <1>2
    <3>2. Judges(inventory[p].mel, inventory[p].file)
      BY <2>1, <2>3, <3>1 DEF RowRight
    <3>3. inventory[p].file = file => file = Absent
      BY <3>1 DEF Returns
    <3>4. Absent.form # "mel"
      BY DEF Absent
    <3>. QED BY <3>2, <3>3, <3>4 DEF Judges
  <2>. QED BY <2>2, <2>3
<1>4. JobOK'
  BY DEF Known, TruthOK, JobOK, Met, Under
<1>5. CASE ~Running
  <2>1. \A q \in Paths : RootOf[q] # root
    BY <1>5, NothingSeen DEF Known
  <2>2. verdicts' = {} /\ found' = {} /\ removed' = {} /\ batch' = {}
    BY <1>1, <1>5, NothingSeen DEF Known
  <2>3. SeenOK'
    BY <1>1, <1>5, <2>1, <2>2, Typing DEF SeenOK, WalkRight, Known
  <2>4. \A q \in scan'.scope : Dealt(q)'
    BY <1>1, <1>5 DEF Dealt, Turn
  <2>. QED BY <1>3, <1>4, <2>3, <2>4 DEF TruthOK
<1>6. CASE Running
  <2>1. touched' = touched \cup {p} /\ misjudged \subseteq misjudged'
    BY <1>2, <1>6
  <2>2. candidates'[p] = candidates[p]
    BY <1>6
  <2>3. ASSUME NEW v \in verdicts PROVE VerdictRight(v)'
    <3>1. VerdictRight(v) /\ v.path \in Paths
      BY Typing DEF Known, TruthOK, SeenOK
    <3>. QED BY <1>2, <2>1, <3>1 DEF VerdictRight, Judges
  <2>4. ASSUME NEW x \in found PROVE ResultRight(x)'
    <3>1. ResultRight(x) /\ x.path \in Paths
      BY Typing DEF Known, TruthOK, SeenOK
    <3>. QED BY <1>1, <1>2, <2>1, <3>1 DEF ResultRight, Judges, Spared
  <2>6. ASSUME NEW q \in batch \ unread PROVE ReadRight(q)'
    <3>1. ReadRight(q) /\ q \in Paths
      BY DEF Known, Inv, ScanTyped, TruthOK, SeenOK
    <3>. QED BY <1>1, <1>2, <2>1, <3>1 DEF ReadRight
  <2>5. ASSUME NEW q \in scan.scope PROVE WalkRight(q)' /\ Dealt(q)'
    <3>1. q \in Paths /\ WalkRight(q) /\ Dealt(q)
      BY Typing DEF Known, TruthOK, SeenOK
    <3>2. CASE q = p
      BY <2>1, <3>2 DEF WalkRight, Dealt
    <3>3. CASE q # p
      <4>1. disk'[q] = disk[q] /\ candidates'[q] = candidates[q]
        BY <1>2, <3>1, <3>3
      <4>2. WalkRight(q)'
        BY <1>1, <2>1, <3>1, <4>1 DEF WalkRight
      <4>3. /\ Turn(q)' = Turn(q) /\ Accounted(q)' = Accounted(q)
            /\ TruthAbout(q)' = TruthAbout(q) /\ Spared(q)' = Spared(q)
        BY <1>1, <4>1 DEF Turn, Accounted, FoundPaths, TruthAbout, Spared
      <4>4. Dealt(q)'
        BY <2>1, <3>1, <4>3 DEF Dealt
      <4>. QED BY <4>2, <4>4
    <3>. QED BY <3>2, <3>3
  <2>. QED BY <1>1, <1>3, <1>4, <2>3, <2>4, <2>5, <2>6 DEF TruthOK, SeenOK
<1>. QED BY <1>5, <1>6

LEMMA FilesKnown ==
    ASSUME Known, NEW p \in Paths, Import(p) \/ Delete(p) \/ Recover(p) \/ Convert(p), TablesOK'
    PROVE  TruthOK'
<1>1. disk' \in [Paths -> Content]
  BY DEF TablesOK
<1>2. PICK file : Write(p, file)
  BY DEF Import, Delete, Recover, Convert
<1>3. UNCHANGED <<inventory, scan, stage, locals>>
  BY DEF Import, Delete, Recover, Convert, tables
<1>4. \A q \in Paths \ {p} : candidates'[q] = candidates[q]
  BY DEF Import, Delete, Recover, Convert, tables, Known, Inv, TablesOK
<1>5. candidates'[p] # candidates[p] => ~Running
  BY DEF Import, Delete, Recover, Convert, tables
<1>. QED BY <1>1, <1>2, <1>3, <1>4, <1>5, WriteKnown

(* Steps of the requests: files, tables and scan stay as they are.         *)
LEMMA RestKnown ==
    ASSUME Known, UNCHANGED <<disk, tables, changes, locals, scan, stage>>
    PROVE  TruthOK'
<1>1. UNCHANGED <<inventory, candidates, touched, misjudged, root, listed, waiting, batch, unread,
                  verdicts, found, removed>>
  BY DEF tables, changes, locals
<1>2. Running' = Running /\ \A p : Spared(p)' = Spared(p)
  BY DEF Running, Spared, Unclear
<1>3. \A p : RowRight(p)' = RowRight(p)
  BY <1>1 DEF RowRight
<1>4. \A p : Dealt(p)' = Dealt(p)
  BY <1>1, <1>2 DEF Dealt, Turn, Accounted, JudgedPaths, FoundPaths, TruthAbout
<1>5. JobOK' = JobOK
  BY DEF JobOK, Under, Met
<1>6. SeenOK' = SeenOK
  BY <1>1, <1>2 DEF SeenOK, VerdictRight, ReadRight, JudgedPaths, ResultRight, WalkRight
<1>. QED BY <1>1, <1>3, <1>4, <1>5, <1>6 DEF TruthOK, Known

(* A scan that does not run yet, or no more, claims nothing of its paths.  *)
LEMMA IdleKnown ==
    ASSUME Known, UNCHANGED <<disk, tables>>, misjudged' = misjudged, ~Running', JobOK',
           locals' = NoLocals, scan'.scope \subseteq Paths
    PROVE  TruthOK'
<1>1. UNCHANGED <<inventory, candidates>>
  BY DEF tables
<1>2. verdicts' = {} /\ found' = {} /\ removed' = {} /\ batch' = {} /\ root' = AllRoots
  BY DEF locals, NoLocals
<1>3. \A p \in Paths : RowRight(p)'
  BY <1>1 DEF RowRight, Known, TruthOK
<1>4. \A p \in scan'.scope : Dealt(p)'
  BY DEF Dealt, Turn
<1>5. \A p \in Paths : RootOf[p] # root'
  BY <1>2, RootsTyped
<1>6. SeenOK'
  BY <1>2, <1>5 DEF SeenOK, WalkRight
<1>. QED BY <1>3, <1>4, <1>6 DEF TruthOK

LEMMA CreatedKnown ==
    ASSUME Known, Created, UNCHANGED <<disk, tables, changes>>
    PROVE  TruthOK'
<1>1. PICK mode \in ScanMode, walk \in CustomWalks \cup {RootWalk}, scope \in SUBSET Paths,
           roots \in SUBSET Roots :
        /\ scan' = ScanOf(mode, walk, scope, roots)
        /\ scope \subseteq Under(roots)
        /\ mode = "custom" => scope = Met(walk, roots)
  BY DEF Created
<1>2. /\ scan'.scope = scope /\ scan'.unreconciled = roots /\ scan'.walk = walk
      /\ scan'.mode = mode
  BY <1>1 DEF ScanOf
<1>3. Met(walk, roots) \subseteq Met(walk, Roots)
  BY <1>1 DEF Met, Under
<1>4. Under(roots)' = Under(roots) /\ Met(walk, Roots)' = Met(walk, Roots)
  BY DEF Under, Met
<1>5. JobOK'
  BY <1>1, <1>2, <1>3, <1>4 DEF JobOK, Under, Met
<1>6. ~Running /\ ~Running' /\ locals' = locals
  BY DEF Created, Running
<1>7. locals' = NoLocals
  BY <1>6 DEF Known, Inv, ScanTyped
<1>. QED BY <1>2, <1>5, <1>6, <1>7, IdleKnown DEF changes

LEMMA DropKnown ==
    ASSUME Known, DropScan, UNCHANGED <<disk, tables>>
    PROVE  TruthOK'
<1>1. scan' = NoScan /\ ~Running' /\ misjudged' = misjudged /\ locals' = NoLocals
  BY DEF DropScan, Running, locals, NoLocals
<1>2. scan'.scope = {} /\ scan'.mode = "none"
  BY <1>1 DEF NoScan
<1>3. JobOK'
  BY <1>2 DEF JobOK
<1>. QED BY <1>1, <1>2, <1>3, IdleKnown

(* When the scan begins, no root is listed and nothing is touched.         *)
LEMMA BeginKnown ==
    ASSUME Known, BeginScan
    PROVE  TruthOK'
<1>1. /\ UNCHANGED <<disk, inventory, candidates, scan, locals, misjudged>>
      /\ stage = "queued" /\ stage' = "root"
  BY DEF BeginScan, tables
<1>2. ~Running /\ UNCHANGED <<root, listed, waiting, batch, unread, verdicts, found, removed>>
  BY <1>1 DEF Running, locals
<1>3. verdicts' = {} /\ found' = {} /\ removed' = {} /\ batch' = {}
  BY <1>2, NothingSeen DEF Known
<1>4. scan'.scope \subseteq Paths /\ \A p \in Paths : RootOf[p] # root'
  BY <1>1, <1>2, NothingSeen, Typing DEF Known
<1>5. \A p \in scan'.scope : RootOf[p] \in scan'.roots
  BY <1>1 DEF Known, Inv, ScanOK, Under
<1>6. \A p \in Paths : RowRight(p)'
  BY <1>1 DEF RowRight, Known, TruthOK
<1>7. JobOK'
  BY <1>1 DEF Known, TruthOK, JobOK, Under, Met
<1>8. SeenOK'
  BY <1>3, <1>4, <1>5 DEF SeenOK, WalkRight
<1>9. \A p \in scan'.scope : Dealt(p)'
  BY <1>5 DEF Dealt, Turn
<1>. QED BY <1>6, <1>7, <1>8, <1>9 DEF TruthOK

(* The steps of a running scan before its tail leave files and tables.     *)
LEMMA SightKnown ==
    ASSUME Known, UNCHANGED <<disk, tables, changes>>, Running, stage' # "none",
           scan'.scope = scan.scope, scan'.unreconciled = scan.unreconciled,
           scan'.walk = scan.walk, scan'.mode = scan.mode, stage # "reconcile",
           SeenOK',
           \A p \in scan.scope : p \notin touched /\ Turn(p)' => Accounted(p)'
    PROVE  TruthOK'
<1>1. UNCHANGED <<inventory, candidates, touched, misjudged>>
  BY DEF tables, changes
<1>2. \A p \in Paths : RowRight(p)'
  BY <1>1 DEF RowRight, Known, TruthOK
<1>3. JobOK'
  BY DEF Known, TruthOK, JobOK, Under, Met
<1>4. ASSUME NEW p \in scan.scope PROVE Dealt(p)'
  <2>1. RootOf[p] \in scan'.unreconciled
    BY DEF Known, TruthOK, JobOK, Under
  <2>. QED BY <1>1, <2>1 DEF Dealt
<1>. QED BY <1>2, <1>3, <1>4 DEF TruthOK

(* What was accounted for stays so.                                        *)
LEMMA AccountKept ==
    ASSUME Known, Running, NEW p \in scan.scope, p \notin touched, Turn(p),
           stage # "reconcile", UNCHANGED <<disk, tables>>, scan'.mode = scan.mode,
           removed \subseteq removed',
           p \in waiting \cup unread \cup JudgedPaths \cup FoundPaths
              => p \in waiting' \cup unread' \cup JudgedPaths' \cup FoundPaths'
    PROVE  Accounted(p)'
<1>1. Accounted(p)
  BY DEF Known, TruthOK, Dealt, JobOK, Under
<1>. QED BY <1>1 DEF Accounted, tables, Spared, Unclear

(* The walk over a root finds the files that are there.                    *)
LEMMA ListKnown ==
    ASSUME Known, ListRoot
    PROVE  TruthOK'
<1>1. PICK r \in scan.roots :
        /\ scan.mode = "file" => \A p \in scan.scope \cap Under({r}) : disk[p] # Absent
        /\ scan' = [scan EXCEPT !.roots = @ \ {r}]
        /\ root' = r
        /\ listed' = {p \in scan.scope \cap Under({r}) : disk[p] # Absent}
  BY DEF ListRoot
<1>2. /\ stage = "root" /\ stage' = "listed" /\ Running /\ Running'
      /\ UNCHANGED <<disk, tables, inventory, candidates, changes, touched, misjudged, waiting,
                     batch, unread, verdicts, found, removed>>
  BY DEF ListRoot, Running, tables, changes
<1>3. scan \in ScanJob
  BY <1>2, JobFields DEF Known, Inv
<1>4. /\ scan'.scope = scan.scope /\ scan'.unreconciled = scan.unreconciled
      /\ scan'.walk = scan.walk /\ scan'.mode = scan.mode /\ scan'.roots = scan.roots \ {r}
  BY <1>1, <1>3 DEF ScanJob
<1>5. \A p \in scan.scope : p \in Under({r}) <=> RootOf[p] = r
  BY Typing DEF Known, Under
<1>6. ASSUME NEW p \in scan.scope PROVE WalkRight(p)'
  <2>1. WalkRight(p)
    BY DEF Known, TruthOK, SeenOK
  <2>2. RootOf[p] = r => (p \in listed' <=> disk[p] # Absent)
    BY <1>1, <1>5
  <2>3. CASE RootOf[p] = r
    BY <1>1, <1>2, <1>4, <1>5, <2>1, <2>2, <2>3 DEF WalkRight
  <2>4. CASE RootOf[p] # r
    BY <1>1, <1>2, <1>4, <2>1, <2>4 DEF WalkRight
  <2>. QED BY <2>3, <2>4
<1>9. verdicts' = {} /\ batch' = {}
  BY <1>2 DEF Known, Inv, ScanOK
<1>10. \A x \in found' : ResultRight(x)'
  BY <1>2 DEF ResultRight, Spared, Unclear, SeenOK, Known, TruthOK
<1>7. SeenOK'
  BY <1>4, <1>6, <1>9, <1>10 DEF SeenOK
<1>8. ASSUME NEW p \in scan.scope, p \notin touched, Turn(p)' PROVE Accounted(p)'
  <2>1. Turn(p)
    BY <1>1, <1>2, <1>4, <1>8 DEF Turn
  <2>2. JudgedPaths' = JudgedPaths /\ FoundPaths' = FoundPaths
    BY <1>2 DEF JudgedPaths, FoundPaths
  <2>. QED BY <1>2, <1>4, <1>8, <2>1, <2>2, AccountKept
<1>. QED BY <1>2, <1>4, <1>7, <1>8, SightKnown

(* The paths of the root that was listed are handed to dovi_convert, or    *)
(* need not be, or their rows go.                                          *)
LEMMA CompareKnown ==
    ASSUME Known, stage = "listed", NEW todo, TakeBatch(todo), scan' = scan,
           UNCHANGED <<disk, tables, changes, root, listed, verdicts, found>>,
           removed \subseteq removed',
           \A p \in scan.scope \ touched : p \in removed' \ removed => disk[p] = Absent,
           \A p \in scan.scope \ touched :
              RootOf[p] = root =>
                \/ /\ disk[p] = Absent
                   /\ inventory[p] = NoRow \/ p \in removed' \/ scan.mode = "full"
                \/ disk[p] # Absent /\ p \in todo
                \/ disk[p] # Absent /\ scan.mode = "smart" /\ inventory[p].file = disk[p]
    PROVE  TruthOK'
<1>1. /\ UNCHANGED <<inventory, candidates, touched, misjudged>>
      /\ Running /\ waiting = {} /\ unread = {} /\ verdicts' = {}
  BY DEF tables, changes, Running, Known, Inv, ScanOK, ScanTyped
<1>2. /\ stage' \in {"tool", "root", "reconcile"} /\ Running'
      /\ todo \subseteq waiting' \cup unread' /\ batch' \ unread' = {}
  BY <1>1, BatchTaken DEF Running
<1>3. ASSUME NEW p \in scan.scope PROVE WalkRight(p)'
  <2>1. WalkRight(p)
    BY DEF Known, TruthOK, SeenOK
  <2>. QED BY <1>1, <2>1 DEF WalkRight
<1>7. \A x \in found' : ResultRight(x)'
  BY <1>1 DEF ResultRight, Spared, Unclear, SeenOK, Known, TruthOK
<1>4. SeenOK'
  BY <1>1, <1>2, <1>3, <1>7 DEF SeenOK
<1>5. JudgedPaths' = JudgedPaths /\ FoundPaths' = FoundPaths
  BY DEF JudgedPaths, FoundPaths
<1>6. ASSUME NEW p \in scan.scope, p \notin touched, Turn(p)' PROVE Accounted(p)'
  <2>1. CASE RootOf[p] = root
    BY <1>1, <1>2, <1>6, <2>1 DEF Accounted
  <2>2. CASE RootOf[p] # root
    <3>1. Turn(p)
      BY <1>1, <1>6, <2>2 DEF Turn
    <3>. QED BY <1>1, <1>5, <1>6, <3>1, AccountKept
  <2>. QED BY <2>1, <2>2
<1>. QED BY <1>1, <1>2, <1>4, <1>6, SightKnown

LEMMA ListedRight ==
    ASSUME Known, NEW p \in scan.scope \ touched, RootOf[p] = root
    PROVE  p \in listed <=> disk[p] # Absent
BY DEF Known, TruthOK, SeenOK, WalkRight

LEMMA SmartKnown ==
    ASSUME Known, CompareSmart
    PROVE  TruthOK'
<1>1. /\ stage = "listed" /\ scan' = scan /\ TakeBatch(listed \ Unchanged)
      /\ UNCHANGED <<disk, tables, changes, root, listed, verdicts, found>>
      /\ removed' = removed \cup Missing /\ scan.mode = "smart"
  BY DEF CompareSmart
<1>2. \A p \in Paths : p \in Under({root}) <=> RootOf[p] = root
  BY DEF Under
<1>3. ASSUME NEW p \in scan.scope \ touched, p \in removed' \ removed PROVE disk[p] = Absent
  <2>1. p \in Missing
    BY <1>1, <1>3
  <2>2. p \in Under({root}) \ listed
    BY <2>1 DEF Missing
  <2>3. RootOf[p] = root
    BY <1>2, <2>2, RootsTyped
  <2>. QED BY <2>2, <2>3, ListedRight
<1>4. ASSUME NEW p \in scan.scope \ touched, RootOf[p] = root
      PROVE  \/ /\ disk[p] = Absent
                /\ inventory[p] = NoRow \/ p \in removed' \/ scan.mode = "full"
             \/ disk[p] # Absent /\ p \in listed \ Unchanged
             \/ disk[p] # Absent /\ scan.mode = "smart" /\ inventory[p].file = disk[p]
  <2>1. p \in listed <=> disk[p] # Absent
    BY <1>4, ListedRight
  <2>2. p \in Under({root})
    BY <1>2, <1>4, Typing DEF Known
  <2>3. CASE disk[p] = Absent
    <3>1. inventory[p] # NoRow => p \in Missing
      BY <2>1, <2>2, <2>3 DEF Missing
    <3>. QED BY <1>1, <2>3, <3>1
  <2>4. CASE disk[p] # Absent
    <3>1. p \in Unchanged => inventory[p].file = disk[p]
      BY DEF Unchanged
    <3>. QED BY <1>1, <2>1, <2>4, <3>1
  <2>. QED BY <2>3, <2>4
<1>5. removed \subseteq removed'
  BY <1>1
<1>. QED BY <1>1, <1>3, <1>4, <1>5, CompareKnown

(* A path of a custom scan that the walk could have met is in the scope    *)
(* that path_in_scan_scope computes.                                       *)
LEMMA CustomScope ==
    ASSUME Known, Running, scan.mode = "custom", NEW p \in scan.scope
    PROVE  PathInScanScope(PartsOf[p], scan.walk.target, scan.walk.recursive, scan.walk.depth)
<1>1. p \in Met(scan.walk, Roots) /\ p \in Paths
  BY Typing DEF Known, TruthOK, JobOK
<1>2. Walked(PartsOf[p], scan.walk.target, scan.walk.recursive, scan.walk.depth)
  BY <1>1 DEF Met
<1>3. scan.walk \in [target : Seq(STRING), recursive : BOOLEAN, depth : 1 .. 20]
  <2>1. RootWalk \in [target : Seq(STRING), recursive : BOOLEAN, depth : 1 .. 20]
    BY PathsAssumption DEF RootWalk
  <2>. QED BY <2>1, JobFields, PathsAssumption DEF Known, Inv
<1>4. /\ PartsOf[p] \in Seq(STRING) /\ scan.walk.target \in Seq(STRING)
      /\ scan.walk.recursive \in BOOLEAN /\ scan.walk.depth \in Nat
  BY <1>1, <1>3, PathsAssumption
<1>. QED BY <1>2, <1>4, WalkMatchesScope

LEMMA OtherKnown ==
    ASSUME Known, CompareNothing
    PROVE  TruthOK'
<1>1. /\ stage = "listed" /\ scan' = scan /\ TakeBatch(scan.scope \cap Under({root}))
      /\ UNCHANGED <<disk, tables, changes, root, listed, verdicts, found>>
      /\ removed' = IF scan.mode = "custom" THEN removed \cup MissingInScope ELSE removed
      /\ scan.mode # "smart" /\ Running
  BY DEF CompareNothing, Running
<1>2. \A p \in Paths : p \in Under({root}) <=> RootOf[p] = root
  BY DEF Under
<1>3. ASSUME NEW p \in scan.scope \ touched, p \in removed' \ removed PROVE disk[p] = Absent
  <2>1. p \in MissingInScope
    BY <1>1, <1>3
  <2>2. p \in Under({root}) \ listed
    BY <2>1 DEF MissingInScope
  <2>3. RootOf[p] = root
    BY <1>2, <2>2, RootsTyped
  <2>. QED BY <2>2, <2>3, ListedRight
<1>4. ASSUME NEW p \in scan.scope \ touched, RootOf[p] = root
      PROVE  \/ /\ disk[p] = Absent
                /\ inventory[p] = NoRow \/ p \in removed' \/ scan.mode = "full"
             \/ disk[p] # Absent /\ p \in scan.scope \cap Under({root})
  <2>1. p \in listed <=> disk[p] # Absent
    BY <1>4, ListedRight
  <2>2. p \in Under({root})
    BY <1>2, <1>4, Typing DEF Known
  <2>3. CASE disk[p] = Absent
    <3>1. scan.mode \in {"full", "custom", "file"}
      BY <1>1, JobFields DEF Known, Inv, ScanMode, ScanJob
    <3>2. scan.mode # "file"
      <4>1. RootOf[p] \notin scan.roots
        BY <1>4 DEF Known, Inv, ScanOK
      <4>2. WalkRight(p)
        BY DEF Known, TruthOK, SeenOK
      <4>. QED BY <1>1, <2>3, <4>1, <4>2 DEF WalkRight
    <3>3. scan.mode = "custom" /\ inventory[p] # NoRow => p \in MissingInScope
      BY <1>1, <2>1, <2>2, <2>3, CustomScope DEF MissingInScope
    <3>. QED BY <1>1, <2>3, <3>1, <3>2, <3>3
  <2>4. CASE disk[p] # Absent
    BY <2>2, <2>4
  <2>. QED BY <2>3, <2>4
<1>5. removed \subseteq removed'
  BY <1>1
<1>. QED BY <1>1, <1>3, <1>4, <1>5, CompareKnown

(* dovi_convert says what the file is.                                     *)
LEMMA ToolKnown ==
    ASSUME Known, NEW p \in Paths, ToolReads(p)
    PROVE  TruthOK'
<1>1. /\ p \in unread /\ unread' = unread \ {p} /\ scan' = scan
      /\ UNCHANGED <<disk, tables, changes, stage, root, listed, waiting, batch, found, removed>>
      /\ verdicts' = IF disk[p] = Absent THEN verdicts
                     ELSE verdicts \cup {[path |-> p, mel |-> disk[p].form = "mel"]}
  BY DEF ToolReads
<1>2. stage = "tool" /\ Running /\ UNCHANGED <<touched, misjudged>>
  BY <1>1 DEF Known, Inv, ScanTyped, ScanOK, Running, changes
<1>3. ASSUME NEW v \in verdicts' PROVE VerdictRight(v)'
  <2>1. CASE v \in verdicts
    BY <1>1, <1>2, <2>1 DEF VerdictRight, Known, TruthOK, SeenOK
  <2>2. CASE v \notin verdicts
    <3>1. v = [path |-> p, mel |-> disk[p].form = "mel"] /\ disk[p] # Absent
      BY <1>1, <2>2
    <3>2. v.path = p /\ (v.mel <=> disk[p].form = "mel")
      BY <3>1
    <3>. QED BY <1>1, <3>1, <3>2 DEF VerdictRight, Judges
  <2>. QED BY <2>1, <2>2
<1>4. ASSUME NEW q \in scan.scope PROVE WalkRight(q)'
  <2>1. WalkRight(q) /\ Running'
    BY <1>1, <1>2 DEF Known, TruthOK, SeenOK, Running
  <2>. QED BY <1>1, <1>2, <2>1 DEF WalkRight
<1>5. \A x \in found' : ResultRight(x)'
  BY <1>1, <1>2 DEF ResultRight, Spared, Unclear, Known, TruthOK, SeenOK
<1>8. JudgedPaths \subseteq JudgedPaths' /\ (disk[p] # Absent => p \in JudgedPaths')
  <2>. DEFINE v == [path |-> p, mel |-> disk[p].form = "mel"]
  <2>1. disk[p] # Absent => v \in verdicts'
    BY <1>1
  <2>2. v.path = p /\ verdicts \subseteq verdicts'
    BY <1>1
  <2>. HIDE DEF v
  <2>. QED BY <2>1, <2>2 DEF JudgedPaths
<1>9. ASSUME NEW q \in batch' \ unread' PROVE ReadRight(q)'
  BY <1>1, <1>2, <1>8 DEF ReadRight, Known, TruthOK, SeenOK
<1>6. SeenOK'
  BY <1>1, <1>3, <1>4, <1>5, <1>9 DEF SeenOK
<1>7. ASSUME NEW q \in scan.scope, q \notin touched, Turn(q)' PROVE Accounted(q)'
  <2>1. Turn(q)
    BY <1>1, <1>2, <1>7 DEF Turn
  <2>2. FoundPaths' = FoundPaths /\ Spared(q)' = Spared(q)
    BY <1>1 DEF FoundPaths, Spared, Unclear
  <2>4. Accounted(q)
    BY <1>2, <1>7, <2>1 DEF Known, TruthOK, Dealt, JobOK, Under
  <2>5. UNCHANGED <<inventory, disk, removed, waiting>>
    BY <1>1 DEF tables
  <2>. QED BY <1>1, <1>8, <2>2, <2>4, <2>5 DEF Accounted
<1>. QED BY <1>1, <1>2, <1>6, <1>7, SightKnown

(* The row of a file is taken for that file, unless it is no candidate and *)
(* has a name that fits another one.                                       *)
LEMMA OwnRow ==
    ASSUME RowsUnderstood, NEW v \in verdicts, v.path \in Pool, v.path \in Paths,
           v.path \notin Unclear \/ v.mel
    PROVE  v.path \in TakenFor(v)
<1>1. v.path \in ReadsAs[v.path] \cap Pool
  BY PathsAssumption
<1>2. CASE v.path \notin Unclear
  <2>1. ReadsAs[v.path] = {v.path}
    BY <1>2 DEF Unclear
  <2>. QED BY <1>1, <2>1 DEF TakenFor
<1>3. CASE v.mel
  <2>1. PICK q \in TakenFor(v) : TRUE
    BY <1>3 DEF RowsUnderstood
  <2>2. ReadsAs[v.path] \cap Pool = {q} /\ q \in Pool
    BY <2>1 DEF TakenFor
  <2>3. q = v.path
    BY <1>1, <2>2
  <2>. QED BY <2>1, <2>3
<1>. QED BY <1>2, <1>3

(* A file of the pool that nobody touched has been judged.                 *)
LEMMA PoolJudged ==
    ASSUME Known, stage = "tool", unread = {}, NEW q \in Pool, q \notin touched,
           ~Spared(q), disk[q] # Absent
    PROVE  q \in JudgedPaths
<1>1. CASE scan.mode = "smart"
  <2>1. ReadRight(q)
    BY <1>1 DEF Pool, Known, TruthOK, SeenOK
  <2>. QED BY <2>1 DEF ReadRight
<1>2. CASE scan.mode # "smart"
  <2>1. q \in scan.scope \cap Under({root}) /\ waiting = {}
    BY <1>2 DEF Pool, Known, Inv, ScanOK
  <2>2. root \in Roots
    BY <2>1, RootsTyped DEF Known, Inv, ScanTyped
  <2>3. RootOf[q] = root
    BY <2>1, <2>2, UnderOne
  <2>4. Turn(q)
    BY <2>3 DEF Turn, Running, Known, Inv, ScanOK
  <2>5. Accounted(q)
    BY <2>1, <2>4 DEF Known, TruthOK, Dealt, JobOK, Under
  <2>6. q \notin FoundPaths
    BY DEF FoundPaths, Known, Inv, ScanOK
  <2>. QED BY <1>2, <2>1, <2>5, <2>6 DEF Accounted
<1>. QED BY <1>1, <1>2

(* The batch becomes results.                                              *)
LEMMA ParseKnown ==
    ASSUME Known, ParseBatch
    PROVE  TruthOK'
<1>1. /\ stage = "tool" /\ unread = {} /\ scan' = scan /\ TakeBatch(waiting)
      /\ UNCHANGED <<disk, tables, changes, root, listed, removed>>
      /\ RowsUnderstood /\ verdicts' = {}
      /\ found' = found \cup {result \in Result :
                                 /\ result.file = disk[result.path]
                                 /\ \E v \in verdicts :
                                       result.path \in TakenFor(v) /\ result.mel = v.mel}
  BY DEF ParseBatch
<1>2. Running /\ UNCHANGED <<touched, misjudged>>
  BY <1>1 DEF Running, changes
<1>3. /\ stage' \in {"tool", "root", "reconcile"} /\ Running'
      /\ waiting \subseteq waiting' \cup unread' /\ batch' \ unread' = {}
  BY <1>1, BatchTaken DEF Running
<1>8. \A p : Spared(p)' = Spared(p)
  BY <1>1 DEF Spared, Unclear
<1>4. ASSUME NEW x \in found' PROVE ResultRight(x)'
  <2>1. CASE x \in found
    BY <1>1, <1>2, <1>8, <2>1 DEF ResultRight, Known, TruthOK, SeenOK
  <2>2. CASE x \notin found
    <3>4. x.file = disk[x.path]
      BY <1>1, <2>2
    <3>1. PICK w \in verdicts : x.path \in TakenFor(w) /\ x.mel = w.mel
      BY <1>1, <2>2
    <3>2. x.path \in Pool /\ x.file # Absent
      BY <1>1, <3>1, <3>4 DEF TakenFor, RowsUnderstood
    <3>3. ASSUME x.path \notin touched, ~Spared(x.path) PROVE Judges(x.mel, x.file)
      <4>1. x.path \in JudgedPaths
        BY <1>1, <3>2, <3>3, <3>4, PoolJudged
      <4>2. PICK v \in verdicts : v.path = x.path
        BY <4>1 DEF JudgedPaths
      <4>3. v.path \in Paths /\ VerdictRight(v)
        BY Typing DEF Known, TruthOK, SeenOK
      <4>4. Judges(v.mel, disk[v.path])
        BY <3>3, <4>2, <4>3 DEF VerdictRight
      <4>5. v.path \notin Unclear \/ v.mel
        BY <3>3, <4>2, <4>4 DEF Spared, Judges
      <4>6. v.path \in TakenFor(v)
        BY <1>1, <3>2, <4>2, <4>3, <4>5, OwnRow
      <4>7. w = v
        BY <1>1, <3>1, <4>2, <4>6 DEF RowsUnderstood
      <4>. QED BY <3>1, <3>4, <4>2, <4>4, <4>7
    <3>. QED BY <1>1, <1>2, <1>8, <3>2, <3>3, <3>4 DEF ResultRight, Judges
  <2>. QED BY <2>1, <2>2
<1>5. ASSUME NEW q \in scan.scope PROVE WalkRight(q)'
  <2>1. WalkRight(q)
    BY DEF Known, TruthOK, SeenOK
  <2>. QED BY <1>1, <1>2, <2>1 DEF WalkRight
<1>6. SeenOK'
  BY <1>1, <1>3, <1>4, <1>5 DEF SeenOK
<1>7. ASSUME NEW q \in scan.scope, q \notin touched, Turn(q)' PROVE Accounted(q)'
  <2>1. Turn(q)
    BY <1>1, <1>2, <1>7 DEF Turn
  <2>2. Accounted(q)
    BY <1>1, <1>2, <1>7, <2>1 DEF Known, TruthOK, Dealt, JobOK, Under
  <2>3. FoundPaths \subseteq FoundPaths'
    BY <1>1 DEF FoundPaths
  <2>4. ASSUME q \in JudgedPaths, disk[q] # Absent, ~Spared(q) PROVE q \in FoundPaths'
    <3>1. PICK v \in verdicts : v.path = q
      BY <2>4 DEF JudgedPaths
    <3>2. q \in batch /\ q \in Under({root}) /\ q \in Paths
      BY <2>4 DEF Known, Inv, ScanOK, Under
    <3>3. q \in Pool
      <4>1. root \in Roots
        BY <3>2, RootsTyped DEF Known, Inv, ScanTyped, Under
      <4>2. RootOf[q] = root
        BY <3>2, <4>1, UnderOne
      <4>. QED BY <1>7, <2>4, <3>2, <4>2, ListedRight DEF Pool
    <3>4. Judges(v.mel, disk[q]) /\ v.mel \in BOOLEAN
      BY <1>7, <3>1, Typing DEF VerdictRight, Known, TruthOK, SeenOK
    <3>5. q \in TakenFor(v)
      <4>1. q \notin Unclear \/ v.mel
        BY <2>4, <3>4 DEF Spared, Judges
      <4>. QED BY <1>1, <3>1, <3>2, <3>3, <4>1, OwnRow
    <3>6. disk[q] \in Content
      BY <3>2 DEF Known, Inv, TablesOK
    <3>. DEFINE x == [path |-> q, file |-> disk[q], mel |-> v.mel]
    <3>7. x \in Result /\ x.path = q /\ x.file = disk[x.path] /\ x.mel = v.mel
      BY <3>2, <3>4, <3>6 DEF Result
    <3>. HIDE DEF x
    <3>8. x \in found'
      BY <1>1, <3>1, <3>5, <3>7
    <3>. QED BY <3>7, <3>8 DEF FoundPaths
  <2>5. UNCHANGED <<inventory, disk, removed>>
    BY <1>1 DEF tables
  <2>. QED BY <1>1, <1>3, <1>8, <2>2, <2>3, <2>4, <2>5 DEF Accounted
<1>. QED BY <1>1, <1>2, <1>3, <1>6, <1>7, SightKnown

(* A row of the file that is there tells all of the truth: the candidate   *)
(* follows from the row.                                                   *)
LEMMA RowTells ==
    ASSUME NEW p \in Paths, Inv', CandidateMatchesRow', RowRight(p)', p \notin misjudged',
           inventory'[p].file = disk'[p]
    PROVE  TruthAbout(p)'
<1>1. candidates'[p].active \in BOOLEAN /\ inventory'[p].mel \in BOOLEAN
  <2>1. candidates'[p] \in Entry /\ inventory'[p] \in Row
    BY DEF Inv, TablesOK, Entry
  <2>. QED BY <2>1 DEF Entry, Row
<1>2. ASSUME candidates'[p].active
      PROVE  inventory'[p].file = candidates'[p].file /\ inventory'[p].mel = TRUE
  <2>1. inventory'[p] = [file |-> candidates'[p].file, mel |-> TRUE]
    BY <1>2 DEF CandidateMatchesRow
  <2>. QED BY <2>1
<1>3. /\ inventory'[p].mel <=> disk'[p].form = "mel"
      /\ inventory'[p].mel => candidates'[p].active
  BY DEF RowRight, Judges
<1>. QED BY <1>1, <1>2, <1>3 DEF TruthAbout

(* The transaction of a root writes what was found and removes what was    *)
(* not.                                                                    *)
LEMMA ReconcileKnown ==
    ASSUME Known, Inv', CandidateMatchesRow', NEW r \in Roots, Reconcile(r)
    PROVE  TruthOK'
<1>1. /\ stage = "reconcile" /\ ReconcileScan(r) /\ r \in scan.unreconciled
      /\ scan' = [scan EXCEPT !.unreconciled = @ \ {r}]
      /\ misjudged' = {p \in Paths : \/ p \in misjudged /\ ResultFor(r, p) = {}
                                     \/ \E x \in ResultFor(r, p) : Wrong(x)}
      /\ UNCHANGED <<disk, stage, locals, touched>>
  BY DEF Reconcile
<1>2. /\ UNCHANGED <<root, listed, waiting, batch, unread, verdicts, found, removed>>
      /\ Running /\ Running' /\ \A p : Spared(p)' = Spared(p)
  BY <1>1 DEF locals, Running, Spared, Unclear
<1>3. scan \in ScanJob
  BY <1>2, JobFields DEF Known, Inv
<1>4. /\ scan'.scope = scan.scope /\ scan'.roots = scan.roots /\ scan'.mode = scan.mode
      /\ scan'.walk = scan.walk /\ scan'.unreconciled = scan.unreconciled \ {r}
  BY <1>1, <1>3 DEF ScanJob
<1>5. /\ waiting = {} /\ batch = {} /\ unread = {} /\ JudgedPaths = {} /\ verdicts = {}
  BY <1>1 DEF Known, Inv, ScanTyped, ScanOK, JudgedPaths
<1>6. \A p \in Paths : p \in Under({r}) <=> RootOf[p] = r
  BY DEF Under
<1>7. ASSUME NEW p \in Paths
      PROVE  \/ \E x \in found :
                   /\ x.path = p /\ RootOf[p] = r
                   /\ inventory'[p] = [file |-> x.file, mel |-> x.mel]
                   /\ candidates'[p] = IF x.mel THEN [active |-> TRUE, file |-> x.file]
                                       ELSE [candidates[p] EXCEPT !.active = FALSE]
             \/ /\ ResultFor(r, p) = {} /\ p \in Gone(r)
                /\ inventory'[p] = NoRow
                /\ candidates'[p] = [candidates[p] EXCEPT !.active = FALSE]
             \/ /\ ResultFor(r, p) = {} /\ p \notin Gone(r)
                /\ inventory'[p] = inventory[p]
                /\ \/ candidates'[p] = candidates[p]
                   \/ /\ scan.mode = "full" /\ RootOf[p] = r
                      /\ candidates'[p] = [candidates[p] EXCEPT !.active = FALSE]
  BY <1>1, RowStep DEF Known, Inv
<1>8. ASSUME NEW p \in Paths, p \notin misjudged', ResultFor(r, p) = {}
      PROVE  p \notin misjudged
  BY <1>1, <1>8
<1>9. ASSUME NEW x \in found, x.path \notin misjudged', RootOf[x.path] = r
      PROVE  Judges(x.mel, x.file)
  <2>1. x \in ResultFor(r, x.path) /\ x.path \in Paths /\ x.mel \in BOOLEAN
    BY <1>9, Typing DEF ResultFor, Known
  <2>2. ~Wrong(x)
    BY <1>1, <1>9, <2>1
  <2>. QED BY <2>1, <2>2 DEF Wrong, Judges
<1>10. ASSUME NEW p \in Paths PROVE RowRight(p)'
  <2> SUFFICES ASSUME p \notin misjudged'
               PROVE  /\ Judges(inventory'[p].mel, inventory'[p].file)
                      /\ inventory'[p].mel /\ inventory'[p].file = disk[p]
                            => candidates'[p].active
    BY <1>1 DEF RowRight, Judges
  <2>1. ASSUME NEW x \in found, x.path = p, RootOf[p] = r,
               inventory'[p] = [file |-> x.file, mel |-> x.mel],
               candidates'[p] = IF x.mel THEN [active |-> TRUE, file |-> x.file]
                                ELSE [candidates[p] EXCEPT !.active = FALSE]
        PROVE  /\ Judges(inventory'[p].mel, inventory'[p].file)
               /\ inventory'[p].mel /\ inventory'[p].file = disk[p] => candidates'[p].active
    <3>1. inventory'[p].mel = x.mel /\ inventory'[p].file = x.file
      BY <2>1
    <3>2. Judges(x.mel, x.file)
      BY <1>9, <2>1
    <3>3. x.mel => candidates'[p].active
      BY <2>1
    <3>. QED BY <3>1, <3>2, <3>3
  <2>2. CASE ResultFor(r, p) = {} /\ p \in Gone(r) /\ inventory'[p] = NoRow
    <3>1. NoRow.mel = FALSE /\ NoRow.file.form # "mel"
      BY DEF NoRow, Absent
    <3>. QED BY <2>2, <3>1 DEF Judges
  <2>3. CASE /\ ResultFor(r, p) = {} /\ p \notin Gone(r)
             /\ inventory'[p] = inventory[p]
             /\ candidates'[p] = candidates[p] \/ (scan.mode = "full" /\ RootOf[p] = r)
    <3>1. RowRight(p) /\ p \notin misjudged
      BY <1>8, <2>3 DEF Known, TruthOK
    <3>2. scan.mode = "full" /\ RootOf[p] = r => inventory[p] = NoRow
      BY <1>6, <2>3 DEF Gone
    <3>3. NoRow.mel = FALSE
      BY DEF NoRow
    <3>. QED BY <2>3, <3>1, <3>2, <3>3 DEF RowRight, Judges
  <2>. QED BY <1>7, <2>1, <2>2, <2>3
<1>11. ASSUME NEW p \in scan.scope, RootOf[p] # r, Dealt(p) PROVE Dealt(p)'
  <2>1. p \in Paths
    BY Typing DEF Known
  <2>2. p \notin Gone(r)
    BY <1>6, <1>11, <2>1 DEF Gone
  <2>3. inventory'[p] = inventory[p] /\ candidates'[p] = candidates[p]
    BY <1>7, <1>11, <2>1, <2>2
  <2>4. ResultFor(r, p) = {}
    BY <1>11 DEF ResultFor
  <2>5. p \notin misjudged' => p \notin misjudged
    BY <1>8, <2>1, <2>4
  <2>6. Turn(p)' = Turn(p) /\ Accounted(p)' = Accounted(p) /\ TruthAbout(p)' = TruthAbout(p)
    BY <1>1, <1>2, <1>4, <2>3 DEF Turn, Accounted, JudgedPaths, FoundPaths, TruthAbout
  <2>. QED BY <1>1, <1>2, <1>4, <1>11, <2>5, <2>6 DEF Dealt
<1>12. ASSUME NEW p \in scan.scope, RootOf[p] = r, p \notin touched, ~Spared(p)
       PROVE  inventory'[p].file = disk[p]
  <2>1. p \in Paths
    BY Typing DEF Known
  <2>2. Turn(p)
    BY <1>1, <1>2 DEF Turn, Known, Inv, ScanOK
  <2>3. Accounted(p)
    BY <1>1, <1>12, <2>2 DEF Known, TruthOK, Dealt
  <2>4. WalkRight(p)
    BY DEF Known, TruthOK, SeenOK
  <2>5. p \in FoundPaths => ResultFor(r, p) # {}
    BY <1>12 DEF FoundPaths, ResultFor
  <2>6. NoRow.file = Absent
    BY DEF NoRow
  <2>7. ASSUME NEW x \in found, x.path = p, inventory'[p] = [file |-> x.file, mel |-> x.mel]
        PROVE  inventory'[p].file = disk[p]
    <3>1. ResultRight(x)
      BY DEF Known, TruthOK, SeenOK
    <3>2. x.file = disk[p]
      BY <1>12, <2>7, <3>1 DEF ResultRight
    <3>. QED BY <2>7, <3>2
  <2>8. CASE ResultFor(r, p) = {} /\ p \in Gone(r) /\ inventory'[p] = NoRow
    <3>1. p \in removed \/ scan.mode = "full"
      BY <2>8 DEF Gone
    <3>2. disk[p] = Absent
      BY <1>5, <1>12, <2>3, <2>4, <2>5, <2>8, <3>1 DEF Accounted, WalkRight
    <3>. QED BY <2>6, <2>8, <3>2
  <2>9. CASE ResultFor(r, p) = {} /\ p \notin Gone(r) /\ inventory'[p] = inventory[p]
    <3>1. p \notin removed /\ (scan.mode = "full" => inventory[p] = NoRow)
      BY <1>6, <1>12, <2>1, <2>9 DEF Gone
    <3>2. disk[p] = Absent => inventory[p] = NoRow
      BY <2>3, <3>1 DEF Accounted
    <3>3. disk[p] # Absent => inventory[p].file = disk[p]
      BY <1>5, <1>12, <2>3, <2>5, <2>9 DEF Accounted
    <3>. QED BY <2>6, <2>9, <3>2, <3>3
  <2>. QED BY <1>7, <2>1, <2>7, <2>8, <2>9
<1>13. ASSUME NEW p \in scan.scope PROVE Dealt(p)'
  <2>1. p \in Paths /\ Dealt(p)
    BY Typing DEF Known, TruthOK
  <2>2. CASE RootOf[p] = r
    <3>1. RootOf[p] \notin scan'.unreconciled
      BY <1>4, <2>2
    <3>2. ASSUME p \notin touched, p \notin misjudged', ~Spared(p) PROVE TruthAbout(p)'
      <4>1. inventory'[p].file = disk'[p]
        BY <1>1, <1>12, <2>2, <3>2
      <4>2. RowRight(p)'
        BY <1>10, <2>1
      <4>. QED BY <2>1, <3>2, <4>1, <4>2, RowTells
    <3>. QED BY <1>1, <1>2, <3>1, <3>2 DEF Dealt
  <2>. QED BY <1>11, <2>1, <2>2
<1>14. JobOK'
  BY <1>1, <1>4 DEF JobOK, Known, TruthOK, Met, Under
<1>15. ASSUME NEW x \in found PROVE ResultRight(x)'
  <2>1. ResultRight(x)
    BY DEF Known, TruthOK, SeenOK
  <2>. QED BY <1>1, <1>2, <2>1 DEF ResultRight, Judges
<1>16. ASSUME NEW p \in scan.scope PROVE WalkRight(p)'
  <2>1. WalkRight(p)
    BY DEF Known, TruthOK, SeenOK
  <2>. QED BY <1>1, <1>2, <1>4, <2>1 DEF WalkRight
<1>17. SeenOK'
  BY <1>2, <1>4, <1>5, <1>15, <1>16 DEF SeenOK
<1>. QED BY <1>4, <1>10, <1>13, <1>14, <1>17 DEF TruthOK

LEMMA TruthInit == Init => TruthOK
<1> SUFFICES ASSUME Init PROVE TruthOK
  OBVIOUS
<1>1. scan = NoScan /\ verdicts = {} /\ batch = {} /\ found = {} /\ stage = "none"
  BY DEF Init
<1>2. scan.scope = {} /\ scan.mode = "none"
  BY <1>1 DEF NoScan
<1>3. \A p \in Paths : RowRight(p)
  BY DEF Init, RowRight, Judges, NoRow, Absent
<1>. QED BY <1>1, <1>2, <1>3 DEF TruthOK, JobOK, SeenOK

LEMMA ButtonCreates ==
    ASSUME Known, [Next]_vars,
           \/ \E mode \in {"full", "smart"}, r \in Roots \cup {AllRoots} :
                    QueueManualScan(mode, r)
           \/ \E walk \in CustomWalks, r \in Roots : QueueCustomScan(walk, r)
    PROVE  Created
<1>1. stage' = "queued" /\ scan = NoScan
  BY DEF QueueManualScan, QueueCustomScan, CreateScan
<1>2. ScanStep
  BY StepIsScanStep DEF Known, Inv
<1>3. stage = "none"
  BY <1>1 DEF Known, Inv, ScanTyped
<1>. QED BY <1>1, <1>2, <1>3
     DEF ScanStep, Kept, Begun, ListRoot, CompareSmart, CompareNothing, ToolReads, ParseBatch,
         DropScan, Known, Inv, ScanOK, TakeBatch

LEMMA TruthStep ==
    ASSUME Known, Inv', CandidateMatchesRow', [Next]_vars
    PROVE  TruthOK'
<1>1. ASSUME NEW p \in Paths, Import(p) \/ Delete(p) \/ Recover(p) \/ Convert(p) PROVE TruthOK'
  BY <1>1, FilesKnown DEF Inv
<1>2. ASSUME Created, UNCHANGED <<disk, tables, changes>> PROVE TruthOK'
  BY <1>2, CreatedKnown
<1>3. ASSUME \/ \E paths \in (SUBSET Paths) \ {{}}, type \in {"download", "rename"} :
                    Webhook(paths, type)
             \/ Handler \/ ScheduleDue \/ ClaimRequest \/ CompleteRequest \/ UNCHANGED vars
      PROVE  UNCHANGED <<disk, tables, changes, locals, scan, stage>>
  BY <1>3 DEF Webhook, Handler, WriteRequest, ScheduleDue, ClaimRequest, CompleteRequest, vars
<1>4. ASSUME \/ \E mode \in {"full", "smart"}, r \in Roots \cup {AllRoots} :
                    QueueManualScan(mode, r)
             \/ \E walk \in CustomWalks, r \in Roots : QueueCustomScan(walk, r)
      PROVE  TruthOK'
  <2>1. UNCHANGED <<disk, tables, changes>> /\ stage' = "queued" /\ scan = NoScan
    BY <1>4 DEF QueueManualScan, QueueCustomScan, CreateScan, changes, tables
  <2>2. Created
    BY <1>4, ButtonCreates
  <2>. QED BY <1>2, <2>1, <2>2
<1>5. ASSUME QueueScan PROVE TruthOK'
  <2>1. UNCHANGED <<disk, tables, changes, locals>>
    BY <1>5 DEF QueueScan
  <2>2. Kept \/ Created
    BY <1>5, RequestBecomesScan DEF Known, Inv
  <2>3. scan = NoScan
    BY <1>5 DEF QueueScan, Known, Inv, RequestsOK
  <2>4. CASE Kept
    BY <2>1, <2>3, <2>4, RestKnown DEF Kept
  <2>. QED BY <1>2, <2>1, <2>2, <2>4
<1>6. ASSUME SucceedScan \/ FailScan PROVE TruthOK'
  BY <1>6, DropKnown DEF SucceedScan, FailScan
<1>7. ASSUME Crash PROVE TruthOK'
  <2>1. UNCHANGED <<disk, tables>>
    BY <1>7 DEF Crash
  <2>2. DropScan \/ UNCHANGED <<scan, stage, locals, changes>>
    BY <1>7 DEF Crash
  <2>. QED BY <2>1, <2>2, DropKnown, RestKnown
<1>. QED
  BY <1>1, <1>3, <1>4, <1>5, <1>6, <1>7, RestKnown, BeginKnown, ListKnown, SmartKnown, OtherKnown,
     ToolKnown, ParseKnown, ReconcileKnown
  DEF Next, External, Coordinator, Worker

(* A scan that succeeds leaves rows and candidates that say what is on the *)
(* disk, for every path of its scope that nobody touched in the meantime   *)
(* and whose row is not one of those that SmartScanDiscovers is about;     *)
(* only a file that is no candidate, and whose name fits another one, may  *)
(* keep an older row.                                                      *)
THEOREM ScanTellsHolds == Spec => ScanTellsTruth
<1>1. Init => TruthOK
  BY TruthInit
<1>2. Inv /\ CandidateMatchesRow /\ TruthOK /\ Inv' /\ CandidateMatchesRow' /\ [Next]_vars
        => TruthOK'
  BY TruthStep DEF Known
<1>3. Inv /\ TruthOK /\ [Next]_vars
        => [SucceedScan =>
              \A p \in scan.scope \ (touched \cup misjudged) :
                 TruthAbout(p) \/ (p \in Unclear /\ disk[p].form # "mel")]_vars
  <2> SUFFICES ASSUME Inv, TruthOK, SucceedScan,
                      NEW p \in scan.scope \ (touched \cup misjudged)
               PROVE  TruthAbout(p) \/ (p \in Unclear /\ disk[p].form # "mel")
    OBVIOUS
  <2>1. stage = "reconcile" /\ scan.unreconciled = {}
    BY DEF SucceedScan
  <2>2. Turn(p)
    BY <2>1 DEF Turn, Running, Inv, ScanOK
  <2>. QED BY <2>1, <2>2 DEF TruthOK, Dealt, Spared
<1>. QED BY InvInductive, CandidateMatchesHolds, <1>1, <1>2, <1>3, PTL DEF Spec, ScanTellsTruth

(* Where nothing is switched on that the finding about smart scans needs,  *)
(* every file is new: no row knows the fingerprint of a file to come.      *)
Quiet == Hazards = {} /\ Unclear = {}

Fresh ==
    /\ misjudged = {}
    /\ \A p \in Paths : disk[p].version <= imports /\ inventory[p].file.version <= imports
    /\ \A x \in found : x.file.version <= imports /\ Judges(x.mel, x.file)
    /\ \A v \in verdicts : Judges(v.mel, disk[v.path])

LEMMA Versions ==
    ASSUME TablesOK
    PROVE  /\ imports \in Nat /\ Absent.version = 0 /\ NoRow.file = Absent
           /\ \A p \in Paths : disk[p] \in Content /\ disk[p].version \in Nat
           /\ \A p \in Paths : inventory[p].file \in Content /\ inventory[p].file.version \in Nat
<1>1. imports \in Nat /\ Absent.version = 0 /\ NoRow.file = Absent
  BY BoundsAssumption DEF TablesOK, Absent, NoRow
<1>2. \A file \in Content : file.version \in Nat
  BY BoundsAssumption DEF Content
<1>3. ASSUME NEW p \in Paths PROVE disk[p] \in Content /\ inventory[p].file \in Content
  <2>1. disk[p] \in Content /\ inventory[p] \in Row
    BY DEF TablesOK
  <2>. QED BY <2>1 DEF Row
<1>. QED BY <1>1, <1>2, <1>3

LEMMA FreshFiles ==
    ASSUME Quiet, Known, Fresh, NEW p \in Paths,
           Import(p) \/ Delete(p) \/ Recover(p) \/ Convert(p)
    PROVE  Fresh'
<1>. USE Versions DEF Known, Inv
<1>1. UNCHANGED <<inventory, verdicts, found>>
  BY DEF Import, Delete, Recover, Convert, tables, locals
<1>2. imports' \in Nat /\ imports' >= imports
  BY DEF Import, Delete, Recover, Convert
<1>3. PICK file : /\ Write(p, file) /\ file.version <= imports'
                  /\ file # Absent => file # inventory[p].file
  <2>1. CASE Import(p)
    <3>1. PICK form \in {"mel", "other"} : Write(p, [version |-> imports + 1, form |-> form])
      BY <2>1 DEF Import
    <3>. DEFINE file == [version |-> imports + 1, form |-> form]
    <3>2. file.version = imports + 1 /\ imports' = imports + 1
      BY <2>1 DEF Import
    <3>3. file # inventory[p].file
      BY <3>2 DEF Fresh
    <3>4. file.version <= imports'
      BY <3>2
    <3>5. Write(p, file)
      BY <3>1
    <3>. HIDE DEF file
    <3>. QED BY <3>3, <3>4, <3>5
  <2>2. CASE Delete(p)
    BY <2>2 DEF Delete
  <2>3. CASE Recover(p)
    BY <2>3 DEF Recover, Quiet
  <2>4. CASE Convert(p)
    <3>. DEFINE file == [disk[p] EXCEPT !.form = "converted"]
    <3>1. file.version = disk[p].version /\ file.form = "converted"
      BY DEF Content
    <3>2. inventory[p].file.form = "mel"
      <4>1. inventory[p] = [file |-> candidates[p].file, mel |-> TRUE]
        BY <2>4 DEF Convert, CandidateMatchesRow
      <4>2. inventory[p].mel = TRUE
        BY <4>1
      <4>3. RowRight(p) /\ p \notin misjudged
        BY DEF TruthOK, Fresh
      <4>. QED BY <4>2, <4>3 DEF RowRight, Judges
    <3>3. Write(p, file) /\ imports' = imports
      BY <2>4 DEF Convert
    <3>4. file.version <= imports'
      BY <3>1, <3>3 DEF Fresh
    <3>. HIDE DEF file
    <3>. QED BY <3>1, <3>2, <3>3, <3>4
  <2>. QED BY <2>1, <2>2, <2>3, <2>4
<1>4. ~Judged(p) /\ ~Returns(p, file)
  BY <1>3 DEF Write, Quiet, Returns
<1>5. misjudged' = {}
  BY <1>3, <1>4 DEF Write, Fresh
<1>6. \A q \in Paths : disk'[q] = IF q = p THEN file ELSE disk[q]
  BY <1>3 DEF Write, TablesOK
<1>7. \A q \in Paths : disk'[q].version <= imports'
  <2> SUFFICES ASSUME NEW q \in Paths PROVE disk'[q].version <= imports'
    OBVIOUS
  <2>1. disk[q].version \in Nat /\ disk[q].version <= imports
    BY DEF Fresh
  <2>. QED BY <1>2, <1>3, <1>6, <2>1
<1>8. \A q \in Paths : inventory'[q].file.version <= imports'
  BY <1>1, <1>2 DEF Fresh
<1>9. ASSUME NEW x \in found' PROVE x.file.version <= imports' /\ Judges(x.mel, x.file)
  <2>1. x.file.version <= imports /\ x.file.version \in Nat /\ Judges(x.mel, x.file)
    BY <1>1, Typing, BoundsAssumption DEF Fresh, Content
  <2>. QED BY <1>2, <2>1
<1>10. ASSUME NEW v \in verdicts' PROVE Judges(v.mel, disk'[v.path])
  <2>1. v \in verdicts /\ v.path \in Paths /\ v.path # p
    BY <1>1, <1>4, Typing DEF Judged
  <2>. QED BY <1>6, <2>1 DEF Fresh
<1>. QED BY <1>5, <1>7, <1>8, <1>9, <1>10 DEF Fresh, Judges

LEMMA FreshStep ==
    ASSUME Quiet, Known, Fresh, [Next]_vars
    PROVE  Fresh'
<1>1. ASSUME NEW p \in Paths, Import(p) \/ Delete(p) \/ Recover(p) \/ Convert(p) PROVE Fresh'
  BY <1>1, FreshFiles
<1>2. ASSUME UNCHANGED <<disk, inventory, imports, misjudged>>, found' = found \/ found' = {},
             verdicts' = verdicts \/ verdicts' = {}
      PROVE  Fresh'
  BY <1>2 DEF Fresh, Judges
<1>3. ASSUME ParseBatch PROVE Fresh'
  <2>1. UNCHANGED <<disk, inventory, imports, misjudged>> /\ verdicts' = {}
    BY <1>3 DEF ParseBatch, tables, changes
  <2>2. ASSUME NEW x \in found' \ found PROVE x.file.version <= imports /\ Judges(x.mel, x.file)
    <3>1. x.file = disk[x.path] /\ x \in Result
      BY <1>3, <2>2 DEF ParseBatch
    <3>2. PICK v \in verdicts : x.path \in TakenFor(v) /\ x.mel = v.mel
      BY <1>3, <2>2 DEF ParseBatch
    <3>3. v.path \in Paths
      BY Typing DEF Known
    <3>4. ReadsAs[v.path] = {v.path}
      BY <3>3 DEF Quiet, Unclear
    <3>5. x.path = v.path
      BY <3>2, <3>4 DEF TakenFor
    <3>. QED BY <3>1, <3>2, <3>3, <3>5 DEF Fresh
  <2>3. \A x \in found' : x.file.version <= imports /\ Judges(x.mel, x.file)
    BY <2>2 DEF Fresh
  <2>. QED BY <2>1, <2>3 DEF Fresh, Judges
<1>6. ASSUME NEW p \in Paths, ToolReads(p) PROVE Fresh'
  <2>1. /\ UNCHANGED <<disk, inventory, imports, misjudged, found>>
        /\ verdicts' = IF disk[p] = Absent THEN verdicts
                       ELSE verdicts \cup {[path |-> p, mel |-> disk[p].form = "mel"]}
    BY <1>6 DEF ToolReads, tables, changes
  <2>2. ASSUME NEW v \in verdicts' \ verdicts PROVE Judges(v.mel, disk[v.path])
    <3>1. v = [path |-> p, mel |-> disk[p].form = "mel"]
      BY <2>1, <2>2
    <3>2. v.path = p /\ (v.mel <=> disk[p].form = "mel")
      BY <3>1
    <3>. QED BY <3>2 DEF Judges
  <2>3. \A v \in verdicts' : Judges(v.mel, disk[v.path])
    BY <2>2 DEF Fresh
  <2>. QED BY <2>1, <2>3 DEF Fresh, Judges
<1>4. ASSUME NEW r \in Roots, Reconcile(r) PROVE Fresh'
  <2>1. /\ UNCHANGED <<disk, imports, verdicts, found>> /\ ReconcileScan(r)
        /\ misjudged' = {p \in Paths : \/ p \in misjudged /\ ResultFor(r, p) = {}
                                       \/ \E x \in ResultFor(r, p) : Wrong(x)}
    BY <1>4 DEF Reconcile, locals
  <2>3. ASSUME NEW p \in Paths, NEW x \in ResultFor(r, p) PROVE ~Wrong(x)
    BY Typing DEF ResultFor, Fresh, Wrong, Judges, Known
  <2>4. misjudged' = {}
    BY <2>1, <2>3 DEF Fresh
  <2>2. ASSUME NEW p \in Paths PROVE inventory'[p].file.version <= imports
    <3>1. \/ \E x \in found : inventory'[p] = [file |-> x.file, mel |-> x.mel]
          \/ inventory'[p] = NoRow
          \/ inventory'[p] = inventory[p]
      BY <2>1, RowStep DEF Known, Inv
    <3>2. ASSUME NEW x \in found, inventory'[p] = [file |-> x.file, mel |-> x.mel]
          PROVE  inventory'[p].file.version <= imports
      <4>1. inventory'[p].file = x.file
        BY <3>2
      <4>. QED BY <4>1 DEF Fresh
    <3>3. NoRow.file.version <= imports
      BY Versions DEF Known, Inv
    <3>. QED BY <3>1, <3>2, <3>3 DEF Fresh
  <2>. QED BY <2>1, <2>2, <2>4 DEF Fresh, Judges
<1>5. ASSUME \/ \E paths \in (SUBSET Paths) \ {{}}, type \in {"download", "rename"} :
                    Webhook(paths, type)
             \/ Handler
             \/ \E mode \in {"full", "smart"}, r \in Roots \cup {AllRoots} :
                    QueueManualScan(mode, r)
             \/ \E walk \in CustomWalks, r \in Roots : QueueCustomScan(walk, r)
             \/ ScheduleDue \/ ClaimRequest \/ QueueScan \/ CompleteRequest
             \/ BeginScan \/ ListRoot \/ CompareSmart \/ CompareNothing
             \/ SucceedScan \/ FailScan \/ Crash \/ UNCHANGED vars
      PROVE  /\ UNCHANGED <<disk, inventory, imports, misjudged>>
             /\ found' = found \/ found' = {}
             /\ verdicts' = verdicts \/ verdicts' = {}
  BY <1>5
  DEF Webhook, Handler, WriteRequest, QueueManualScan, QueueCustomScan, ScheduleDue, ClaimRequest,
      QueueScan, CompleteRequest, BeginScan, ListRoot, CompareSmart, CompareNothing, SucceedScan,
      FailScan, Crash, DropScan, tables, changes, locals, vars
<1>. QED BY <1>1, <1>2, <1>3, <1>4, <1>5, <1>6 DEF Next, External, Coordinator, Worker

(* What the settings page says of smart scans is true as long as no file   *)
(* changes between dovi_convert's verdict and its fingerprint, no recovery *)
(* brings an original back, and no name is shortened to one that fits two  *)
(* files: those three are all that breaks it.                              *)
THEOREM SmartScanDiscoversHolds ==
    ASSUME Quiet
    PROVE  Spec => SmartScanDiscovers
<1>1. Init => TruthOK
  BY TruthInit
<1>2. Inv /\ CandidateMatchesRow /\ TruthOK /\ Inv' /\ CandidateMatchesRow' /\ [Next]_vars
        => TruthOK'
  BY TruthStep DEF Known
<1>3. Init => Fresh
  <2> SUFFICES ASSUME Init PROVE Fresh
    OBVIOUS
  <2>1. TablesOK
    BY InvInit DEF Inv
  <2>. QED BY <2>1, Versions DEF Init, Fresh
<1>4. Inv /\ CandidateMatchesRow /\ TruthOK /\ Fresh /\ [Next]_vars => Fresh'
  BY FreshStep DEF Known
<1>5. Inv /\ TruthOK /\ Fresh /\ [Next]_vars
        => [SucceedScan /\ scan.mode = "smart"
              => \A p \in scan.scope \ touched : disk[p].form = "mel" => candidates[p].active]_vars
  <2> SUFFICES ASSUME Inv, TruthOK, Fresh, SucceedScan, NEW p \in scan.scope \ touched
               PROVE  disk[p].form = "mel" => candidates[p].active
    OBVIOUS
  <2>1. stage = "reconcile" /\ scan.unreconciled = {}
    BY DEF SucceedScan
  <2>2. Turn(p)
    BY <2>1 DEF Turn, Running, Inv, ScanOK
  <2>3. TruthAbout(p)
    BY <2>1, <2>2 DEF TruthOK, Dealt, Fresh, Quiet, Spared
  <2>. QED BY <2>3 DEF TruthAbout
<1>. QED BY InvInductive, CandidateMatchesHolds, <1>1, <1>2, <1>3, <1>4, <1>5, PTL
     DEF Spec, SmartScanDiscovers

-----------------------------------------------------------------------------
(* The scans as readers of the tables see them.                            *)

LEMMA PhaseIs ==
    ASSUME ScanTyped
    PROVE  /\ Phase = "running" <=> Running
           /\ Phase = "none" <=> stage = "none"
           /\ Phase = "asked" <=> stage = "queued"
BY DEF ScanTyped, Phase, Running, Stage

LEMMA FilesRefine ==
    ASSUME Known, NEW p \in Paths, Import(p) \/ Delete(p) \/ Recover(p) \/ Convert(p)
    PROVE  Index!Change(p)
<1>1. PICK file : Write(p, file)
  BY DEF Import, Delete, Recover, Convert
<1>2. disk' = [disk EXCEPT ![p] = disk'[p]] /\ disk'[p] = file
  BY <1>1 DEF Write, Known, Inv, TablesOK
<1>3. UNCHANGED <<inventory, scan, stage>>
  BY DEF Import, Delete, Recover, Convert, tables
<1>4. Phase = "running" <=> Running
  BY PhaseIs DEF Known, Inv
<1>5. \/ candidates' = candidates
      \/ Phase # "running" /\ candidates' = [candidates EXCEPT ![p].active = FALSE]
  BY <1>4 DEF Import, Delete, Recover, Convert, tables
<1>6. touched' = IF Phase = "running" THEN touched \cup {p} ELSE touched
  BY <1>1, <1>4 DEF Write
<1>7. \/ misjudged' = misjudged
      \/ disk'[p] = inventory[p].file /\ misjudged' = misjudged \cup {p}
  BY <1>1, <1>2 DEF Write, Returns
<1>8. UNCHANGED Index!job
  BY <1>3 DEF Index!job, Phase
<1>. QED BY <1>2, <1>3, <1>5, <1>6, <1>7, <1>8 DEF Index!Change

LEMMA RestRefines ==
    ASSUME UNCHANGED <<disk, inventory, candidates, touched, misjudged>>, Phase' = Phase,
           scan'.scope = scan.scope, scan'.unreconciled = scan.unreconciled,
           scan'.mode = scan.mode
    PROVE  UNCHANGED Index!vars
BY DEF Index!vars, Index!tables, Index!job

LEMMA CreatedRefines ==
    ASSUME Created, UNCHANGED <<disk, tables, changes>>
    PROVE  Index!Ask
<1>1. PICK mode \in ScanMode, walk \in CustomWalks \cup {RootWalk}, scope \in SUBSET Paths,
           roots \in SUBSET Roots :
        scan' = ScanOf(mode, walk, scope, roots) /\ scope \subseteq Under(roots)
  BY DEF Created
<1>2. scan'.scope = scope /\ scan'.unreconciled = roots
  BY <1>1 DEF ScanOf
<1>3. \A p \in scope : RootOf[p] \in roots
  BY <1>1 DEF Under
<1>4. Phase = "none" /\ Phase' = "asked"
  BY DEF Created, Phase
<1>5. (scan'.mode \in {"custom", "file"}) \in BOOLEAN
  OBVIOUS
<1>6. UNCHANGED <<disk, Index!tables, touched, misjudged>>
  BY DEF tables, changes, Index!tables
<1>. QED BY <1>1, <1>2, <1>3, <1>4, <1>5, <1>6 DEF Index!Ask

LEMMA DropRefines ==
    ASSUME Known, Running, DropScan, UNCHANGED <<disk, tables>>
    PROVE  Index!End
<1>1. Phase = "running" /\ Phase' = "none"
  <2>1. Phase = "running"
    BY PhaseIs DEF Known, Inv
  <2>2. Phase' = "none"
    BY DEF DropScan, Phase
  <2>. QED BY <2>1, <2>2
<1>2. scan'.scope = {} /\ scan'.unreconciled = {} /\ scan'.mode = "none"
  BY DEF DropScan, NoScan
<1>3. (scan'.mode \in {"custom", "file"}) = FALSE
  BY <1>2
<1>4. touched' = {} /\ UNCHANGED <<disk, Index!tables, misjudged>>
  BY DEF DropScan, tables, Index!tables
<1>. QED BY <1>1, <1>2, <1>3, <1>4 DEF Index!End

LEMMA BeginRefines ==
    ASSUME BeginScan
    PROVE  Index!Start
<1>1. Phase = "asked" /\ Phase' = "running" /\ UNCHANGED <<disk, Index!tables, scan, misjudged>>
      /\ touched' = {}
  BY DEF BeginScan, Phase, tables, Index!tables
<1>. QED BY <1>1 DEF Index!Start

LEMMA ReconcileRefines ==
    ASSUME Known, Inv', CandidateMatchesRow', TruthOK', NEW r \in Roots, Reconcile(r)
    PROVE  Index!WriteRoot(r)
<1>1. /\ stage = "reconcile" /\ ReconcileScan(r) /\ r \in scan.unreconciled
      /\ scan' = [scan EXCEPT !.unreconciled = @ \ {r}]
      /\ misjudged' = {p \in Paths : \/ p \in misjudged /\ ResultFor(r, p) = {}
                                     \/ \E x \in ResultFor(r, p) : Wrong(x)}
      /\ UNCHANGED <<disk, stage, touched>>
  BY DEF Reconcile
<1>2. Running /\ Running' /\ Phase = "running" /\ Phase' = Phase
  BY <1>1 DEF Running, Phase
<1>3. scan \in ScanJob
  BY <1>2, JobFields DEF Known, Inv
<1>4. /\ scan'.scope = scan.scope /\ scan'.mode = scan.mode /\ scan'.roots = scan.roots
      /\ scan'.unreconciled = scan.unreconciled \ {r}
  BY <1>1, <1>3 DEF ScanJob
<1>5. ASSUME NEW p \in Paths,
             RootOf[p] # r \/ (scan.mode \in {"custom", "file"} /\ p \notin scan.scope)
      PROVE  inventory'[p] = inventory[p] /\ candidates'[p] = candidates[p]
  <2>1. \A x \in found : ~(x.path = p /\ RootOf[p] = r)
    BY <1>5 DEF Known, Inv, ScanOK
  <2>2. p \notin Gone(r)
    <3>1. RootOf[p] # r => p \notin Under({r})
      BY DEF Under
    <3>2. scan.mode \in {"custom", "file"} /\ p \notin scan.scope => p \notin removed
      BY DEF Known, Inv, ScanOK
    <3>. QED BY <1>5, <3>1, <3>2 DEF Gone
  <2>3. ~(scan.mode = "full" /\ RootOf[p] = r)
    BY <1>5
  <2>. QED BY <1>1, <2>1, <2>2, <2>3, RowStep DEF Known, Inv
<1>6. ASSUME NEW p \in Paths, RootOf[p] = r, p \in scan.scope \ (touched \cup misjudged')
      PROVE  TruthAbout(p)' \/ (p \in Unclear /\ disk[p].form # "mel")
  <2>1. Turn(p)'
    BY <1>1, <1>2, <1>4 DEF Turn, Known, Inv, ScanOK
  <2>2. RootOf[p] \notin scan'.unreconciled
    BY <1>4, <1>6
  <2>3. p \in scan'.scope /\ p \notin touched'
    BY <1>1, <1>4, <1>6
  <2>4. Spared(p)' => p \in Unclear /\ disk[p].form # "mel"
    BY <1>1 DEF Spared, Unclear
  <2>. QED BY <1>6, <2>1, <2>2, <2>3, <2>4 DEF TruthOK, Dealt
<1>9. misjudged' \subseteq misjudged \cup touched \cup Unclear
  <2> SUFFICES ASSUME NEW p \in Paths, NEW x \in ResultFor(r, p), Wrong(x)
               PROVE  p \in touched \cup Unclear
    BY <1>1
  <2>1. x \in found /\ x.path = p /\ ResultRight(x) /\ x.mel \in BOOLEAN
    BY Typing DEF ResultFor, Known, TruthOK, SeenOK
  <2>. QED BY <2>1 DEF ResultRight, Wrong, Judges, Spared
<1>7. \A p \in Paths : Index!TruthAbout(p)' = TruthAbout(p)'
  BY DEF TruthAbout, Index!TruthAbout
<1>8. \A p \in Paths : Index!Follows(p)'
  BY DEF Index!Follows, CandidateMatchesRow
<1>. QED BY <1>1, <1>2, <1>4, <1>5, <1>6, <1>7, <1>8, <1>9 DEF Index!WriteRoot

LEMMA StepRefinesIndex ==
    ASSUME Known, Inv', CandidateMatchesRow', TruthOK', [Next]_vars
    PROVE  [Index!Next]_(Index!vars)
<1>1. ASSUME NEW p \in Paths, Import(p) \/ Delete(p) \/ Recover(p) \/ Convert(p)
      PROVE  Index!Next
  BY <1>1, FilesRefine DEF Index!Next
<1>2. ASSUME \/ \E paths \in (SUBSET Paths) \ {{}}, type \in {"download", "rename"} :
                    Webhook(paths, type)
             \/ Handler
             \/ ScheduleDue \/ ClaimRequest \/ CompleteRequest \/ UNCHANGED vars
             \/ CompareSmart \/ CompareNothing \/ ParseBatch \/ \E p \in Paths : ToolReads(p)
      PROVE  UNCHANGED Index!vars
  <2>1. UNCHANGED <<disk, inventory, candidates, touched, misjudged, scan>>
    BY <1>2 DEF Webhook, Handler, WriteRequest, ScheduleDue, ClaimRequest, CompleteRequest, vars,
                CompareSmart, CompareNothing, ParseBatch, ToolReads, tables, changes
  <2>2. Phase' = Phase
    <3>1. ASSUME stage \in {"listed", "tool"}, NEW todo, TakeBatch(todo) PROVE Phase' = Phase
      BY <3>1 DEF TakeBatch, Phase
    <3>2. CASE CompareSmart \/ CompareNothing \/ ParseBatch
      BY <3>1, <3>2 DEF CompareSmart, CompareNothing, ParseBatch
    <3>3. CASE stage' = stage
      BY <3>3 DEF Phase
    <3>. QED BY <1>2, <3>2, <3>3
         DEF Webhook, Handler, WriteRequest, ScheduleDue, ClaimRequest, CompleteRequest, vars,
             ToolReads
  <2>. QED BY <2>1, <2>2, RestRefines
<1>3. ASSUME ListRoot PROVE UNCHANGED Index!vars
  <2>1. /\ UNCHANGED <<disk, inventory, candidates, touched, misjudged>>
        /\ stage = "root" /\ stage' = "listed"
        /\ \E r \in scan.roots : scan' = [scan EXCEPT !.roots = @ \ {r}]
    BY <1>3 DEF ListRoot, tables, changes
  <2>2. scan \in ScanJob /\ Phase' = Phase
    BY <2>1, JobFields DEF Known, Inv, Running, Phase
  <2>3. /\ scan'.scope = scan.scope /\ scan'.unreconciled = scan.unreconciled
        /\ scan'.mode = scan.mode
    BY <2>1, <2>2 DEF ScanJob
  <2>. QED BY <2>1, <2>2, <2>3, RestRefines
<1>4. ASSUME \/ \E mode \in {"full", "smart"}, r \in Roots \cup {AllRoots} :
                    QueueManualScan(mode, r)
             \/ \E walk \in CustomWalks, r \in Roots : QueueCustomScan(walk, r)
      PROVE  Index!Next
  <2>1. UNCHANGED <<disk, tables, changes>>
    BY <1>4 DEF QueueManualScan, QueueCustomScan
  <2>2. Created
    BY <1>4, ButtonCreates
  <2>. QED BY <2>1, <2>2, CreatedRefines DEF Index!Next
<1>5. ASSUME QueueScan PROVE Index!Next \/ UNCHANGED Index!vars
  <2>1. UNCHANGED <<disk, tables, changes>>
    BY <1>5 DEF QueueScan
  <2>2. Kept \/ Created
    BY <1>5, RequestBecomesScan DEF Known, Inv
  <2>3. scan = NoScan
    BY <1>5 DEF QueueScan, Known, Inv, RequestsOK
  <2>4. CASE Kept
    <3>1. UNCHANGED <<scan, stage, inventory, candidates, touched, misjudged>>
      BY <2>1, <2>3, <2>4 DEF Kept, tables, changes
    <3>2. Phase' = Phase
      BY <3>1 DEF Phase
    <3>. QED BY <2>1, <3>1, <3>2, RestRefines
  <2>5. CASE Created
    BY <2>1, <2>5, CreatedRefines DEF Index!Next
  <2>. QED BY <2>2, <2>4, <2>5
<1>6. ASSUME SucceedScan \/ FailScan PROVE Index!Next
  <2>1. Running /\ DropScan /\ UNCHANGED <<disk, tables>>
    BY <1>6 DEF SucceedScan, FailScan, Running
  <2>. QED BY <2>1, DropRefines DEF Index!Next
<1>7. ASSUME Crash PROVE Index!Next \/ UNCHANGED Index!vars
  <2>1. UNCHANGED <<disk, tables>>
    BY <1>7 DEF Crash
  <2>2. CASE Running
    BY <1>7, <2>1, <2>2, DropRefines DEF Crash, Index!Next
  <2>3. CASE ~Running
    <3>1. UNCHANGED <<scan, stage, inventory, candidates, touched, misjudged>>
      BY <1>7, <2>1, <2>3 DEF Crash, tables, changes
    <3>2. Phase' = Phase
      BY <3>1 DEF Phase
    <3>. QED BY <2>1, <3>1, <3>2, RestRefines
  <2>. QED BY <2>2, <2>3
<1>8. ASSUME BeginScan PROVE Index!Next
  BY <1>8, BeginRefines DEF Index!Next
<1>9. ASSUME NEW r \in Roots, Reconcile(r) PROVE Index!Next
  BY <1>9, ReconcileRefines DEF Index!Next
<1>. QED
  BY <1>1, <1>2, <1>3, <1>4, <1>5, <1>6, <1>7, <1>8, <1>9 DEF Next, External, Coordinator, Worker

(* The scans implement MediaIndex: whatever the walk, the batches, the     *)
(* failures and the crashes, the tables are written a root at a time, by a *)
(* scan that runs, and truthfully where nobody touched the files.          *)
THEOREM ImplementsMediaIndex == Spec => IndexSpec
<1>1. Init => TruthOK
  BY TruthInit
<1>2. Inv /\ CandidateMatchesRow /\ TruthOK /\ Inv' /\ CandidateMatchesRow' /\ [Next]_vars
        => TruthOK'
  BY TruthStep DEF Known
<1>3. Init => Index!Init
  <2> SUFFICES ASSUME Init PROVE Index!Init
    OBVIOUS
  <2>1. \A p \in Paths : Index!TruthAbout(p)
    BY DEF Init, Index!TruthAbout, NoRow, Absent
  <2>2. Phase = "none" /\ touched = {} /\ misjudged = {} /\ scan = NoScan
    BY DEF Init, Phase
  <2>3. scan.scope = {} /\ scan.unreconciled = {} /\ scan.mode = "none"
    BY <2>2 DEF NoScan
  <2>4. (scan.mode \in {"custom", "file"}) = FALSE
    BY <2>3
  <2>. QED BY <2>1, <2>2, <2>3, <2>4 DEF Index!Init
<1>4. /\ Inv /\ CandidateMatchesRow /\ TruthOK
      /\ Inv' /\ CandidateMatchesRow' /\ TruthOK'
      /\ [Next]_vars
      => [Index!Next]_(Index!vars)
  BY StepRefinesIndex DEF Known
<1>. QED BY InvInductive, CandidateMatchesHolds, <1>1, <1>2, <1>3, <1>4, PTL
     DEF Spec, IndexSpec, Index!Spec

-----------------------------------------------------------------------------
(* Reports.                                                                *)

(* The other setting that reports depend on: full scans walk deep enough   *)
(* to meet every file.                                                     *)
DepthRight == \A p \in Paths : Walked(PartsOf[p], <<>>, TRUE, ScanDepth)

(* The scan is still to look at the path: the place where it is held moves *)
(* on with the stage.                                                      *)
Look(p) ==
    /\ p \in scan.scope
    /\ \/ stage = "queued"
       \/ RootOf[p] \in scan.roots
       \/ stage = "listed" /\ p \in listed
       \/ stage = "tool" /\ p \in listed \cap (waiting \cup unread)

(* A request is to become such a scan: one that waits, or the claimed one  *)
(* until its scan exists.                                                  *)
Held(p) ==
    \E i \in 1 .. Len(requests) :
        /\ Covers(requests[i].key, p)
        /\ requests[i].state = "pending" \/ coordinator = "claimed"

ReportsOK == \A p \in reported : Look(p) \/ Held(p)

(* The requests a webhook call has not written yet cover what those it has *)
(* written do not.                                                         *)
CallOK == \A p \in event.paths : Held(p) \/ \E key \in event.keys : Covers(key, p)

LEMMA HeldKept ==
    ASSUME NEW p, Held(p), UNCHANGED <<requests, coordinator>>
    PROVE  Held(p)'
BY DEF Held, Covers, FileKey, Under, RootsOf

(* While the event loop is free, a new request is answered by one that     *)
(* waits.                                                                  *)
LEMMA EnqueuedHolds ==
    ASSUME RequestsOK, NEW key \in Key, EnqueueScanRequest(key), coordinator' = coordinator,
           coordinator = "idle", NEW p, Covers(key, p) \/ Held(p)
    PROVE  Held(p)'
<1>1. /\ requests' \in Seq(ScanRequest) /\ Len(requests) \in Nat
      /\ Len(requests') >= Len(requests)
      /\ \A i \in 1 .. Len(requests) : requests'[i] = requests[i]
      /\ Claimed' = {}
      /\ \E i \in 1 .. Len(requests') : requests'[i].key = key
  <2>1. requests \in Seq(ScanRequest) /\ Claimed = {}
    BY DEF RequestsOK
  <2>2. /\ requests' \in Seq(ScanRequest) /\ Len(requests') >= Len(requests)
        /\ \A i \in 1 .. Len(requests) : requests'[i] = requests[i]
        /\ Claimed' = Claimed
        /\ \E i \in 1 .. Len(requests') : requests'[i].key = key
    BY Enqueued
  <2>. QED BY <2>1, <2>2
<1>2. \A i \in 1 .. Len(requests') : requests'[i].state = "pending"
  <2> SUFFICES ASSUME NEW i \in 1 .. Len(requests') PROVE requests'[i].state = "pending"
    OBVIOUS
  <2>1. requests'[i] \in ScanRequest /\ requests'[i].state # "claimed"
    BY <1>1 DEF Claimed
  <2>. QED BY <2>1 DEF ScanRequest
<1>3. \A k : Covers(k, p)' = Covers(k, p)
  BY DEF Covers, FileKey, Under, RootsOf
<1>4. CASE Covers(key, p)
  BY <1>1, <1>2, <1>3, <1>4 DEF Held, Covers, FileKey, Under, RootsOf
<1>5. CASE Held(p)
  <2>1. PICK i \in 1 .. Len(requests) : Covers(requests[i].key, p)
    BY <1>5 DEF Held
  <2>2. i \in 1 .. Len(requests') /\ requests'[i] = requests[i]
    BY <1>1
  <2>. QED BY <1>2, <2>1, <2>2 DEF Held, Covers, FileKey, Under, RootsOf
<1>. QED BY <1>4, <1>5

LEMMA LookKept ==
    ASSUME NEW p, Look(p), UNCHANGED <<stage, listed, waiting, unread>>,
           scan'.scope = scan.scope, scan'.roots = scan.roots
    PROVE  Look(p)'
BY DEF Look

LEMMA Covering ==
    /\ \A p \in Paths : Covers(SmartKey(AllRoots), p)
    /\ \A p \in Paths : Covers(FileKey(p), p) /\ Covers(SmartKey(RootOf[p]), p)
<1>1. \A p \in Paths : p \in Under(Roots) /\ p \in Under({RootOf[p]})
  BY RootsTyped DEF Under
<1>2. \A p \in Paths : RootsOf(RootOf[p]) = {RootOf[p]}
  BY RootsTyped DEF RootsOf
<1>. QED BY <1>1, <1>2, Keys, RootsTyped DEF Covers, RootsOf

LEMMA CallMade ==
    ASSUME MappingsRight, Inv, NEW paths \in SUBSET Paths, NEW type, Webhook(paths, type)
    PROVE  CallOK'
<1>. DEFINE mapped == {p \in paths : MappedFile(p) # {}}
            files == UNION {MappedFile(p) : p \in mapped}
<1>1. event' = IF mapped = {}
               THEN [paths |-> paths, keys |-> {SmartKey(AllRoots)}]
               ELSE [paths |-> mapped,
                     keys |-> IF type = "rename" THEN {SmartKey(RootOf[q]) : q \in files}
                                                 ELSE {FileKey(q) : q \in files}]
  BY DEF Webhook
<1>2. \A p \in mapped : p \in Paths /\ p \in files
  <2> SUFFICES ASSUME NEW p \in mapped PROVE p \in files
    OBVIOUS
  <2>1. MappedFile(p) \subseteq {p} /\ MappedFile(p) # {}
    BY DEF MappedFile, MappingsRight
  <2>. QED BY <2>1
<1>. HIDE DEF mapped, files
<1>3. \A key, p : Covers(key, p)' = Covers(key, p)
  BY DEF Covers, FileKey, Under, RootsOf
<1>4. ASSUME NEW p \in event'.paths PROVE \E key \in event'.keys : Covers(key, p)
  <2>1. CASE mapped = {}
    BY <1>1, <1>4, <2>1, Covering
  <2>2. CASE mapped # {} /\ type = "rename"
    <3>1. p \in mapped /\ event'.keys = {SmartKey(RootOf[q]) : q \in files}
      BY <1>1, <1>4, <2>2
    <3>. QED BY <1>2, <3>1, Covering
  <2>3. CASE mapped # {} /\ type # "rename"
    <3>1. p \in mapped /\ event'.keys = {FileKey(q) : q \in files}
      BY <1>1, <1>4, <2>3
    <3>. QED BY <1>2, <3>1, Covering
  <2>. QED BY <2>1, <2>2, <2>3
<1>. QED BY <1>3, <1>4 DEF CallOK

(* Each request written takes over what it covers; with the last one the   *)
(* paths of the call are reported.                                         *)
LEMMA WriteReports ==
    ASSUME Inv, ReportsOK, CallOK, NEW key \in event.keys, WriteRequest(key)
    PROVE  ReportsOK' /\ CallOK'
<1>1. /\ UNCHANGED <<scan, stage, listed, waiting, unread>>
      /\ coordinator' = coordinator /\ EnqueueScanRequest(key)
  BY DEF WriteRequest, locals
<1>2. event \in Event /\ coordinator = "idle" /\ key \in Key
  <2>1. event \in Event /\ (event # NoEvent => coordinator = "idle")
    BY DEF Inv, EventOK
  <2>. QED BY <2>1 DEF NoEvent, Event
<1>3. \A p : Covers(key, p) \/ Held(p) => Held(p)'
  BY <1>1, <1>2, EnqueuedHolds DEF Inv
<1>4. \A k, p : Covers(k, p)' = Covers(k, p)
  BY DEF Covers, FileKey, Under, RootsOf
<1>5. CASE event.keys = {key}
  <2>1. event' = NoEvent /\ reported' = reported \cup event.paths
    BY <1>5 DEF WriteRequest
  <2>2. event'.paths = {}
    BY <2>1 DEF NoEvent
  <2>3. ASSUME NEW p \in reported' PROVE Look(p)' \/ Held(p)'
    <3>1. CASE p \in event.paths
      BY <1>3, <1>5, <3>1 DEF CallOK
    <3>2. CASE p \in reported /\ Look(p)
      BY <1>1, <3>2, LookKept
    <3>3. CASE p \in reported /\ Held(p)
      BY <1>3, <3>3
    <3>. QED BY <2>1, <3>1, <3>2, <3>3 DEF ReportsOK
  <2>. QED BY <2>2, <2>3 DEF ReportsOK, CallOK
<1>6. CASE event.keys # {key}
  <2>1. event' = [event EXCEPT !.keys = @ \ {key}] /\ reported' = reported
    BY <1>6 DEF WriteRequest
  <2>2. event'.paths = event.paths /\ event'.keys = event.keys \ {key}
    BY <1>2, <2>1 DEF Event
  <2>3. ASSUME NEW p \in reported PROVE Look(p)' \/ Held(p)'
    BY <1>1, <1>3, LookKept DEF ReportsOK
  <2>4. ASSUME NEW p \in event.paths PROVE Held(p)' \/ \E k \in event'.keys : Covers(k, p)'
    BY <1>3, <1>4, <2>2 DEF CallOK
  <2>. QED BY <2>1, <2>2, <2>3, <2>4 DEF ReportsOK, CallOK
<1>. QED BY <1>5, <1>6

(* Nothing else touches the requests while a call writes them.             *)
LEMMA CallKept ==
    ASSUME CallOK, UNCHANGED <<event, requests, coordinator>>
    PROVE  CallOK'
<1>1. \A key, p : Covers(key, p)' = Covers(key, p)
  BY DEF Covers, FileKey, Under, RootsOf
<1>. QED BY <1>1, HeldKept DEF CallOK

LEMMA CallStep ==
    ASSUME MappingsRight, Inv, ReportsOK, CallOK, [Next]_vars
    PROVE  CallOK'
<1>1. CASE \E paths \in (SUBSET Paths) \ {{}}, type \in {"download", "rename"} :
              Webhook(paths, type)
  BY <1>1, CallMade
<1>2. CASE Handler
  BY <1>2, WriteReports DEF Handler
<1>3. CASE event' = NoEvent
  BY <1>3 DEF CallOK, NoEvent
<1>4. CASE UNCHANGED <<event, requests, coordinator>>
  BY <1>4, CallKept
<1>5. CASE ScheduleDue \/ ClaimRequest \/ Crash
  BY <1>3, <1>5 DEF ScheduleDue, ClaimRequest, Crash, LoopFree
<1>6. CASE Coordinator
  <2>1. coordinator # "idle" /\ event' = event
    BY <1>6 DEF Coordinator, QueueScan, CompleteRequest
  <2>. QED BY <1>3, <2>1 DEF Inv, EventOK
<1>7. CASE \/ \E p \in Paths : Import(p) \/ Delete(p) \/ Recover(p) \/ Convert(p)
           \/ \E mode \in {"full", "smart"}, r \in Roots \cup {AllRoots} :
                  QueueManualScan(mode, r)
           \/ \E walk \in CustomWalks, r \in Roots : QueueCustomScan(walk, r)
           \/ Worker \/ UNCHANGED vars
  <2>1. UNCHANGED <<event, requests, coordinator>>
    BY <1>7
    DEF Import, Delete, Recover, Convert, QueueManualScan, QueueCustomScan, Worker, BeginScan,
        ListRoot, CompareSmart, CompareNothing, ToolReads, ParseBatch, Reconcile, SucceedScan,
        FailScan, vars
  <2>. QED BY <1>4, <2>1
<1>. QED BY <1>1, <1>2, <1>5, <1>6, <1>7 DEF Next, External

(* The scan made from a request holds the paths that the request covers.   *)
LEMMA QueueReports ==
    ASSUME DepthRight, Inv, ReportsOK, QueueScan
    PROVE  ReportsOK'
<1>1. coordinator = "claimed" /\ scan = NoScan /\ stage = "none" /\ coordinator' = "queued"
  BY DEF QueueScan, Inv, RequestsOK, ScanTyped
<1>2. reported' = reported /\ reported \subseteq Paths
  BY DEF QueueScan, Inv, TablesOK
<1> SUFFICES ASSUME NEW p \in reported PROVE Look(p)' \/ Held(p)'
  BY <1>2 DEF ReportsOK
<1>3. ~Look(p) /\ p \in Paths
  BY <1>1, <1>2 DEF Look, NoScan
<1>4. PICK j \in 1 .. Len(requests) : Covers(requests[j].key, p)
  BY <1>3 DEF ReportsOK, Held
<1>5. PICK i \in Claimed :
        LET key == requests[i].key IN
          \/ /\ key.type = "file"
             /\ CreateScan("file", RootWalk, {key.path}, {key.root})
             /\ UNCHANGED requests
          \/ /\ key.type = "file"
             /\ EnqueueScanRequest(SmartKey(key.root))
          \/ /\ key.type = "smart"
             /\ CreateScan("smart", RootWalk, Met(RootWalk, RootsOf(key.root)), RootsOf(key.root))
             /\ UNCHANGED requests
  BY DEF QueueScan
<1>6. i \in 1 .. Len(requests) /\ Claimed = {i}
  BY <1>1, <1>5 DEF Inv, RequestsOK, Claimed
<1>7. requests[i].key \in Key /\ requests[j].key \in Key
  BY <1>6, RequestFields DEF Inv
<1>8. \A k \in 1 .. Len(requests) \ {i} : requests[k].state = "pending"
  BY <1>6, RequestFields DEF Inv
<1>9. CASE UNCHANGED requests /\ j # i
  BY <1>4, <1>8, <1>9 DEF Held, Covers, FileKey, Under, RootsOf
<1>10. CASE /\ requests[i].key.type = "file"
            /\ EnqueueScanRequest(SmartKey(requests[i].key.root))
  <2>. DEFINE smart == SmartKey(requests[i].key.root)
  <2>1. smart \in Key /\ smart.type = "smart"
    BY <1>7, <1>10, Keys, RootsTyped
  <2>2. Covers(requests[i].key, p) => Covers(smart, p)
    <3>1. ASSUME Covers(requests[i].key, p) PROVE requests[i].key = FileKey(p)
      BY <1>7, <1>10, <3>1 DEF Covers
    <3>. QED BY <1>3, <3>1, Covering, Keys
  <2>. HIDE DEF smart
  <2>3. EnqueueScanRequest(smart)
    BY <1>10 DEF smart
  <2>4. /\ requests' \in Seq(ScanRequest) /\ Len(requests) \in Nat
        /\ Len(requests') >= Len(requests)
        /\ \A k \in 1 .. Len(requests) : requests'[k] = requests[k]
        /\ Claimed' = {i}
        /\ \E k \in 1 .. Len(requests') : requests'[k].key = smart
    <3>1. RequestsOK
      BY DEF Inv
    <3>2. /\ requests' \in Seq(ScanRequest) /\ Len(requests') >= Len(requests)
          /\ \A k \in 1 .. Len(requests) : requests'[k] = requests[k]
          /\ Claimed' = Claimed
          /\ \E k \in 1 .. Len(requests') : requests'[k].key = smart
      BY <2>1, <2>3, <3>1, Enqueued
    <3>3. Len(requests) \in Nat
      BY <3>1 DEF RequestsOK
    <3>. QED BY <1>6, <3>2, <3>3
  <2>5. ASSUME NEW k \in 1 .. Len(requests'), k # i PROVE requests'[k].state = "pending"
    <3>1. requests'[k] \in ScanRequest /\ requests'[k].state # "claimed"
      BY <2>4, <2>5 DEF Claimed
    <3>. QED BY <3>1 DEF ScanRequest
  <2>6. CASE j = i
    <3>1. PICK k \in 1 .. Len(requests') : requests'[k].key = smart
      BY <2>4
    <3>2. k # i
      BY <1>6, <1>10, <2>1, <2>4, <3>1
    <3>3. Covers(smart, p)
      BY <1>4, <2>2, <2>6
    <3>. QED BY <2>5, <3>1, <3>2, <3>3 DEF Held, Covers, FileKey, Under, RootsOf
  <2>7. CASE j # i
    <3>1. j \in 1 .. Len(requests') /\ requests'[j] = requests[j]
      BY <2>4
    <3>. QED BY <1>4, <2>5, <2>7, <3>1 DEF Held, Covers, FileKey, Under, RootsOf
  <2>. QED BY <2>6, <2>7
<1>11. CASE /\ j = i /\ requests[i].key.type = "file"
            /\ CreateScan("file", RootWalk, {requests[i].key.path}, {requests[i].key.root})
  <2>1. requests[i].key = FileKey(p)
    BY <1>4, <1>11 DEF Covers
  <2>2. requests[i].key.path = p
    BY <1>3, <2>1, Keys
  <2>3. scan'.scope = {p} /\ stage' = "queued"
    BY <1>11, <2>2 DEF CreateScan, ScanOf
  <2>. QED BY <2>3 DEF Look
<1>12. CASE /\ j = i /\ requests[i].key.type = "smart"
            /\ CreateScan("smart", RootWalk, Met(RootWalk, RootsOf(requests[i].key.root)),
                          RootsOf(requests[i].key.root))
  <2>1. p \in Under(RootsOf(requests[i].key.root))
    <3>1. requests[i].key # FileKey(p)
      BY <1>3, <1>12, Keys
    <3>. QED BY <1>4, <1>12, <3>1 DEF Covers
  <2>2. p \in Met(RootWalk, RootsOf(requests[i].key.root))
    BY <1>3, <2>1 DEF Met, RootWalk, DepthRight
  <2>3. scan'.scope = Met(RootWalk, RootsOf(requests[i].key.root)) /\ stage' = "queued"
    BY <1>12 DEF CreateScan, ScanOf
  <2>. QED BY <2>2, <2>3 DEF Look
<1>. QED BY <1>5, <1>9, <1>10, <1>11, <1>12

(* In a running scan a path goes from the roots to the list, to the batch, *)
(* and is taken off the reports where it is looked at.                     *)
LEMMA ScanReports ==
    ASSUME Inv, ReportsOK, UNCHANGED <<requests, coordinator>>, reported' \subseteq reported,
           \/ BeginScan \/ ListRoot \/ CompareSmart \/ CompareNothing \/ ParseBatch
           \/ \E q \in Paths : ToolReads(q)
    PROVE  ReportsOK'
<1> SUFFICES ASSUME NEW p \in reported', Look(p) PROVE Look(p)'
  BY HeldKept DEF ReportsOK
<1>1. /\ p \in scan.scope /\ p \in Paths
      /\ stage = "reconcile" => scan.roots = {}
      /\ \A r \in Roots : p \in Under({r}) <=> RootOf[p] = r
  <2>1. p \in scan.scope
    BY DEF Look
  <2>2. scan.scope \subseteq Paths
    BY JobFields DEF Inv
  <2>. QED BY <2>1, <2>2 DEF Inv, ScanOK, Under
<1>2. CASE BeginScan
  <2>1. stage = "queued" => RootOf[p] \in scan.roots
    BY <1>1 DEF Inv, ScanOK, Under
  <2>. QED BY <1>2, <2>1 DEF BeginScan, Look, locals
<1>3. CASE ListRoot
  <2>1. PICK r \in scan.roots :
          /\ scan' = [scan EXCEPT !.roots = @ \ {r}]
          /\ reported' = reported \ ((scan.scope \cap Under({r})) \ listed')
    BY <1>3 DEF ListRoot
  <2>2. scan \in ScanJob /\ r \in Roots
    BY <1>3, <2>1, JobFields DEF ListRoot, Running, Inv
  <2>3. scan'.scope = scan.scope /\ scan'.roots = scan.roots \ {r}
    BY <2>1, <2>2 DEF ScanJob
  <2>4. stage = "root" /\ stage' = "listed"
    BY <1>3 DEF ListRoot
  <2>5. RootOf[p] \in scan.roots
    BY <2>4 DEF Look
  <2>6. RootOf[p] = r => p \in listed'
    BY <1>1, <2>1, <2>2
  <2>. QED BY <1>1, <2>3, <2>4, <2>5, <2>6 DEF Look
<1>4. CASE CompareSmart
  <2>1. /\ stage = "listed" /\ scan' = scan /\ TakeBatch(listed \ Unchanged)
        /\ reported' = reported \ Unchanged
    BY <1>4 DEF CompareSmart
  <2>2. CASE RootOf[p] \in scan.roots
    BY <1>1, <2>1, <2>2 DEF Look
  <2>3. CASE p \in listed
    <3>1. p \in listed \ Unchanged
      BY <2>1, <2>3
    <3>2. stage' = "tool" /\ p \in waiting' \cup unread' /\ listed' = listed
      BY <1>4, <2>1, <3>1, BatchTaken DEF CompareSmart
    <3>. QED BY <1>1, <2>1, <2>3, <3>2 DEF Look
  <2>. QED BY <2>1, <2>2, <2>3 DEF Look
<1>5. CASE CompareNothing
  <2>1. stage = "listed" /\ scan' = scan /\ TakeBatch(scan.scope \cap Under({root}))
    BY <1>5 DEF CompareNothing
  <2>2. CASE RootOf[p] \in scan.roots
    BY <1>1, <2>1, <2>2 DEF Look
  <2>3. CASE p \in listed
    <3>1. p \in scan.scope \cap Under({root})
      BY <2>3 DEF Inv, ScanOK
    <3>2. stage' = "tool" /\ p \in waiting' \cup unread' /\ listed' = listed
      BY <1>5, <2>1, <3>1, BatchTaken DEF CompareNothing
    <3>. QED BY <1>1, <2>1, <2>3, <3>2 DEF Look
  <2>. QED BY <2>1, <2>2, <2>3 DEF Look
<1>6. CASE ParseBatch
  <2>1. stage = "tool" /\ scan' = scan /\ TakeBatch(waiting) /\ unread = {}
    BY <1>6 DEF ParseBatch
  <2>2. CASE RootOf[p] \in scan.roots
    BY <1>1, <2>1, <2>2 DEF Look
  <2>3. CASE p \in waiting /\ p \in listed
    <3>1. stage' = "tool" /\ p \in waiting' \cup unread' /\ listed' = listed
      BY <1>6, <2>1, <2>3, BatchTaken DEF ParseBatch
    <3>. QED BY <1>1, <2>1, <2>3, <3>1 DEF Look
  <2>. QED BY <2>1, <2>2, <2>3 DEF Look
<1>7. ASSUME NEW q \in Paths, ToolReads(q) PROVE Look(p)'
  <2>1. /\ UNCHANGED <<scan, stage, listed, waiting>>
        /\ unread' = unread \ {q} /\ reported' = reported \ ({q} \cap listed)
    BY <1>7 DEF ToolReads
  <2>2. p \in listed => p # q
    BY <2>1
  <2>. QED BY <2>1, <2>2 DEF Look
<1>. QED BY <1>2, <1>3, <1>4, <1>5, <1>6, <1>7

(* A scan that ends was to look at nothing any more, or takes the reports  *)
(* in its scope along.                                                     *)
LEMMA EndReports ==
    ASSUME Inv, ReportsOK, SucceedScan \/ FailScan
    PROVE  ReportsOK'
<1>1. UNCHANGED <<requests, coordinator>> /\ reported' \subseteq reported
  BY DEF SucceedScan, FailScan
<1>2. ASSUME NEW p \in reported' PROVE ~Look(p)
  <2>1. CASE SucceedScan
    BY <2>1 DEF SucceedScan, Look, Inv, ScanOK
  <2>2. CASE FailScan
    BY <1>2, <2>2 DEF FailScan, Look
  <2>. QED BY <2>1, <2>2
<1>. QED BY <1>1, <1>2, HeldKept DEF ReportsOK

(* A scan is made from a button only when there is none.                   *)
LEMMA ButtonReports ==
    ASSUME Inv, ReportsOK, UNCHANGED <<requests, coordinator, reported>>, scan = NoScan
    PROVE  ReportsOK'
<1>1. \A p : ~Look(p)
  BY DEF Look, NoScan
<1>. QED BY <1>1, HeldKept DEF ReportsOK

LEMMA ClaimReports ==
    ASSUME Inv, ReportsOK, ClaimRequest
    PROVE  ReportsOK'
<1>1. scan = NoScan /\ coordinator' = "claimed" /\ reported' = reported
  BY DEF ClaimRequest
<1>2. \A p : ~Look(p)
  BY <1>1 DEF Look, NoScan
<1>3. RequestsOK /\ ScanTyped
  BY DEF Inv
<1>4. /\ Len(requests') = Len(requests)
      /\ \A i \in 1 .. Len(requests) : requests'[i].key = requests[i].key
  BY <1>3, ClaimStep
<1>5. ASSUME NEW p, Held(p) PROVE Held(p)'
  <2>1. PICK i \in 1 .. Len(requests) : Covers(requests[i].key, p)
    BY <1>5 DEF Held
  <2>2. i \in 1 .. Len(requests') /\ Covers(requests'[i].key, p)
    BY <1>4, <2>1
  <2>. QED BY <1>1, <2>2 DEF Held, Covers, FileKey, Under, RootsOf
<1>. QED BY <1>1, <1>2, <1>5 DEF ReportsOK

LEMMA CompleteReports ==
    ASSUME Inv, ReportsOK, CompleteRequest
    PROVE  ReportsOK'
<1>1. /\ UNCHANGED <<scan, stage, listed, waiting, unread, reported>>
      /\ coordinator = "queued"
  BY DEF CompleteRequest, locals
<1>2. RequestsOK
  BY DEF Inv
<1>3. \A i \in 1 .. Len(requests) \ Claimed :
         \E j \in 1 .. Len(requests') : requests'[j] = requests[i]
  BY <1>2, CompleteStep
<1>4. ASSUME NEW p, Held(p) PROVE Held(p)'
  <2>1. PICK i \in 1 .. Len(requests) :
          Covers(requests[i].key, p) /\ requests[i].state = "pending"
    BY <1>1, <1>4 DEF Held
  <2>2. i \notin Claimed
    BY <2>1 DEF Claimed
  <2>3. PICK j \in 1 .. Len(requests') : requests'[j] = requests[i]
    BY <1>3, <2>2
  <2>. QED BY <2>1, <2>3 DEF Held, Covers, FileKey, Under, RootsOf
<1>. QED BY <1>1, <1>4, LookKept DEF ReportsOK

LEMMA CrashReports ==
    ASSUME Inv, ReportsOK, Crash
    PROVE  ReportsOK'
<1>1. RequestsOK /\ RecoverClaimedRequests
  BY DEF Inv, Crash
<1>2. /\ Len(requests') = Len(requests)
      /\ \A i \in 1 .. Len(requests) :
            requests'[i].key = requests[i].key /\ requests'[i].state = "pending"
  BY <1>1, RecoverStep
<1>3. ASSUME NEW p, Held(p) PROVE Held(p)'
  <2>1. PICK i \in 1 .. Len(requests) : Covers(requests[i].key, p)
    BY <1>3 DEF Held
  <2>2. /\ i \in 1 .. Len(requests') /\ Covers(requests'[i].key, p)
        /\ requests'[i].state = "pending"
    BY <1>2, <2>1
  <2>. QED BY <2>2 DEF Held, Covers, FileKey, Under, RootsOf
<1>4. CASE Running
  <2>1. \A p \in reported' : p \in reported /\ ~Look(p)
    BY <1>4 DEF Crash, Look
  <2>. QED BY <1>3, <2>1 DEF ReportsOK
<1>5. CASE ~Running
  <2>1. UNCHANGED <<scan, stage, listed, waiting, unread, reported>>
    BY <1>5 DEF Crash, locals
  <2>. QED BY <1>3, <2>1, LookKept DEF ReportsOK
<1>. QED BY <1>4, <1>5

LEMMA ScheduleReports ==
    ASSUME Inv, ReportsOK, ScheduleDue
    PROVE  ReportsOK'
<1>1. /\ UNCHANGED <<scan, stage, listed, waiting, unread, reported, coordinator>>
      /\ coordinator = "idle" /\ EnqueueScanRequest(SmartKey(AllRoots))
  BY DEF ScheduleDue, LoopFree, locals
<1>2. RequestsOK /\ SmartKey(AllRoots) \in Key
  BY Keys DEF Inv
<1>3. \A p : Held(p) => Held(p)'
  BY <1>1, <1>2, EnqueuedHolds
<1>. QED BY <1>1, <1>3, LookKept DEF ReportsOK

LEMMA ReconcileReports ==
    ASSUME Inv, ReportsOK, NEW r \in Roots, Reconcile(r)
    PROVE  ReportsOK'
<1>1. /\ UNCHANGED <<stage, listed, waiting, unread, reported, requests, coordinator>>
      /\ scan' = [scan EXCEPT !.unreconciled = @ \ {r}] /\ stage = "reconcile"
  BY DEF Reconcile, locals
<1>2. scan \in ScanJob
  BY <1>1, JobFields DEF Inv, Running
<1>3. scan'.scope = scan.scope /\ scan'.roots = scan.roots
  BY <1>1, <1>2 DEF ScanJob
<1>. QED BY <1>1, <1>3, LookKept, HeldKept DEF ReportsOK

LEMMA QuietReports ==
    ASSUME ReportsOK,
           UNCHANGED <<scan, stage, listed, waiting, unread, requests, coordinator, reported>>
    PROVE  ReportsOK'
BY LookKept, HeldKept DEF ReportsOK

LEMMA ReportsStep ==
    ASSUME DepthRight, Inv, ReportsOK, CallOK, [Next]_vars
    PROVE  ReportsOK'
<1>1. CASE UNCHANGED vars
  BY <1>1, QuietReports DEF vars, locals
<1>2. ASSUME NEW p \in Paths, Import(p) \/ Delete(p) \/ Recover(p) \/ Convert(p)
      PROVE  ReportsOK'
  BY <1>2, QuietReports DEF Import, Delete, Recover, Convert, locals
<1>3. ASSUME NEW paths, NEW type, Webhook(paths, type) PROVE ReportsOK'
  BY <1>3, QuietReports DEF Webhook, locals
<1>10. CASE Handler
  BY <1>10, WriteReports DEF Handler
<1>4. ASSUME NEW mode, NEW r, QueueManualScan(mode, r) \/ QueueCustomScan(mode, r)
      PROVE  ReportsOK'
  BY <1>4, ButtonReports DEF QueueManualScan, QueueCustomScan, CreateScan
<1>5. CASE ScheduleDue \/ ClaimRequest \/ Crash
  BY <1>5, ScheduleReports, ClaimReports, CrashReports
<1>6. CASE Coordinator
  BY <1>6, QueueReports, CompleteReports DEF Coordinator
<1>7. CASE \/ BeginScan \/ ListRoot \/ CompareSmart \/ CompareNothing \/ ParseBatch
           \/ \E q \in Paths : ToolReads(q)
  <2>1. UNCHANGED <<requests, coordinator>> /\ reported' \subseteq reported
    BY <1>7 DEF BeginScan, ListRoot, CompareSmart, CompareNothing, ParseBatch, ToolReads
  <2>. QED BY <1>7, <2>1, ScanReports
<1>8. CASE (\E r \in Roots : Reconcile(r)) \/ SucceedScan \/ FailScan
  BY <1>8, ReconcileReports, EndReports
<1>9. CASE Next
  BY <1>2, <1>3, <1>4, <1>5, <1>6, <1>7, <1>8, <1>9, <1>10 DEF Next, External, Worker
<1>. QED BY <1>1, <1>9

(* A file in a call of Radarr or Sonarr that was accepted and answered is  *)
(* never forgotten, across every interleaving and crash.  A wrong mapping, *)
(* or a tree deeper than the depth of scans, leads a scan elsewhere: the   *)
(* hypotheses exclude both.                                                *)
THEOREM ReportedHolds ==
    ASSUME MappingsRight, DepthRight
    PROVE  Spec => []ReportedCovered
<1>1. Init => ReportsOK /\ CallOK
  BY DEF Init, ReportsOK, CallOK, NoEvent
<1>2. Inv /\ ReportsOK /\ CallOK /\ [Next]_vars => ReportsOK' /\ CallOK'
  BY ReportsStep, CallStep
<1>3. ReportsOK => ReportedCovered
  <2>1. \A p : Look(p) => StillToLook(p)
    BY DEF Look, StillToLook
  <2>2. \A p : Held(p) => \E i \in 1 .. Len(requests) : Covers(requests[i].key, p)
    BY DEF Held
  <2>. QED BY <2>1, <2>2 DEF ReportsOK, ReportedCovered
<1>. QED BY InvInductive, <1>1, <1>2, <1>3, PTL DEF Spec

=============================================================================

------------------------------ MODULE Discovery ------------------------------
(***************************************************************************)
(* How a change on disk reaches the candidates table: Radarr and Sonarr    *)
(* report it, the report becomes a durable scan request, the automation    *)
(* coordinator turns requests into scan jobs one at a time, and the worker *)
(* compares the disk with the inventory, runs dovi_convert and reconciles  *)
(* inventory and candidates with what it found.                            *)
(*                                                                         *)
(* Files come and go at any instant of a scan, webhooks and users act      *)
(* whenever the event loop is free, dovi_convert fails and the process     *)
(* dies.  At most one scan is queued or running (UniqueActive of           *)
(* JobQueue), so the scan job is one variable.  What a scan queues when it *)
(* is done is the subject of AutoQueue.                                    *)
(***************************************************************************)
EXTENDS Naturals, Sequences, SequencesExt, FiniteSetsExt, WebhookMapping

CONSTANTS
    Paths,        \* MKV files
    Roots,        \* media roots
    RootOf,       \* the root a path lies under
    PartsOf,      \* its folders and its name below that root
    ExternalOf,   \* the path Radarr or Sonarr knows it by
    Mappings,     \* webhook_path_mappings, in the order they are listed
    ReadsAs,      \* the files whose name fits what dovi_convert prints for a file
    AllRoots,     \* the NULL of scan_requests.root_id
    BatchSize,    \* SMART_SCAN_BATCH_SIZE
    ScanDepth,    \* the setting full and smart scans walk to
    CustomWalks,  \* target, flag and depth of the custom scans users ask for
    MaxImports,   \* bound: files delivered
    MaxRequests,  \* bound: requests that wait when a new one is asked for
    MaxCrashes,   \* bound: process deaths
    Hazards       \* behaviours of the environment that are switched on

(* change_under_parse: a file is replaced after dovi_convert judged it and *)
(*   before its fingerprint is taken;                                      *)
(* recovery: a recovery brings an original back with its old fingerprint.  *)
ASSUME PathsAssumption ==
    /\ RootOf \in [Paths -> Roots]
    /\ AllRoots \notin Roots
    /\ PartsOf \in [Paths -> Seq(STRING)]
    /\ \A p \in Paths : Len(PartsOf[p]) > 0
    /\ ReadsAs \in [Paths -> SUBSET Paths]
    /\ \A p \in Paths : p \in ReadsAs[p]
    /\ ScanDepth \in 1 .. 20
    /\ CustomWalks \subseteq [target : Seq(STRING), recursive : BOOLEAN, depth : 1 .. 20]
ASSUME BoundsAssumption ==
    /\ BatchSize \in Nat \ {0}
    /\ MaxImports \in Nat
    /\ MaxRequests \in Nat
    /\ MaxCrashes \in Nat
ASSUME HazardsAssumption == Hazards \subseteq {"change_under_parse", "recovery"}

VARIABLES
    disk,         \* the file at each path
    inventory,    \* media_inventory: per path the scanned file and its verdict
    candidates,   \* candidates: per path [active, file]
    event,        \* the webhook call whose requests are not all written
    requests,     \* scan_requests that are not completed, oldest first
    coordinator,  \* where AutomationCoordinator.run_once is
    scan,         \* the queued or running scan job
    stage,        \* where the worker is in it
    root,         \* the root it scans now
    listed,       \* files the walk over that root found
    waiting,      \* files not handed to dovi_convert yet
    batch,        \* files handed to it
    unread,       \* those it has not judged yet
    verdicts,     \* what dovi_convert said of the others
    found,        \* results of the batches that are parsed
    removed,      \* inventory paths the walks did not find
    touched,      \* ghost: paths whose file changed since this scan began
    misjudged,    \* ghost: paths whose row holds a wrong verdict
    reported,     \* ghost: paths a webhook reported and no scan looked at since
    imports,      \* files delivered so far
    crashes       \* process deaths so far

tables == <<inventory, candidates>>
locals == <<root, listed, waiting, batch, unread, verdicts, found, removed>>
changes == <<touched, misjudged>>
vars == <<disk, tables, event, requests, coordinator, scan, stage, locals, changes, reported,
          imports, crashes>>

Form == {"absent", "mel", "other", "converted"}
Content == [version : 0 .. MaxImports, form : Form]
Absent == [version |-> 0, form |-> "absent"]

Row == [file : Content, mel : BOOLEAN]
NoRow == [file |-> Absent, mel |-> FALSE]
Result == [path : Paths, file : Content, mel : BOOLEAN]
Verdict == [path : Paths, mel : BOOLEAN]

(* request_key                                                             *)
FileKey(p) == [type |-> "file", root |-> RootOf[p], path |-> p]
SmartKey(r) == [type |-> "smart", root |-> r]
Key == {FileKey(p) : p \in Paths} \cup {SmartKey(r) : r \in Roots \cup {AllRoots}}
ScanRequest == [key : Key, state : {"pending", "claimed"}]

(* The accepted paths of a webhook call and the requests left to write.    *)
Event == [paths : SUBSET Paths, keys : SUBSET Key]
NoEvent == [paths |-> {}, keys |-> {}]

(* A scan job: its mode, how it walks, the paths it is about, the roots it *)
(* has not listed yet and those it has not reconciled yet.                 *)
ScanMode == {"full", "smart", "file", "custom"}
RootWalk == [target |-> <<>>, recursive |-> TRUE, depth |-> ScanDepth]
ScanJob == [mode : ScanMode, walk : CustomWalks \cup {RootWalk}, scope : SUBSET Paths,
            roots : SUBSET Roots, unreconciled : SUBSET Roots]
NoScan == [mode |-> "none", walk |-> RootWalk, scope |-> {}, roots |-> {}, unreconciled |-> {}]

Under(roots) == {p \in Paths : RootOf[p] \in roots}
RootsOf(r) == IF r = AllRoots THEN Roots ELSE {r}

(* The files a walk from each of the roots meets, if they are there.       *)
Met(walk, roots) ==
    {p \in Under(roots) : Walked(PartsOf[p], walk.target, walk.recursive, walk.depth)}

(* queued; root: between two roots; listed: the walk is back from its      *)
(* thread; tool: dovi_convert runs; reconcile: the synchronous tail.       *)
Stage == {"none", "queued", "root", "listed", "tool", "reconcile"}
Running == stage \notin {"none", "queued"}

(* Another coroutine may run: neither a webhook call nor run_once of the   *)
(* coordinator nor the tail of the scan is between two of its statements.  *)
LoopFree == event = NoEvent /\ coordinator = "idle" /\ stage # "reconcile"

NoLocals == <<AllRoots, {}, {}, {}, {}, {}, {}, {}>>

Init ==
    /\ disk = [p \in Paths |-> Absent]
    /\ inventory = [p \in Paths |-> NoRow]
    /\ candidates = [p \in Paths |-> [active |-> FALSE, file |-> Absent]]
    /\ event = NoEvent
    /\ requests = <<>>
    /\ coordinator = "idle"
    /\ scan = NoScan
    /\ stage = "none"
    /\ root = AllRoots
    /\ listed = {}
    /\ waiting = {}
    /\ batch = {}
    /\ unread = {}
    /\ verdicts = {}
    /\ found = {}
    /\ removed = {}
    /\ touched = {}
    /\ misjudged = {}
    /\ reported = {}
    /\ imports = 0
    /\ crashes = 0

-----------------------------------------------------------------------------
(* The files.                                                              *)

Judged(p) == \E v \in verdicts : v.path = p

(* A file that has the fingerprint its row still holds.                    *)
Returns(p, file) == file # Absent /\ file = inventory[p].file

Write(p, file) ==
    /\ Judged(p) => "change_under_parse" \in Hazards
    /\ disk' = [disk EXCEPT ![p] = file]
    /\ touched' = IF Running THEN touched \cup {p} ELSE touched
    /\ misjudged' = IF Returns(p, file) THEN misjudged \cup {p} ELSE misjudged

Import(p) ==
    /\ imports < MaxImports
    /\ imports' = imports + 1
    /\ \E form \in {"mel", "other"} : Write(p, [version |-> imports + 1, form |-> form])
    /\ UNCHANGED <<tables, event, requests, coordinator, scan, stage, locals, reported, crashes>>

Delete(p) ==
    /\ disk[p] # Absent
    /\ Write(p, Absent)
    /\ UNCHANGED <<tables, event, requests, coordinator, scan, stage, locals, reported, imports,
                   crashes>>

(* A conversion job replaces the file; the worker runs it, so no scan is   *)
(* running.  The job may still fail after that, and the candidate stays.   *)
Convert(p) ==
    /\ LoopFree
    /\ ~Running
    /\ candidates[p].active
    /\ disk[p] = candidates[p].file
    /\ Write(p, [disk[p] EXCEPT !.form = "converted"])
    /\ candidates' \in {candidates, [candidates EXCEPT ![p].active = FALSE]}
    /\ UNCHANGED <<inventory, event, requests, coordinator, scan, stage, locals, reported, imports,
                   crashes>>

(* A full recovery copies the original back, time stamps included.         *)
Recover(p) ==
    /\ "recovery" \in Hazards
    /\ LoopFree
    /\ ~Running
    /\ disk[p].form = "converted"
    /\ Write(p, [disk[p] EXCEPT !.form = "mel"])
    /\ UNCHANGED <<tables, event, requests, coordinator, scan, stage, locals, reported, imports,
                   crashes>>

-----------------------------------------------------------------------------
(* Operators marked "mutant" are variants with a planted bug; no action    *)
(* uses them, and each one breaks a property below.                        *)

(* Scan requests.  A partial unique index allows one pending or claimed    *)
(* request per key; a second one is answered with the first one's id.      *)
Requested(key) == \E i \in 1 .. Len(requests) : requests[i].key = key

EnqueueUnlessScanning(key) ==   \* mutant: relies on the scan that is running
    requests' = IF Requested(key) \/ Running
                THEN requests
                ELSE Append(requests, [key |-> key, state |-> "pending"])

EnqueueAlways(key) ==   \* mutant: no unique index
    requests' = Append(requests, [key |-> key, state |-> "pending"])

EnqueueScanRequest(key) ==
    requests' = IF Requested(key)
                THEN requests
                ELSE Append(requests, [key |-> key, state |-> "pending"])

RecoverNoRequest == UNCHANGED requests   \* mutant: claimed requests are forgotten

RecoverCompletesRequest ==   \* mutant: what was claimed counts as done
    requests' = SelectSeq(requests, LAMBDA request : request.state # "claimed")

RecoverClaimedRequests ==
    requests' = [i \in 1 .. Len(requests) |-> [requests[i] EXCEPT !.state = "pending"]]

(* The file a report is taken to be about: it must exist.                  *)
MappedFile(p) ==
    {q \in Paths :
        /\ disk[q] # Absent
        /\ [root |-> RootOf[q], parts |-> PartsOf[q]] \in MapExternalPath(Mappings, ExternalOf[p])}

(* A call names one file or several.  A path without a file is dropped if  *)
(* another one of the call has one; a call of which no path has one asks   *)
(* for a smart scan of everything.                                         *)
Webhook(paths, type) ==
    LET mapped == {p \in paths : MappedFile(p) # {}}
        files == UNION {MappedFile(p) : p \in mapped}
    IN
    /\ LoopFree
    /\ event' = IF mapped = {}
                THEN [paths |-> paths, keys |-> {SmartKey(AllRoots)}]
                ELSE [paths |-> mapped,
                      keys |-> IF type = "rename" THEN {SmartKey(RootOf[q]) : q \in files}
                                                  ELSE {FileKey(q) : q \in files}]
    /\ Len(requests) < MaxRequests \/ \A key \in event'.keys : Requested(key)
    /\ UNCHANGED <<disk, tables, requests, coordinator, scan, stage, locals, changes, reported,
                   imports, crashes>>

(* The handler has no await, but each request is a transaction of its own; *)
(* with the last one the call is answered.                                 *)
WriteRequest(key) ==
    /\ key \in event.keys
    /\ EnqueueScanRequest(key)
    /\ IF event.keys = {key}
       THEN event' = NoEvent /\ reported' = reported \cup event.paths
       ELSE event' = [event EXCEPT !.keys = @ \ {key}] /\ UNCHANGED reported
    /\ UNCHANGED <<disk, tables, coordinator, scan, stage, locals, changes, imports, crashes>>

-----------------------------------------------------------------------------
(* The coordinator: run_once has no await, but each statement on the       *)
(* tables is a transaction of its own and a crash can fall between two.    *)

ScanOf(mode, walk, scope, roots) ==
    [mode |-> mode, walk |-> walk, scope |-> scope, roots |-> roots, unreconciled |-> roots]

CreateScan(mode, walk, scope, roots) ==
    /\ scan = NoScan
    /\ scan' = ScanOf(mode, walk, scope, roots)
    /\ stage' = "queued"

ScheduleDue ==
    /\ LoopFree
    /\ Len(requests) < MaxRequests
    /\ EnqueueScanRequest(SmartKey(AllRoots))
    /\ UNCHANGED <<disk, tables, event, coordinator, scan, stage, locals, changes, reported,
                   imports, crashes>>

Claimed == {i \in 1 .. Len(requests) : requests[i].state = "claimed"}

ClaimRequest ==
    /\ LoopFree
    /\ scan = NoScan
    /\ \E i \in 1 .. Len(requests) :
          /\ requests[i].state = "pending"
          /\ \A j \in 1 .. i - 1 : requests[j].state # "pending"
          /\ requests' = [requests EXCEPT ![i].state = "claimed"]
    /\ coordinator' = "claimed"
    /\ UNCHANGED <<disk, tables, event, scan, stage, locals, changes, reported, imports, crashes>>

(* A file scan whose file is gone becomes a smart scan of its root.        *)
QueueScan ==
    /\ coordinator = "claimed"
    /\ \E i \in Claimed :
          LET key == requests[i].key IN
          \/ /\ key.type = "file"
             /\ disk[key.path] # Absent
             /\ CreateScan("file", RootWalk, {key.path}, {key.root})
             /\ UNCHANGED requests
          \/ /\ key.type = "file"
             /\ disk[key.path] = Absent
             /\ EnqueueScanRequest(SmartKey(key.root))
             /\ UNCHANGED <<scan, stage>>
          \/ /\ key.type = "smart"
             /\ CreateScan("smart", RootWalk, Met(RootWalk, RootsOf(key.root)), RootsOf(key.root))
             /\ UNCHANGED requests
    /\ coordinator' = "queued"
    /\ UNCHANGED <<disk, tables, event, locals, changes, reported, imports, crashes>>

CompleteRequest ==
    /\ coordinator = "queued"
    /\ \E i \in Claimed : requests' = RemoveAt(requests, i)
    /\ coordinator' = "idle"
    /\ UNCHANGED <<disk, tables, event, scan, stage, locals, changes, reported, imports, crashes>>

(* The scan buttons.                                                       *)
QueueManualScan(mode, r) ==
    /\ LoopFree
    /\ CreateScan(mode, RootWalk, Met(RootWalk, RootsOf(r)), RootsOf(r))
    /\ UNCHANGED <<disk, tables, event, requests, coordinator, locals, changes, reported, imports,
                   crashes>>

QueueCustomScan(walk, r) ==
    /\ LoopFree
    /\ CreateScan("custom", walk, Met(walk, {r}), {r})
    /\ UNCHANGED <<disk, tables, event, requests, coordinator, locals, changes, reported, imports,
                   crashes>>

-----------------------------------------------------------------------------
(* The worker.  A failing scan writes neither inventory nor candidates.    *)

BeginScan ==
    /\ LoopFree
    /\ stage = "queued"
    /\ stage' = "root"
    /\ touched' = {}
    /\ UNCHANGED <<disk, tables, event, requests, coordinator, scan, locals, misjudged, reported,
                   imports, crashes>>

(* The walk over the next root, in a thread.  A path it does not find has  *)
(* been looked at.                                                         *)
ListRoot ==
    /\ stage = "root"
    /\ \E r \in scan.roots :
          LET scope == scan.scope \cap Under({r}) IN
          /\ scan.mode = "file" => \A p \in scope : disk[p] # Absent
          /\ scan' = [scan EXCEPT !.roots = @ \ {r}]
          /\ root' = r
          /\ listed' = {p \in scope : disk[p] # Absent}
          /\ reported' = reported \ (scope \ listed')
    /\ stage' = "listed"
    /\ UNCHANGED <<disk, tables, event, requests, coordinator, waiting, batch, unread, verdicts,
                   found, removed, changes, imports, crashes>>

Batches(todo) ==
    IF scan.mode = "smart" /\ Cardinality(todo) > BatchSize
    THEN kSubset(BatchSize, todo)
    ELSE {todo}

TakeBatch(todo) ==
    IF todo = {}
    THEN /\ stage' = IF scan.roots = {} THEN "reconcile" ELSE "root"
         /\ batch' = {}
         /\ UNCHANGED <<waiting, unread>>
    ELSE \E next \in Batches(todo) :
            /\ stage' = "tool"
            /\ batch' = next
            /\ unread' = next
            /\ waiting' = todo \ next

(* What a smart scan compares: the fingerprint now with the inventory's.   *)
UnchangedByPath == {p \in listed : inventory[p] # NoRow}   \* mutant: new files only

Unchanged == {p \in listed : inventory[p].file = disk[p]}

MissingAnywhere == {p \in Paths \ listed : inventory[p] # NoRow}   \* mutant: forgets the root

Missing == {p \in Under({root}) \ listed : inventory[p] # NoRow}

(* A listed file that is gone makes stat() fail, and the scan with it.     *)
CompareSmart ==
    /\ stage = "listed"
    /\ scan.mode = "smart"
    /\ \A p \in listed : disk[p] # Absent
    /\ removed' = removed \cup Missing
    /\ reported' = reported \ Unchanged
    /\ TakeBatch(listed \ Unchanged)
    /\ UNCHANGED <<disk, tables, event, requests, coordinator, scan, root, listed, verdicts, found,
                   changes, imports, crashes>>

(* The other modes hand the directory, or the file, to dovi_convert.  A    *)
(* custom scan removes the rows in its scope that the walk did not meet.   *)
MissingInScope ==
    {p \in Under({root}) \ listed :
        /\ inventory[p] # NoRow
        /\ PathInScanScope(PartsOf[p], scan.walk.target, scan.walk.recursive, scan.walk.depth)}

CompareNothing ==
    /\ stage = "listed"
    /\ scan.mode # "smart"
    /\ removed' = IF scan.mode = "custom" THEN removed \cup MissingInScope ELSE removed
    /\ TakeBatch(scan.scope \cap Under({root}))
    /\ UNCHANGED <<disk, tables, event, requests, coordinator, scan, root, listed, verdicts, found,
                   changes, reported, imports, crashes>>

ToolReads(p) ==
    /\ p \in unread
    /\ unread' = unread \ {p}
    /\ verdicts' = IF disk[p] = Absent
                   THEN verdicts
                   ELSE verdicts \cup {[path |-> p, mel |-> disk[p].form = "mel"]}
    /\ reported' = reported \ ({p} \cap listed)
    /\ UNCHANGED <<disk, tables, event, requests, coordinator, scan, stage, root, listed, waiting,
                   batch, found, removed, changes, imports, crashes>>

(* dovi_convert prints a long name shortened.  A row is taken for the one  *)
(* file whose name fits, among the batch of a smart scan or all the walk   *)
(* met.                                                                    *)
Pool == IF scan.mode = "smart" THEN batch ELSE listed

TakenFor(verdict) == {q \in Pool : ReadsAs[verdict.path] \cap Pool = {q}}

RowsSkipped ==   \* mutant: whatever does not fit is skipped
    \A v \in verdicts : \A q \in TakenFor(v) : disk[q] # Absent

(* A row that fits no file, or several, is skipped, but a candidate's is a *)
(* ScanParseError, and so are two rows for one file; a file that is gone   *)
(* makes fingerprint() fail, which is taken now.                           *)
RowsUnderstood ==
    \A v \in verdicts :
        /\ v.mel => TakenFor(v) # {}
        /\ \A q \in TakenFor(v) : disk[q] # Absent
        /\ \A w \in verdicts \ {v} : TakenFor(v) \cap TakenFor(w) = {}

ParseBatch ==
    /\ stage = "tool"
    /\ unread = {}
    /\ RowsUnderstood
    /\ found' = found \cup {result \in Result :
                               /\ result.file = disk[result.path]
                               /\ \E v \in verdicts :
                                     result.path \in TakenFor(v) /\ result.mel = v.mel}
    /\ verdicts' = {}
    /\ TakeBatch(waiting)
    /\ UNCHANGED <<disk, tables, event, requests, coordinator, scan, root, listed, removed,
                   changes, reported, imports, crashes>>

ResultFor(r, p) == {result \in found : result.path = p /\ RootOf[p] = r}

Gone(r) ==
    {p \in Under({r}) :
        \/ p \in removed
        \/ scan.mode = "full" /\ ResultFor(r, p) = {} /\ inventory[p] # NoRow}

(* mutant: a result that is not a candidate leaves the old candidate       *)
ReconcileWithoutDeactivation(r) ==
    /\ inventory' = [p \in Paths |->
          IF ResultFor(r, p) # {}
          THEN LET result == CHOOSE x \in ResultFor(r, p) : TRUE
               IN  [file |-> result.file, mel |-> result.mel]
          ELSE IF p \in Gone(r) THEN NoRow ELSE inventory[p]]
    /\ candidates' = [p \in Paths |->
          IF \E result \in ResultFor(r, p) : result.mel
          THEN [active |-> TRUE, file |-> inventory'[p].file]
          ELSE candidates[p]]

(* reconcile_scan, a transaction per root                                  *)
ReconcileScan(r) ==
    /\ inventory' = [p \in Paths |->
          IF ResultFor(r, p) # {}
          THEN LET result == CHOOSE x \in ResultFor(r, p) : TRUE
               IN  [file |-> result.file, mel |-> result.mel]
          ELSE IF p \in Gone(r) THEN NoRow ELSE inventory[p]]
    /\ candidates' = [p \in Paths |->
          IF \E result \in ResultFor(r, p) : result.mel
          THEN [active |-> TRUE, file |-> inventory'[p].file]
          ELSE IF \/ ResultFor(r, p) # {}
                  \/ p \in Gone(r)
                  \/ scan.mode = "full" /\ RootOf[p] = r
          THEN [candidates[p] EXCEPT !.active = FALSE]
          ELSE candidates[p]]

Wrong(result) == result.mel # (result.file.form = "mel")

Reconcile(r) ==
    /\ stage = "reconcile"
    /\ r \in scan.unreconciled
    /\ scan' = [scan EXCEPT !.unreconciled = @ \ {r}]
    /\ ReconcileScan(r)
    /\ misjudged' = {p \in Paths :
                       \/ p \in misjudged /\ ResultFor(r, p) = {}
                       \/ \E result \in ResultFor(r, p) : Wrong(result)}
    /\ UNCHANGED <<disk, event, requests, coordinator, stage, locals, touched, reported, imports,
                   crashes>>

DropScan ==
    /\ scan' = NoScan
    /\ stage' = "none"
    /\ root' = AllRoots
    /\ listed' = {}
    /\ waiting' = {}
    /\ batch' = {}
    /\ unread' = {}
    /\ verdicts' = {}
    /\ found' = {}
    /\ removed' = {}
    /\ touched' = {}
    /\ UNCHANGED misjudged

SucceedScan ==
    /\ stage = "reconcile"
    /\ scan.unreconciled = {}
    /\ DropScan
    /\ UNCHANGED <<disk, tables, event, requests, coordinator, reported, imports, crashes>>

(* A path is gone, dovi_convert fails, its output is not understood.  The  *)
(* job log says so, and what the scan was asked to look at is dropped.     *)
FailScan ==
    /\ Running
    /\ DropScan
    /\ reported' = reported \ scan.scope
    /\ UNCHANGED <<disk, tables, event, requests, coordinator, imports, crashes>>

(* The process dies and starts again: a running scan has failed, a queued  *)
(* one and every request are still there.                                  *)
Crash ==
    /\ crashes < MaxCrashes
    /\ crashes' = crashes + 1
    /\ RecoverClaimedRequests
    /\ event' = NoEvent
    /\ coordinator' = "idle"
    /\ IF Running
       THEN DropScan /\ reported' = reported \ scan.scope
       ELSE UNCHANGED <<scan, stage, locals, changes, reported>>
    /\ UNCHANGED <<disk, tables, imports>>

-----------------------------------------------------------------------------
External ==
    \/ \E p \in Paths : Import(p) \/ Delete(p) \/ Recover(p) \/ Convert(p)
    \/ \E paths \in (SUBSET Paths) \ {{}}, type \in {"download", "rename"} : Webhook(paths, type)
    \/ \E mode \in {"full", "smart"}, r \in Roots \cup {AllRoots} : QueueManualScan(mode, r)
    \/ \E walk \in CustomWalks, r \in Roots : QueueCustomScan(walk, r)

Handler == \E key \in event.keys : WriteRequest(key)

Coordinator == QueueScan \/ CompleteRequest

Worker ==
    \/ BeginScan
    \/ ListRoot
    \/ CompareSmart
    \/ CompareNothing
    \/ \E p \in Paths : ToolReads(p)
    \/ ParseBatch
    \/ \E r \in Roots : Reconcile(r)
    \/ SucceedScan
    \/ FailScan

Next == External \/ Handler \/ ScheduleDue \/ ClaimRequest \/ Coordinator \/ Worker \/ Crash

(* What a handler or run_once has begun it finishes, and the worker's task *)
(* never stops.  The event loop resumes its tasks in turn, so webhook      *)
(* calls do not keep the worker from its next job for ever; the            *)
(* coordinator looks for a request every second and after every            *)
(* notification, so the scan button does not win for ever either.          *)
Fairness == WF_vars(Handler \/ Coordinator) /\ SF_vars(ClaimRequest) /\ SF_vars(Worker)

Spec == Init /\ [][Next]_vars
FairSpec == Spec /\ Fairness

-----------------------------------------------------------------------------
(* Values in range, one waiting or claimed request per key, a claimed one  *)
(* only in the coordinator's hands, and the worker's locals empty between  *)
(* scans.                                                                  *)
TypeOK ==
    /\ disk \in [Paths -> Content]
    /\ inventory \in [Paths -> Row]
    /\ candidates \in [Paths -> [active : BOOLEAN, file : Content]]
    /\ event \in Event
    /\ event.paths = {} <=> event.keys = {}
    /\ event # NoEvent => coordinator = "idle"
    /\ requests \in Seq(ScanRequest)
    /\ IsInjective([i \in DOMAIN requests |-> requests[i].key])
    /\ coordinator \in {"idle", "claimed", "queued"}
    /\ Cardinality(Claimed) = IF coordinator = "idle" THEN 0 ELSE 1
    /\ scan \in ScanJob \cup {NoScan}
    /\ stage \in Stage
    /\ stage = "none" <=> scan = NoScan
    /\ ~Running => locals = NoLocals
    /\ root \in Roots \cup {AllRoots}
    /\ listed \cup waiting \cup batch \cup removed \cup touched \cup misjudged \cup reported
          \subseteq Paths
    /\ unread \subseteq batch
    /\ verdicts \subseteq Verdict
    /\ found \subseteq Result
    /\ imports \in 0 .. MaxImports
    /\ crashes \in 0 .. MaxCrashes

(* A file in a webhook call that was accepted and answered is never        *)
(* forgotten: until a scan has looked at it after that, a request or an    *)
(* unfinished scan that is still to look at it exists.  Deduplicating a    *)
(* report against the request that waits, several files in one call,       *)
(* consuming the request before its scan has run, a fallback, a crash      *)
(* between any two transactions, or a mapping that leads to a file of the  *)
(* other root could each break this.  A path without a file beside one     *)
(* that has a file is not accepted: the call drops it.                     *)
Covers(key, p) == key = FileKey(p) \/ (key.type = "smart" /\ p \in Under(RootsOf(key.root)))
StillToLook(p) ==
    /\ p \in scan.scope
    /\ \/ stage = "queued"
       \/ RootOf[p] \in scan.roots
       \/ p \in listed \cup waiting \cup unread
ReportedCovered ==
    \A p \in reported :
        StillToLook(p) \/ \E i \in 1 .. Len(requests) : Covers(requests[i].key, p)

(* An active candidate is the inventory's row for its file: every way a    *)
(* row changes or goes (smart removal, full replacement, a verdict that    *)
(* turned) takes the candidate along.                                      *)
CandidateMatchesRow ==
    \A p \in Paths :
        candidates[p].active => inventory[p] = [file |-> candidates[p].file, mel |-> TRUE]

(* When a scan succeeds, inventory and candidates say what is on the disk  *)
(* for every path in its scope that nobody touched while it ran, and whose *)
(* row is not one of those that SmartScanDiscovers is about: no stale      *)
(* row, no missed file, no candidate that is not MEL and no MEL file that  *)
(* is not a candidate.  Only a file that is not MEL may keep an old row or *)
(* miss one, if dovi_convert shortens its name to one that fits another.   *)
Unclear == {p \in Paths : ReadsAs[p] # {p}}
TruthAbout(p) ==
    /\ inventory[p].file = disk[p]
    /\ candidates[p].active <=> disk[p].form = "mel"
    /\ candidates[p].active => candidates[p].file = disk[p]
ScanTellsTruth ==
    [][SucceedScan =>
          \A p \in scan.scope \ (touched \cup misjudged) :
              TruthAbout(p) \/ (p \in Unclear /\ disk[p].form # "mel")]_vars

(* A custom or file scan leaves the rows and candidates alone that its     *)
(* walk does not reach: path_in_scan_scope (worker_support.py:31), which   *)
(* removes, and inventory_media (scanner.py:36-55), which walks, draw the  *)
(* same line.                                                              *)
OutOfScopeKept ==
    [][scan.mode \in {"custom", "file"} =>
          \A p \in Paths \ scan.scope :
              stage = "reconcile" => UNCHANGED <<inventory[p], candidates[p]>>]_vars

(* The scans implement MediaIndex: readers of the tables see a root        *)
(* written at once, by a scan that runs, and truthfully where nobody       *)
(* touched the files; neither batches, failures nor crashes show.          *)
Phase == IF stage = "none" THEN "none" ELSE IF stage = "queued" THEN "asked" ELSE "running"
Index == INSTANCE MediaIndex WITH
    phase <- Phase,
    scope <- scan.scope,
    due <- scan.unreconciled,
    narrow <- scan.mode \in {"custom", "file"},
    Unclear <- Unclear

IndexSpec == Index!Spec

(* A report is dealt with at last: a scan looks at the file, or fails for  *)
(* everyone to see.                                                        *)
ReportsAreServed == \A p \in Paths : p \in reported ~> p \notin reported

(* settings.html:97, "Periodic Smart Scans discover new or replaced MKVs": *)
(* a smart scan that succeeds leaves no MEL file undiscovered that was in  *)
(* place all the time it ran.                                              *)
SmartScanDiscovers ==
    [][SucceedScan /\ scan.mode = "smart"
          => \A p \in scan.scope \ touched : disk[p].form = "mel" => candidates[p].active]_vars

=============================================================================

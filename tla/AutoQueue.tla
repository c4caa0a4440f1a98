------------------------------ MODULE AutoQueue ------------------------------
(***************************************************************************)
(* What a scan queues when it is done: a full inspection of a candidate    *)
(* not inspected before, and the conversion of a MEL candidate, at once or *)
(* behind a successful inspection.                                         *)
(*                                                                         *)
(* One movie file, hence at most one candidate, and the jobs about it; the *)
(* job table itself is the subject of JobQueue, the body of a scan that of *)
(* Discovery and the steps of a conversion, a recovery and a deletion that *)
(* of MovieFiles.  Here a scan judges the file in one step, and the tail   *)
(* of run_once, which has no await, is taken apart into its transactions:  *)
(* between two of them only the process can die or the file can change.    *)
(***************************************************************************)
EXTENDS Naturals, Sequences, FiniteSets

CONSTANTS
    Policies,     \* automation settings that are ever saved
    MaxImports,   \* bound: releases delivered
    MaxJobs,      \* bound: jobs that exist when a person queues one more
    MaxCrashes    \* bound: process deaths

(* The settings page saves the gate only with automatic queueing, and then *)
(* switches the inspection of MEL candidates on.                           *)
ASSUME PoliciesAssumption ==
    /\ Policies \subseteq SUBSET {"queue", "gate", "inspect_mel", "inspect_simple"}
    /\ {} \in Policies
    /\ \A policy \in Policies : "gate" \in policy => {"queue", "inspect_mel"} \subseteq policy
ASSUME BoundsAssumption == MaxImports \in Nat /\ MaxJobs \in Nat /\ MaxCrashes \in Nat

VARIABLES
    disk,        \* the movie file
    backup,      \* the full original that a conversion kept
    inventory,   \* the file of its media_inventory row
    candidate,   \* its candidates row: [active, file]
    policy,      \* automation settings
    jobs,        \* the jobs table; a job's id is its index
    current,     \* the running job, 0 if there is none
    stage,       \* where the worker is in it
    news,        \* ghost: what the running scan found differs from the inventory
    returned,    \* ghost: originals a recovery brought back, and no scan took up since
    imports,     \* releases delivered so far
    crashes      \* process deaths so far

files == <<disk, backup, returned>>
tables == <<inventory, candidate, policy>>
vars == <<files, tables, jobs, current, stage, news, imports, crashes>>

(* A fingerprint; converting a release gives the file a new one.           *)
Form == {"absent", "mel", "simple", "converted"}
Content == [version : 0 .. MaxImports, form : Form]
Absent == [version |-> 0, form |-> "absent"]

Kind == {"full", "smart", "inspect", "convert"}
ScanKind == {"full", "smart"}
JobState == {"queued", "running", "succeeded", "failed", "cancelled"}

(* file: the fingerprint the job is about; gate: payload carries           *)
(* follow_up_conversion (inspection) or comes from one (conversion).       *)
Job == [kind : Kind, file : Content, automatic : BOOLEAN, gate : BOOLEAN, state : JobState]
JobFor(kind, file, automatic, gate) ==
    [kind |-> kind, file |-> file, automatic |-> automatic, gate |-> gate, state |-> "queued"]

(* command: dovi_convert runs; inspect, convert and finish: the tail of a  *)
(* scan; follow_up: the tail of an inspection.                             *)
Stage == {"idle", "command", "inspect", "convert", "finish", "follow_up"}
LoopFree == stage \in {"idle", "command"}

Init ==
    /\ disk = Absent
    /\ backup = Absent
    /\ inventory = Absent
    /\ candidate = [active |-> FALSE, file |-> Absent]
    /\ policy = {}
    /\ jobs = <<>>
    /\ current = 0
    /\ stage = "idle"
    /\ news = FALSE
    /\ returned = {}
    /\ imports = 0
    /\ crashes = 0

-----------------------------------------------------------------------------
(* Files and settings.                                                     *)

(* The original that a recovery makes of an archive has a new fingerprint, *)
(* too.                                                                    *)
Import ==
    /\ imports < MaxImports
    /\ imports' = imports + 1
    /\ \E form \in {"mel", "simple"} : disk' = [version |-> imports + 1, form |-> form]
    /\ UNCHANGED <<backup, returned, tables, jobs, current, stage, news, crashes>>

Delete ==
    /\ disk # Absent
    /\ disk' = Absent
    /\ UNCHANGED <<backup, returned, tables, jobs, current, stage, news, imports, crashes>>

DeleteBackup ==
    /\ backup # Absent
    /\ backup' = Absent
    /\ UNCHANGED <<disk, returned, tables, jobs, current, stage, news, imports, crashes>>

(* The worker recovers a full original: it is copied with its time stamps, *)
(* whatever is in its place, and stays where it is.                        *)
Recover ==
    /\ stage = "idle"
    /\ backup # Absent
    /\ disk' = backup
    /\ returned' = returned \cup {backup}
    /\ UNCHANGED <<backup, tables, jobs, current, stage, news, imports, crashes>>

SaveSettings ==
    /\ LoopFree
    /\ policy' \in Policies \ {policy}
    /\ UNCHANGED <<files, inventory, candidate, jobs, current, stage, news, imports, crashes>>

-----------------------------------------------------------------------------
(* Operators marked "mutant" are variants with a planted bug; no action    *)
(* uses them, and each one breaks a property below.                        *)

Alike(kind, other) == kind = other \/ {kind, other} \subseteq ScanKind

Duplicate(kind) ==
    \E i \in 1 .. Len(jobs) : Alike(kind, jobs[i].kind) /\ jobs[i].state \in {"queued", "running"}

(* create_job; the worker ignores the ValueError of a duplicate.           *)
CreateJob(job) == ~Duplicate(job.kind) /\ jobs' = Append(jobs, job)
CreateOrDrop(job) == CreateJob(job) \/ (Duplicate(job.kind) /\ UNCHANGED jobs)

CandidateReady == candidate.active /\ disk = candidate.file

(* The buttons of the scan and candidate pages.                            *)
Submit(kind) ==
    /\ LoopFree
    /\ Len(jobs) < MaxJobs
    /\ kind \in ScanKind \/ CandidateReady
    /\ CreateJob(JobFor(kind, IF kind \in ScanKind THEN Absent ELSE candidate.file, FALSE, FALSE))
    /\ UNCHANGED <<files, tables, current, stage, news, imports, crashes>>

Finish(i, state) == jobs' = [jobs EXCEPT ![i].state = state]

Cancel(i) ==
    /\ LoopFree
    /\ jobs[i].state = "queued"
    /\ Finish(i, "cancelled")
    /\ UNCHANGED <<files, tables, current, stage, news, imports, crashes>>

ReleaseKeepsCurrent ==   \* mutant: the worker forgets that its job is over
    /\ UNCHANGED current
    /\ stage' = "idle"
    /\ news' = FALSE

Release ==
    /\ current' = 0
    /\ stage' = "idle"
    /\ news' = FALSE

-----------------------------------------------------------------------------
(* The worker.                                                             *)

(* The oldest queued job starts; an inspection or a conversion is about    *)
(* the file its job names, or fails at once.                               *)
Begin ==
    /\ stage = "idle"
    /\ \E i \in 1 .. Len(jobs) :
          /\ jobs[i].state = "queued"
          /\ \A j \in 1 .. i - 1 : jobs[j].state # "queued"
          /\ IF jobs[i].kind \in ScanKind \/ jobs[i].file = disk
             THEN Finish(i, "running") /\ current' = i /\ stage' = "command"
             ELSE Finish(i, "failed") /\ UNCHANGED <<current, stage>>
    /\ UNCHANGED <<files, tables, news, imports, crashes>>

FailJobThenFollowUp ==   \* mutant: a failed inspection opens the gate as well
    /\ stage \notin {"idle", "follow_up"}
    /\ Finish(current, "failed")
    /\ IF jobs[current].kind = "inspect" /\ jobs[current].gate
       THEN stage' = "follow_up" /\ UNCHANGED <<current, news>>
       ELSE Release
    /\ UNCHANGED <<files, tables, imports, crashes>>

(* A fault in the tail of a scan fails the scan; what it did stays.        *)
FailJob ==
    /\ stage \notin {"idle", "follow_up"}
    /\ Finish(current, "failed")
    /\ Release
    /\ UNCHANGED <<files, tables, imports, crashes>>

(* The candidates row after a scan that has judged the file.               *)
Judged ==
    IF disk.form \in {"mel", "simple"}
    THEN [active |-> TRUE, file |-> disk]
    ELSE [candidate EXCEPT !.active = FALSE]

ReconcileEveryFile ==   \* mutant: a smart scan judges known files again
    /\ stage = "command"
    /\ jobs[current].kind \in ScanKind
    /\ news' = (inventory # disk)
    /\ inventory' = disk
    /\ candidate' = Judged
    /\ stage' = IF candidate'.active THEN "inspect" ELSE "finish"
    /\ UNCHANGED <<files, policy, jobs, current, imports, crashes>>

(* A smart scan has no result for a file whose fingerprint is known; a     *)
(* full one judges whatever is there.                                      *)
ReconcileScan ==
    /\ stage = "command"
    /\ jobs[current].kind \in ScanKind
    /\ news' = (inventory # disk)
    /\ IF jobs[current].kind = "full" \/ inventory # disk
       THEN /\ inventory' = disk
            /\ candidate' = Judged
            /\ stage' = IF candidate'.active THEN "inspect" ELSE "finish"
       ELSE /\ stage' = "finish"
            /\ UNCHANGED <<inventory, candidate>>
    /\ UNCHANGED <<files, policy, jobs, current, imports, crashes>>

JobsFor(kind, file) == {i \in 1 .. Len(jobs) : jobs[i].kind = kind /\ jobs[i].file = file}

InspectionSucceeded(file) ==   \* mutant: counts inspections that succeeded only
    \E i \in JobsFor("inspect", file) : jobs[i].state = "succeeded"

InspectionExists(file) == JobsFor("inspect", file) # {}

ConversionActive(file) ==   \* mutant: remembers no failure
    \E i \in JobsFor("convert", file) : jobs[i].state \in {"queued", "running"}

ConversionFailed(file) == \E i \in JobsFor("convert", file) : jobs[i].state = "failed"

ConversionExists(file) == JobsFor("convert", file) # {}

AutoInspect(form) ==
    \/ form = "mel" /\ "inspect_mel" \in policy
    \/ form = "simple" /\ "inspect_simple" \in policy

AutoInspectCandidate ==
    /\ stage = "inspect"
    /\ IF AutoInspect(candidate.file.form) /\ ~InspectionExists(candidate.file)
       THEN CreateOrDrop(JobFor("inspect", candidate.file, TRUE,
                                "gate" \in policy /\ candidate.file.form = "mel"))
       ELSE UNCHANGED jobs
    /\ stage' = "convert"
    /\ UNCHANGED <<files, tables, current, news, imports, crashes>>

QueuesConversion(file) ==
    "queue" \in policy /\ "gate" \notin policy /\ file.form = "mel" /\ ~ConversionFailed(file)

AutoConvertCandidate ==
    /\ stage = "convert"
    /\ IF QueuesConversion(candidate.file)
       THEN CreateOrDrop(JobFor("convert", candidate.file, TRUE, FALSE))
       ELSE UNCHANGED jobs
    /\ stage' = "finish"
    /\ returned' = returned \ {candidate.file}
    /\ UNCHANGED <<disk, backup, tables, current, news, imports, crashes>>

SucceedScan ==
    /\ stage = "finish"
    /\ Finish(current, "succeeded")
    /\ Release
    /\ UNCHANGED <<files, tables, imports, crashes>>

(* The command ended well; whether the file is still the one it was to     *)
(* read is looked up before the job is closed.                             *)
SucceedInspection ==
    /\ stage = "command"
    /\ jobs[current].kind = "inspect"
    /\ Finish(current, "succeeded")
    /\ IF jobs[current].gate /\ disk = jobs[current].file
       THEN stage' = "follow_up" /\ UNCHANGED <<current, news>>
       ELSE Release
    /\ UNCHANGED <<files, tables, imports, crashes>>

(* The job is over, the worker still runs its follow-up.                   *)
FollowUpConversion ==
    /\ stage = "follow_up"
    /\ IF candidate = [active |-> TRUE, file |-> jobs[current].file]
          /\ ~ConversionExists(candidate.file)
       THEN CreateOrDrop(JobFor("convert", candidate.file, TRUE, TRUE))
       ELSE UNCHANGED jobs
    /\ Release
    /\ UNCHANGED <<files, tables, imports, crashes>>

(* A conversion fails while there is a full original; the one it makes is  *)
(* kept or, with the policy that keeps the archive only, removed.          *)
SucceedConversion ==
    /\ stage = "command"
    /\ jobs[current].kind = "convert"
    /\ disk = jobs[current].file
    /\ backup = Absent
    /\ backup' \in {disk, Absent}
    /\ disk' = [disk EXCEPT !.form = "converted"]
    /\ candidate' = [candidate EXCEPT !.active = FALSE]
    /\ Finish(current, "succeeded")
    /\ Release
    /\ UNCHANGED <<returned, inventory, policy, imports, crashes>>

Crash ==
    /\ crashes < MaxCrashes
    /\ crashes' = crashes + 1
    /\ jobs' = [i \in 1 .. Len(jobs) |->
                  IF jobs[i].state = "running"
                  THEN [jobs[i] EXCEPT !.state = "failed"]
                  ELSE jobs[i]]
    /\ Release
    /\ UNCHANGED <<files, tables, imports>>

-----------------------------------------------------------------------------
User == (\E kind \in Kind : Submit(kind)) \/ (\E i \in 1 .. Len(jobs) : Cancel(i)) \/ SaveSettings

Worker ==
    \/ Begin \/ FailJob
    \/ ReconcileScan \/ AutoInspectCandidate \/ AutoConvertCandidate \/ SucceedScan
    \/ SucceedInspection \/ FollowUpConversion
    \/ SucceedConversion

Next == Import \/ Delete \/ DeleteBackup \/ Recover \/ User \/ Worker \/ Crash

Spec == Init /\ [][Next]_vars

-----------------------------------------------------------------------------
(* Values in range; a running job is the current one, and the worker is    *)
(* past a job's end in the follow-up of an inspection only.                *)
TypeOK ==
    /\ {disk, backup, inventory, candidate.file} \cup returned \subseteq Content
    /\ candidate \in [active : BOOLEAN, file : Content]
    /\ policy \in Policies
    /\ jobs \in Seq(Job)
    /\ current \in 0 .. Len(jobs)
    /\ stage \in Stage
    /\ stage = "idle" <=> current = 0
    /\ \A i \in 1 .. Len(jobs) :
          jobs[i].state = "running" <=> i = current /\ stage # "follow_up"
    /\ news \in BOOLEAN
    /\ imports \in 0 .. MaxImports
    /\ crashes \in 0 .. MaxCrashes

(* settings.html:88, "once for each new file fingerprint": automation      *)
(* never inspects what was inspected, or was to be inspected, before,      *)
(* whoever asked for it and however it ended.                              *)
InspectedOnce ==
    \A j \in 1 .. Len(jobs) :
        jobs[j].kind = "inspect" /\ jobs[j].automatic
            => \A i \in JobsFor("inspect", jobs[j].file) : i >= j

(* A conversion that failed, or that a crash cut short, is not tried again *)
(* by automation on the same file, neither by the next scan nor by an      *)
(* inspection that succeeds later.                                         *)
NoAutomaticRetry ==
    \A j \in 1 .. Len(jobs) :
        jobs[j].kind = "convert" /\ jobs[j].automatic
            => \A i \in JobsFor("convert", jobs[j].file) : i < j => jobs[i].state # "failed"

ConversionBehindGate ==
    Len(jobs') > Len(jobs) /\ jobs'[Len(jobs')].kind = "convert" /\ jobs'[Len(jobs')].gate
        => LET file == jobs'[Len(jobs')].file IN
           /\ file.form = "mel"
           /\ candidate = [active |-> TRUE, file |-> file]
           /\ \E i \in JobsFor("inspect", file) : jobs[i].state = "succeeded"

(* settings.html:61, "The automatic MEL conversion is created only when    *)
(* that inspection succeeds": whatever is saved, cancelled, replaced or    *)
(* restarted meanwhile, a gated conversion is created for the active MEL   *)
(* candidate and after an inspection of this very file that succeeded.     *)
GateHonoured == [][ConversionBehindGate]_vars

ConversionOfNews ==
    AutoConvertCandidate /\ Len(jobs') > Len(jobs) /\ jobs[current].kind = "smart"
        => JobsFor("convert", candidate.file) = {} \/ candidate.file \in returned

(* settings.html:52, "Queue only newly discovered or changed MEL           *)
(* candidates after successful scans": whatever became of the conversion   *)
(* of a file, a smart scan does not ask for it again; a file it has no     *)
(* news of stays as the person who cancelled or a full scan left it.  An   *)
(* original that a recovery brings back in the place of its converted file *)
(* is news to the scan, which knows it by its fingerprint: once for each   *)
(* recovery, the conversion just undone is asked for again.                *)
SmartScanAsksOnce == [][ConversionOfNews]_vars

(* settings.html:52, "After a successful scan, automatically queues        *)
(* conversion only for newly found or changed MEL candidates": those it    *)
(* does queue, unless the conversion of this very file failed before.      *)
ChangedIsQueued ==
    [][SucceedScan /\ news /\ candidate.active /\ QueuesConversion(candidate.file)
          => \E i \in JobsFor("convert", candidate.file) : jobs[i].state = "queued"]_vars

=============================================================================

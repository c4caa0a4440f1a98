----------------------------- MODULE MovieFiles -----------------------------
(***************************************************************************)
(* One movie of the library: the MKV, the two kinds of backup beside it,   *)
(* the temporary names a recovery uses, and the jobs that rewrite them.    *)
(*                                                                         *)
(* Jobs are approved in the web interface with a snapshot of what the      *)
(* handler found, wait in the queue (JobQueue shows it is serial and in    *)
(* order), and are executed by the worker, which compares the snapshot     *)
(* with the disk.  The handlers that recover and delete backups look at    *)
(* the disk in a thread first, and decide on what it saw.  Meanwhile the   *)
(* worker goes on, the user approves other jobs, Radarr or Sonarr replace  *)
(* or remove the MKV, dovi_convert fails at any point, the process dies.   *)
(*                                                                         *)
(* A content stands for its fingerprint (size, mtime_ns) as well as for    *)
(* its bytes: release number and form.  shutil.copy2 keeps both, so a      *)
(* full recovery brings the original's fingerprint back.  Different        *)
(* releases are taken to differ in size.  A "mixed" movie is what comes of *)
(* an archive applied to a movie it was not made from; a scan does not     *)
(* take it for Profile 7.                                                  *)
(***************************************************************************)
EXTENDS Naturals, Sequences

CONSTANTS
    Handlers,       \* requests about backups that may be served at one time
    MaxGen,         \* bound: releases Radarr delivers
    MaxPending,     \* bound: queued jobs
    MaxApprovals,   \* bound: jobs ever approved
    MaxCrashes,     \* bound: process deaths
    Hazards         \* behaviours of the environment that are switched on

(* concurrent_deletions: a deletion is approved while another one is       *)
(*   queued or running;                                                    *)
(* stale_count: a deletion is approved although the movie or a backup has  *)
(*   gone or changed since the handler looked, or is about to go;          *)
(* partial_archive: dovi_convert dies while it writes the .dovi file;      *)
(* empty_output: dovi_convert exits 0 with an empty MKV;                   *)
(* stale_archive: the user counts a .dovi file of an earlier release among *)
(*   the recovery sources that remain after a deletion;                    *)
(* external_in_conversion: Radarr writes the MKV while dovi_convert works  *)
(*   on it;                                                                *)
(* external_in_restore: Radarr writes the MKV after the last check of a    *)
(*   recovery.                                                             *)
HazardNames ==
    {"concurrent_deletions", "stale_count", "partial_archive", "empty_output", "stale_archive",
     "external_in_conversion", "external_in_restore"}

ASSUME BoundsAssumption ==
    /\ MaxGen \in Nat \ {0}
    /\ MaxPending \in Nat \ {0}
    /\ MaxApprovals \in Nat
    /\ MaxCrashes \in Nat
ASSUME HazardsAssumption == Hazards \subseteq HazardNames

VARIABLES
    mkv,        \* Movie.mkv
    bak,        \* Movie.mkv.bak.dovi_convert, the full original
    archive,    \* Movie.dovi, the compact recovery archive
    restored,   \* Movie.restored.mkv, what dovi_convert restore writes
    staged,     \* .Movie.mkv.restore-<id>.tmp of the running job
    tombstone,  \* .Movie.dovi.restore-<id>.pending-delete of the running job
    candidate,  \* the candidates row: [active, file]
    views,      \* per request, what the thread that looks at the disk has seen
    pending,    \* queued jobs, oldest first
    job,        \* the running job
    pc,         \* where the worker is in it
    seen,       \* the MKV as the worker, or the tool it runs, last read it
    found,      \* backups a deletion job discovered
    gen,        \* newest release so far
    waived,     \* releases given up by Radarr or by an acknowledged deletion
    deletionApproved,  \* releases for which some deletion was approved
    overwritten,       \* ghost: releases a recovery replaced after its last check
    misled,     \* ghost: the count behind a deletion was not what it seemed
    approvals,  \* jobs approved so far
    crashes     \* process deaths so far

disk == <<mkv, bak, archive, restored, staged, tombstone>>
worker == <<job, pc, seen, found>>
history == <<gen, waived, deletionApproved, overwritten, misled>>
counters == <<approvals, crashes>>
vars == <<disk, candidate, views, pending, worker, history, counters>>

Absent == [gen |-> 0, form |-> "absent"]
Profile7 == {"original", "rebuilt"}
Form == Profile7 \cup {"absent", "converted", "mixed", "empty", "archive", "partial"}
Content == [gen : 0 .. MaxGen, form : Form]
Of(g, form) == [gen |-> g, form |-> form]

BackupMode == {"full_only", "both", "compact_only"}
BackupKind == {"full", "compact"}
Pick == [kind : BackupKind, file : Content]

(* What a look has found: the backup of each kind, and the kinds whose     *)
(* movie was there when their backup was found.                            *)
View == [phase : {"none", "half", "whole"}, files : [BackupKind -> Content],
         beside : SUBSET BackupKind]
NoView == [phase |-> "none", files |-> [k \in BackupKind |-> Absent], beside |-> {}]

NoJob == [kind |-> "none"]
Job ==
    [kind : {"convert"}, file : Content, mode : BackupMode]
    \cup [kind : {"recovery_backup"}, file : Content]
    \cup [kind : {"recovery_restore"}, recovery_kind : BackupKind,
          source : Content, current : Content, compact : Content]
    \cup [kind : {"backup_delete"}, picks : SUBSET Pick]

(* idle; settling: the stability wait; archiving, converting, swapping,    *)
(* rebuilding: dovi_convert runs; exited: it has done its work and exits   *)
(* with 0; accepted: the conversion passed its checks; copying: copy2 runs  *)
(* in a thread;                                                            *)
(* discovering, deleting: the two halves of a deletion; hide, replace,     *)
(* unlink: the installation of a recovered MKV.                            *)
PC == {"idle", "settling", "archiving", "converting", "swapping", "rebuilding", "exited",
       "accepted", "copying", "discovering", "deleting", "hide", "replace", "unlink"}

(* The other stretches of a job run without another coroutine.             *)
AtAwait == pc \in {"idle", "settling", "archiving", "converting", "swapping", "rebuilding",
                   "exited", "copying", "discovering"}

(* Operators marked "mutant" are variants with a planted bug; no action    *)
(* uses them, and each one breaks a property below.                        *)

ActiveJobs == {pending[i] : i \in 1 .. Len(pending)} \cup {job}

Init ==
    /\ mkv = Of(1, "original")
    /\ bak = Absent
    /\ archive = Absent
    /\ restored = Absent
    /\ staged = Absent
    /\ tombstone = Absent
    /\ candidate = [active |-> FALSE, file |-> Absent]
    /\ views = [h \in Handlers |-> NoView]
    /\ pending = <<>>
    /\ job = NoJob
    /\ pc = "idle"
    /\ seen = Absent
    /\ found = {}
    /\ gen = 1
    /\ waived = {}
    /\ deletionApproved = {}
    /\ overwritten = {}
    /\ misled = FALSE
    /\ approvals = 0
    /\ crashes = 0

-----------------------------------------------------------------------------
(* Approvals: a handler validates what it sees and queues a snapshot.      *)

Enqueue(j) ==
    /\ AtAwait
    /\ Len(pending) < MaxPending
    /\ approvals < MaxApprovals
    /\ pending' = Append(pending, j)
    /\ approvals' = approvals + 1
    /\ UNCHANGED <<disk, candidate, worker, gen, overwritten, crashes>>

(* Shared by every job on a candidate: it is active, the file on disk has  *)
(* the scanned fingerprint, and create_job finds no active duplicate.      *)
CandidateReady(kind) ==
    /\ candidate.active
    /\ mkv # Absent
    /\ mkv = candidate.file
    /\ \A j \in ActiveJobs : j.kind # kind

ApproveConvert(mode) ==
    /\ CandidateReady("convert")
    /\ Enqueue([kind |-> "convert", file |-> candidate.file, mode |-> mode])
    /\ UNCHANGED <<views, waived, deletionApproved, misled>>

ApproveRecoveryBackup ==
    /\ CandidateReady("recovery_backup")
    /\ archive = Absent
    /\ Enqueue([kind |-> "recovery_backup", file |-> candidate.file])
    /\ UNCHANGED <<views, waived, deletionApproved, misled>>

Artifact(kind) == IF kind = "full" THEN bak ELSE archive

(* The thread of a request walks the library for full backups and again    *)
(* for archives, while everything else goes on.                            *)
LookForFull(h) ==
    /\ views[h].phase = "none"
    /\ approvals < MaxApprovals
    /\ views' = [views EXCEPT ![h] =
                   [phase |-> "half",
                    files |-> [k \in BackupKind |-> IF k = "full" THEN bak ELSE Absent],
                    beside |-> {k \in {"full"} : mkv # Absent}]]
    /\ UNCHANGED <<disk, candidate, pending, worker, history, counters>>

LookForArchive(h) ==
    /\ views[h].phase = "half"
    /\ views' = [views EXCEPT ![h] =
                   [phase |-> "whole",
                    files |-> [views[h].files EXCEPT !["compact"] = archive],
                    beside |-> views[h].beside \cup {k \in {"compact"} : mkv # Absent}]]
    /\ UNCHANGED <<disk, candidate, pending, worker, history, counters>>

(* The request ends with a page or a refusal.                              *)
EndLook(h) ==
    /\ views[h].phase = "whole"
    /\ views' = [views EXCEPT ![h] = NoView]
    /\ UNCHANGED <<disk, candidate, pending, worker, history, counters>>

Seen(h) == {k \in BackupKind : views[h].files[k] # Absent}

(* As the README asks, an archive is applied to the movie it was made from.*)
MadeFrom(source, movie) == movie = Of(source.gen, "converted")

(* What a recovery replaces is given up when it is another release than    *)
(* the source; both are when the archive was not made from the movie.      *)
GivesUp(kind, source) ==
    IF kind = "compact" /\ ~MadeFrom(source, mkv)
    THEN {mkv.gen, source.gen}
    ELSE {mkv.gen} \ {source.gen}

(* The archive and its movie must have been there when the thread looked;  *)
(* the MKV to be replaced is the one that is there now.                    *)
ApproveRestore(h, kind) ==
    LET source == views[h].files[kind]
    IN  /\ views[h].phase = "whole"
        /\ kind \in Seen(h)
        /\ kind = "compact" => source.form = "archive" /\ "compact" \in views[h].beside
        /\ Enqueue([kind |-> "recovery_restore", recovery_kind |-> kind,
                    source |-> source, current |-> mkv, compact |-> views[h].files["compact"]])
        /\ views' = [views EXCEPT ![h] = NoView]
        /\ waived' = waived \cup (GivesUp(kind, source) \ {0})
        /\ UNCHANGED <<deletionApproved, misled>>

(* Retention and its override both require the converted counterpart.  The *)
(* extra acknowledgement is asked for when, as the thread counted, no      *)
(* recovery source remains.                                                *)
NeedsAcknowledgementForBothOnly(h, kinds) ==   \* mutant: asks only for two
    kinds = BackupKind

NeedsAcknowledgement(h, kinds) == Seen(h) \ kinds = {}

DeletionUnderWay == \E j \in ActiveJobs : j.kind = "backup_delete"

PresentKinds == {k \in BackupKind : Artifact(k) # Absent}

(* What the thread saw has gone or changed since, or goes when the running *)
(* conversion ends, which keeps its archive only.                          *)
StaleCount(h) ==
    \/ mkv = Absent
    \/ \E k \in Seen(h) : views[h].files[k] # Artifact(k)
    \/ "full" \in Seen(h) /\ job.kind = "convert" /\ job.mode = "compact_only"

(* One counted as remaining is no source for what is deleted.              *)
CountsOther(h, kinds) ==
    \E k \in Seen(h) \ kinds : \/ views[h].files[k].form = "partial"
                               \/ \E d \in kinds : views[h].files[d].gen # views[h].files[k].gen

ApproveDelete(h, kinds) ==
    LET files == views[h].files
    IN  /\ views[h].phase = "whole"
        /\ kinds # {}
        /\ kinds \subseteq Seen(h) \cap views[h].beside
        /\ DeletionUnderWay => "concurrent_deletions" \in Hazards
        /\ StaleCount(h) => "stale_count" \in Hazards
        /\ files["compact"].gen \notin {0, mkv.gen} => "stale_archive" \in Hazards
        /\ Enqueue([kind |-> "backup_delete",
                    picks |-> {[kind |-> k, file |-> files[k]] : k \in kinds}])
        /\ views' = [views EXCEPT ![h] = NoView]
        /\ deletionApproved' = deletionApproved \cup {files[k].gen : k \in kinds}
        /\ waived' = IF NeedsAcknowledgement(h, kinds)
                     THEN waived \cup {files[k].gen : k \in kinds}
                     ELSE waived
        /\ misled' = (misled \/ DeletionUnderWay \/ StaleCount(h)
                             \/ CountsOther(h, kinds))

RemoveAt(s, i) == SubSeq(s, 1, i - 1) \o SubSeq(s, i + 1, Len(s))

CancelQueuedJob(i) ==
    /\ AtAwait
    /\ pending' = RemoveAt(pending, i)
    /\ UNCHANGED <<disk, candidate, views, worker, history, counters>>

-----------------------------------------------------------------------------
(* Radarr and Sonarr.  They do not write in the instant between the two    *)
(* renames of dovi_convert.                                                *)

RestoreUnchecked ==
    /\ job.kind = "recovery_restore"
    /\ pc # "settling" \/ job.current = Absent

ExternalMayWrite ==
    /\ pc # "swapping"
    /\ pc \in {"archiving", "converting"} => "external_in_conversion" \in Hazards
    /\ RestoreUnchecked => "external_in_restore" \in Hazards

ImportRelease ==
    /\ ExternalMayWrite
    /\ gen < MaxGen
    /\ gen' = gen + 1
    /\ mkv' = Of(gen + 1, "original")
    /\ waived' = waived \cup 1 .. gen
    /\ UNCHANGED <<bak, archive, restored, staged, tombstone, candidate, views, pending,
                   worker, deletionApproved, overwritten, misled, counters>>

RemoveRelease ==
    /\ ExternalMayWrite
    /\ mkv # Absent
    /\ mkv' = Absent
    /\ waived' = waived \cup {mkv.gen}
    /\ UNCHANGED <<bak, archive, restored, staged, tombstone, candidate, views, pending,
                   worker, gen, deletionApproved, overwritten, misled, counters>>

-----------------------------------------------------------------------------
(* The worker, between jobs: a scan lists the movie again.                 *)

Scan ==
    /\ pc = "idle"
    /\ candidate' = IF mkv.form \in Profile7
                    THEN [active |-> TRUE, file |-> mkv]
                    ELSE [candidate EXCEPT !.active = FALSE]
    /\ UNCHANGED <<disk, pending, worker, history, views, counters>>

TakeJob ==
    /\ pc = "idle"
    /\ pending # <<>>
    /\ pending' = Tail(pending)

EndJob ==
    /\ job' = NoJob
    /\ pc' = "idle"
    /\ seen' = Absent
    /\ found' = {}

(* dovi_convert failed, the shutdown interrupted it, or a call raised; a   *)
(* tool that dies while writing may leave a partial file behind.           *)
JobFails ==
    /\ pc \in {"settling", "archiving", "converting", "swapping", "rebuilding", "exited",
               "copying", "discovering", "deleting"}
    /\ EndJob
    /\ staged' = Absent
    /\ \/ UNCHANGED <<archive, restored>>
       \/ /\ pc = "archiving"
          /\ "partial_archive" \in Hazards
          /\ archive' = Of(seen.gen, "partial")
          /\ UNCHANGED restored
       \/ /\ pc = "rebuilding"
          /\ restored' = Of(seen.gen, "partial")
          /\ UNCHANGED archive
    /\ UNCHANGED <<mkv, bak, tombstone, candidate, pending, history, views, counters>>

-----------------------------------------------------------------------------
(* Conversion and recovery-archive creation.                               *)

WantsArchive(j) == j.kind = "recovery_backup" \/ j.mode # "full_only"

ConvertChecksWithoutBackup(j) ==   \* mutant: ignores an existing backup
    /\ mkv = j.file
    /\ j.mode # "full_only" => archive.form # "partial"

ConvertChecks(j) ==
    /\ mkv = j.file
    /\ bak = Absent
    /\ j.mode # "full_only" => archive.form # "partial"

ArchiveChecks(j) == mkv = j.file /\ archive = Absent

BeginConvert ==
    /\ TakeJob
    /\ Head(pending).kind = "convert"
    /\ IF ConvertChecks(Head(pending))
       THEN /\ job' = Head(pending)
            /\ pc' = "settling"
            /\ seen' = mkv
            /\ UNCHANGED found
       ELSE UNCHANGED worker
    /\ UNCHANGED <<disk, candidate, history, views, counters>>

FileStillThere == mkv # Absent   \* mutant: no comparison after the wait

(* The stability wait is over: the MKV must be what it was before it.      *)
FileStable == mkv # Absent /\ mkv = seen

StartConversion ==
    /\ pc = "settling"
    /\ job.kind = "convert"
    /\ FileStable
    /\ pc' = IF WantsArchive(job) THEN "archiving" ELSE "converting"
    /\ seen' = mkv
    /\ UNCHANGED <<disk, candidate, pending, job, found, history, views, counters>>

BeginRecoveryBackup ==
    /\ TakeJob
    /\ Head(pending).kind = "recovery_backup"
    /\ IF ArchiveChecks(Head(pending))
       THEN /\ job' = Head(pending)
            /\ pc' = "archiving"
            /\ seen' = mkv
            /\ UNCHANGED found
       ELSE UNCHANGED worker
    /\ UNCHANGED <<disk, candidate, history, views, counters>>

ToolWritesArchive ==
    /\ pc = "archiving"
    /\ archive' = Of(seen.gen, "archive")
    /\ pc' = IF job.kind = "convert" THEN "converting" ELSE "exited"
    /\ UNCHANGED <<mkv, bak, restored, staged, tombstone, candidate, pending, job, seen, found,
                   history, views, counters>>

ToolMovesOriginal ==
    /\ pc = "converting"
    /\ mkv # Absent
    /\ bak' = mkv
    /\ mkv' = Absent
    /\ pc' = "swapping"
    /\ UNCHANGED <<archive, restored, staged, tombstone, candidate, pending, job, seen, found,
                   history, views, counters>>

ToolMovesOutput ==
    /\ pc = "swapping"
    /\ \/ mkv' = Of(seen.gen, "converted")
       \/ "empty_output" \in Hazards /\ mkv' = Of(seen.gen, "empty")
    /\ pc' = "exited"
    /\ UNCHANGED <<bak, archive, restored, staged, tombstone, candidate, pending, job, seen, found,
                   history, views, counters>>

EndRecoveryBackup ==
    /\ pc = "exited"
    /\ job.kind = "recovery_backup"
    /\ EndJob
    /\ UNCHANGED <<disk, candidate, pending, history, views, counters>>

ConversionValidAnyBackup ==   \* mutant: the backup's size is not compared
    /\ mkv.form \notin {"absent", "empty"}
    /\ bak # Absent
    /\ job.mode # "full_only" => archive.form = "archive"

(* The checks after exit code 0; the backup is compared by size.           *)
ConversionValid ==
    /\ mkv.form \notin {"absent", "empty"}
    /\ bak # Absent
    /\ bak.gen = job.file.gen
    /\ job.mode # "full_only" => archive.form = "archive"

AcceptConversion ==
    /\ pc = "exited"
    /\ job.kind = "convert"
    /\ ConversionValid
    /\ bak' = IF job.mode = "compact_only" THEN Absent ELSE bak
    /\ pc' = "accepted"
    /\ UNCHANGED <<mkv, archive, restored, staged, tombstone, candidate, pending, job, seen, found,
                   history, views, counters>>

(* Removing the full original raised: it stays, the candidate goes.        *)
CompactCleanupFails ==
    /\ pc = "exited"
    /\ job.kind = "convert"
    /\ ConversionValid
    /\ job.mode = "compact_only"
    /\ candidate' = [candidate EXCEPT !.active = FALSE]
    /\ EndJob
    /\ UNCHANGED <<disk, pending, history, views, counters>>

DeactivateCandidate ==
    /\ pc = "accepted"
    /\ candidate' = [candidate EXCEPT !.active = FALSE]
    /\ EndJob
    /\ UNCHANGED <<disk, pending, history, views, counters>>

-----------------------------------------------------------------------------
(* Recovery.                                                               *)

RestoreChecks(j) ==
    /\ Artifact(j.recovery_kind) = j.source
    /\ mkv = j.current
    /\ j.compact # Absent => archive = j.compact
    /\ j.recovery_kind = "compact" => archive.form = "archive" /\ j.current # Absent

BeginRestore ==
    /\ TakeJob
    /\ Head(pending).kind = "recovery_restore"
    /\ IF RestoreChecks(Head(pending))
       THEN /\ job' = Head(pending)
            /\ pc' = "settling"
            /\ UNCHANGED <<seen, found>>
       ELSE UNCHANGED worker
    /\ UNCHANGED <<disk, candidate, history, views, counters>>

RestoreRechecksSourceOnly ==   \* mutant: the target is not compared again
    /\ Artifact(job.recovery_kind) = job.source
    /\ job.recovery_kind = "compact" => restored = Absent

(* After the wait the source is compared again, and so is the MKV when     *)
(* there was one to compare with.                                          *)
RestoreRechecks ==
    /\ Artifact(job.recovery_kind) = job.source
    /\ job.current # Absent => mkv = job.current
    /\ job.recovery_kind = "compact" => restored = Absent

StartRestore ==
    /\ pc = "settling"
    /\ job.kind = "recovery_restore"
    /\ RestoreRechecks
    /\ pc' = IF job.recovery_kind = "full" THEN "copying" ELSE "rebuilding"
    /\ seen' = mkv
    /\ UNCHANGED <<disk, candidate, pending, job, found, history, views, counters>>

CopyOriginal ==
    /\ pc = "copying"
    /\ staged' = bak
    /\ pc' = "hide"
    /\ UNCHANGED <<mkv, bak, archive, restored, tombstone, candidate, pending, job, seen, found,
                   history, views, counters>>

(* dovi_convert puts the archive's enhancement layer into the movie; what  *)
(* comes of other movies, or of one that is replaced meanwhile, is of no   *)
(* use.                                                                    *)
ToolRebuilds ==
    /\ pc = "rebuilding"
    /\ \/ MadeFrom(archive, seen) /\ restored' = Of(seen.gen, "rebuilt")
       \/ ~(MadeFrom(archive, seen) /\ mkv = seen) /\ restored' = Of(seen.gen, "mixed")
    /\ pc' = "hide"
    /\ UNCHANGED <<mkv, bak, archive, staged, tombstone, candidate, pending, job, seen, found,
                   history, views, counters>>

HideArchive ==
    /\ pc = "hide"
    /\ IF job.compact = Absent
       THEN UNCHANGED <<archive, tombstone>>
       ELSE archive # Absent /\ tombstone' = archive /\ archive' = Absent
    /\ pc' = "replace"
    /\ UNCHANGED <<mkv, bak, restored, staged, candidate, pending, job, seen, found,
                   history, views, counters>>

ReplacementIsSource == job.source   \* mutant: installs the artifact itself

Replacement == IF job.recovery_kind = "full" THEN staged ELSE restored

KeepStaged == UNCHANGED <<staged, restored>>   \* mutant: copies, not renames

DropStaged ==
    IF job.recovery_kind = "full"
    THEN staged' = Absent /\ UNCHANGED restored
    ELSE restored' = Absent /\ UNCHANGED staged

(* The rename asks no more what it replaces.                               *)
ReplaceMkv ==
    /\ pc = "replace"
    /\ mkv' = Replacement
    /\ DropStaged
    /\ pc' = "unlink"
    /\ overwritten' = IF mkv = seen /\ job.current # Absent
                      THEN overwritten
                      ELSE overwritten \cup ({mkv.gen} \ {0})
    /\ UNCHANGED <<bak, archive, tombstone, candidate, pending, job, seen, found,
                   gen, waived, deletionApproved, misled, views, counters>>

(* When the unlink raises, the job fails and the file stays, under a name  *)
(* nothing looks at again: for what is modelled, the same step.            *)
UnlinkTombstone ==
    /\ pc = "unlink"
    /\ tombstone' = Absent
    /\ EndJob
    /\ UNCHANGED <<mkv, bak, archive, restored, staged, candidate, pending,
                   history, views, counters>>

DropTombstone ==   \* mutant: cleans up instead of undoing
    /\ tombstone' = Absent
    /\ UNCHANGED archive

(* A rename raised before the MKV was replaced: undo what was done.        *)
RollBack ==
    /\ archive' = IF tombstone = Absent THEN archive ELSE tombstone
    /\ tombstone' = Absent

InstallFails ==
    /\ pc \in {"hide", "replace"}
    /\ RollBack
    /\ DropStaged
    /\ EndJob
    /\ UNCHANGED <<mkv, bak, candidate, pending, history, views, counters>>

(* The rename that undoes raises as well: the archive stays hidden under a *)
(* name nothing looks at again, and what was staged stays too; the copy of *)
(* a full backup is named after the job, and never looked at again.        *)
RollBackFails ==
    /\ pc = "replace"
    /\ tombstone # Absent
    /\ tombstone' = Absent
    /\ staged' = Absent
    /\ misled' = TRUE
    /\ EndJob
    /\ UNCHANGED <<mkv, bak, archive, restored, candidate, pending, gen, waived,
                   deletionApproved, overwritten, views, counters>>

-----------------------------------------------------------------------------
(* Deletion.                                                               *)

BeginDelete ==
    /\ TakeJob
    /\ Head(pending).kind = "backup_delete"
    /\ job' = Head(pending)
    /\ pc' = "discovering"
    /\ UNCHANGED <<disk, candidate, seen, found, history, views, counters>>

(* The thread walks the library: a backup whose counterpart is missing is  *)
(* protected, and so is one still inside the retention period, which may   *)
(* have been lengthened since the approval.                                *)
Deletable == {[kind |-> k, file |-> Artifact(k)] : k \in {k \in PresentKinds : mkv # Absent}}

Discover ==
    /\ pc = "discovering"
    /\ \E aged \in SUBSET Deletable : found' = aged
    /\ pc' = "deleting"
    /\ UNCHANGED <<disk, candidate, pending, job, seen, history, views, counters>>

DeleteNext(p) ==
    /\ pc = "deleting"
    /\ p \in job.picks
    /\ p.kind = "compact" => \A q \in job.picks : q.kind = "compact"
    /\ job' = [job EXCEPT !.picks = @ \ {p}]
    /\ bak' = IF p \in found /\ p.kind = "full" THEN Absent ELSE bak
    /\ archive' = IF p \in found /\ p.kind = "compact" THEN Absent ELSE archive
    /\ UNCHANGED <<mkv, restored, staged, tombstone, candidate, pending, pc, seen, found,
                   history, views, counters>>

EndDelete ==
    /\ pc = "deleting"
    /\ job.picks = {}
    /\ EndJob
    /\ UNCHANGED <<disk, candidate, pending, history, views, counters>>

-----------------------------------------------------------------------------
(* The process dies, with the tool, and is started again.  The running job *)
(* is marked failed and never resumed; the files named after its id are    *)
(* never looked at again.                                                  *)
Crash ==
    /\ job # NoJob
    /\ crashes < MaxCrashes
    /\ crashes' = crashes + 1
    /\ EndJob
    /\ staged' = Absent
    /\ tombstone' = Absent
    /\ misled' = (misled \/ tombstone # Absent)
    /\ views' = [h \in Handlers |-> NoView]
    /\ UNCHANGED <<mkv, bak, archive, restored, candidate, pending, gen, waived,
                   deletionApproved, overwritten, approvals>>

-----------------------------------------------------------------------------

User ==
    \/ \E mode \in BackupMode : ApproveConvert(mode)
    \/ ApproveRecoveryBackup
    \/ \E h \in Handlers :
          \/ LookForFull(h) \/ LookForArchive(h) \/ EndLook(h)
          \/ \E kind \in BackupKind : ApproveRestore(h, kind)
          \/ \E kinds \in SUBSET BackupKind : ApproveDelete(h, kinds)
    \/ \E i \in 1 .. Len(pending) : CancelQueuedJob(i)

External == ImportRelease \/ RemoveRelease

Conversion ==
    \/ BeginConvert \/ StartConversion \/ BeginRecoveryBackup
    \/ ToolWritesArchive \/ ToolMovesOriginal \/ ToolMovesOutput
    \/ EndRecoveryBackup \/ AcceptConversion \/ CompactCleanupFails \/ DeactivateCandidate

Recovery ==
    \/ BeginRestore \/ StartRestore \/ CopyOriginal \/ ToolRebuilds
    \/ HideArchive \/ ReplaceMkv \/ UnlinkTombstone
    \/ InstallFails \/ RollBackFails

Deletion == BeginDelete \/ Discover \/ (\E p \in Pick : DeleteNext(p)) \/ EndDelete

Next == User \/ External \/ Scan \/ Conversion \/ Recovery \/ Deletion \/ JobFails \/ Crash

Spec == Init /\ [][Next]_vars

-----------------------------------------------------------------------------
(* Correctness.                                                            *)

(* Every variable holds a value of its type, and the names a recovery uses *)
(* while it installs its result exist only then.                           *)
TypeOK ==
    /\ {mkv, bak, archive, restored, staged, tombstone, seen} \subseteq Content
    /\ candidate \in [active : BOOLEAN, file : Content]
    /\ views \in [Handlers -> View]
    /\ pending \in Seq(Job)
    /\ Len(pending) <= MaxPending
    /\ job \in Job \cup {NoJob}
    /\ pc \in PC
    /\ job = NoJob <=> pc = "idle"
    /\ staged # Absent => pc \in {"hide", "replace"}
    /\ tombstone # Absent => pc \in {"replace", "unlink"}
    /\ found \subseteq Pick
    /\ gen \in 1 .. MaxGen
    /\ waived \cup deletionApproved \cup overwritten \subseteq 0 .. MaxGen
    /\ misled \in BOOLEAN
    /\ approvals \in 0 .. MaxApprovals
    /\ crashes \in 0 .. MaxCrashes

(* The Profile 7 version of release g can still be had: it is the movie, a *)
(* full backup or a finished rebuild, or the converted movie lies beside a *)
(* valid archive of the same release.                                      *)
Recoverable(g) ==
    \/ \E file \in {mkv, bak, restored} : file.gen = g /\ file.form \in Profile7
    \/ mkv = Of(g, "converted") /\ archive = Of(g, "archive")

(* No conversion, recovery, failure, half-undone recovery, cancellation or *)
(* crash loses a release that neither Radarr nor an approval gave up: at   *)
(* every instant, between any two renames, its Profile 7 version can still *)
(* be had.  The exception is a release that arrives while a recovery that  *)
(* has made its last check (worker.py:745) prepares what replaces it.      *)
NoSilentLoss ==
    \A g \in 1 .. gen : g \in waived \cup deletionApproved \cup overwritten \/ Recoverable(g)

(* README.md:36, "Deleting the only recovery source requires an additional *)
(* acknowledgement": without it deletions leave a way to recover.          *)
NoUnacknowledgedLoss ==
    \A g \in 1 .. gen : g \in waived \cup overwritten \/ Recoverable(g)

(* What does hold of it, through every failure and crash, although the     *)
(* handler decides on what a thread saw earlier: the count that asks for   *)
(* the acknowledgement protects the last recovery source unless it was     *)
(* misled, by a second deletion under way, by a backup or a movie that     *)
(* went or changed between the look and the approval, by the full original *)
(* that a running compact-only conversion is about to remove, by a source  *)
(* that is not valid or of another release than what is deleted, or by a   *)
(* crash or a failed undo that strands an archive.                         *)
SourceRemains(g) == Recoverable(g) \/ archive = Of(g, "archive")
AcknowledgementProtects ==
    \A g \in 1 .. gen : misled \/ g \in waived \cup overwritten \/ SourceRemains(g)

(* dovi_convert converts the very file that was approved: the fingerprint  *)
(* check, the stability wait and the recheck leave no way in for a file    *)
(* that was replaced, already converted or still being written.            *)
ConvertsApprovedContent ==
    [][pc = "settling" /\ pc' \in {"archiving", "converting"} => mkv = job.file]_vars

(* A full backup is kept or removed, never replaced by another file.       *)
BackupNeverOverwritten == [][bak # Absent => bak' \in {bak, Absent}]_vars

(* A recovery that succeeds installs the Profile 7 version of the approved *)
(* source's release, however the disk changed since the handler looked, if *)
(* an archive is applied to a movie it was made from that is still there.  *)
AppliedAsAsked ==
    job.recovery_kind = "compact" => MadeFrom(job.source, job.current) /\ mkv = job.current
InstallsApprovedSource ==
    [][pc = "replace" /\ pc' = "unlink" /\ AppliedAsAsked =>
          mkv'.gen = job.source.gen /\ mkv'.form \in Profile7]_vars

=============================================================================

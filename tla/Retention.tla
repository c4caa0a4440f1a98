------------------------------ MODULE Retention ------------------------------
(***************************************************************************)
(* When a backup may be deleted.  Both kinds of backup of a movie are kept *)
(* until they reach the age of the settings and as long as the movie       *)
(* itself is missing; an override lets a user take a young one.  The rule  *)
(* is applied twice, when the deletion is approved and when its job runs,  *)
(* and between the two the clock, the settings and the files change.       *)
(*                                                                         *)
(* The handler loads the settings and then awaits a thread that looks at   *)
(* the disk; the job reads settings and clock, awaits the same thread and  *)
(* then unlinks by what the thread found.  Other jobs run before or after  *)
(* a deletion, never within one (RunningIsCurrent of JobQueue); handlers   *)
(* and people act at any time.                                             *)
(* Whether a recovery source remains is the subject of MovieFiles.         *)
(***************************************************************************)
EXTENDS Configuration, Sequences

CONSTANTS
    DayLength,     \* instants of a day
    MaxTime,       \* bound: the last instant
    MaxBack,       \* bound: times the clock is set back
    MaxFiles,      \* bound: backup files
    MaxDeletions   \* bound: deletions asked for

ASSUME DayLengthAssumption == DayLength \in Nat \ {0}
ASSUME RetentionBounds == {MaxTime, MaxBack, MaxFiles, MaxDeletions} \subseteq Nat

VARIABLES
    now,        \* the wall clock
    setBack,    \* times it was set back
    movie,      \* does the MKV exist?
    backup,     \* the file of each kind
    files,      \* backup files made so far
    approving,  \* a handler at its await: the kinds asked for, the settings it loaded
    queue,      \* queued deletion jobs, oldest first
    deleting,   \* the running one
    look,       \* its clock and retention, and what its thread saw of the disk
    asked       \* deletions asked for so far

disk == <<movie, backup, files>>
clock == <<now, setBack>>
vars == <<configuration, clock, disk, approving, queue, deleting, look, asked>>

Kind == {"full", "compact"}

(* A file: the id stands for its contents and size.                        *)
File == [id : 1 .. MaxFiles, modified : 0 .. MaxTime]
NoFile == [id |-> 0, modified |-> 0]

Item == [kind : Kind, file : File, override : BOOLEAN]
OneFileEach(items) == \A i, j \in items : i.kind = j.kind => i = j

NotApproving == [kinds |-> {}, retention |-> 0, override |-> FALSE]
NoBackup == [kind \in Kind |-> NoFile]
NoLook == [time |-> 0, retention |-> 0, movie |-> FALSE, backup |-> NoBackup, looked |-> FALSE]

Init ==
    /\ ConfigurationInit
    /\ now = 0
    /\ setBack = 0
    /\ movie = TRUE
    /\ backup = NoBackup
    /\ files = 0
    /\ approving = NotApproving
    /\ queue = <<>>
    /\ deleting = {}
    /\ look = NoLook
    /\ asked = 0

-----------------------------------------------------------------------------
(* The world: clock, conversions, people.                                  *)

Tick ==
    /\ now < MaxTime
    /\ now' = now + 1
    /\ UNCHANGED <<configuration, setBack, disk, approving, queue, deleting, look, asked>>

SetClockBack ==
    /\ now > 0
    /\ setBack < MaxBack
    /\ now' = now - 1
    /\ setBack' = setBack + 1
    /\ UNCHANGED <<configuration, disk, approving, queue, deleting, look, asked>>

(* A conversion approved and run under the same settings, while no         *)
(* deletion runs.  What dovi_convert leaves of the original may have the   *)
(* original's time stamp.                                                  *)
OnlyMode == [full |-> "full_only", compact |-> "compact_only"]
Kept == {kind \in Kind : BackupMode(Load(store)) \in {"both", OnlyMode[kind]}}

Made == IF Kept = Kind THEN 2 ELSE 1

Convert ==
    /\ movie
    /\ deleting = {}
    /\ backup = NoBackup
    /\ files + Made <= MaxFiles
    /\ files' = files + Made
    /\ \E original \in {0, now} :
          backup' = [kind \in Kind |->
              IF kind \notin Kept THEN NoFile
              ELSE IF kind = "full" THEN [id |-> files + 1, modified |-> original]
              ELSE [id |-> files + Made, modified |-> now]]
    /\ UNCHANGED <<configuration, clock, movie, approving, queue, deleting, look, asked>>

(* A person removes the movie or puts it back, or removes or replaces a    *)
(* backup.                                                                 *)
MoveMovie ==
    /\ movie' = ~movie
    /\ UNCHANGED <<configuration, clock, backup, files, approving, queue, deleting, look, asked>>

RemoveBackup(kind) ==
    /\ backup[kind] # NoFile
    /\ backup' = [backup EXCEPT ![kind] = NoFile]
    /\ UNCHANGED <<configuration, clock, movie, files, approving, queue, deleting, look, asked>>

ReplaceBackup(kind) ==
    /\ backup[kind] # NoFile
    /\ files < MaxFiles
    /\ files' = files + 1
    /\ backup' = [backup EXCEPT ![kind] = [id |-> files + 1, modified |-> now]]
    /\ UNCHANGED <<configuration, clock, movie, approving, queue, deleting, look, asked>>

-----------------------------------------------------------------------------
(* Whole days; a file of the future is as old as a new one.                *)
AgeDays(file, time) ==
    IF time < file.modified THEN 0 ELSE (time - file.modified) \div DayLength

(* What discover_backup_sets says of a file, and what that allows.         *)
Eligible(file, counterpart, time, retention) ==
    counterpart /\ AgeDays(file, time) >= retention

-----------------------------------------------------------------------------
(* POST /backups/delete.                                                   *)

BeginApproval(kinds) ==
    /\ approving = NotApproving
    /\ asked < MaxDeletions
    /\ approving' = [kinds |-> kinds,
                     retention |-> Load(store).retention,
                     override |-> Load(store).override]
    /\ asked' = asked + 1
    /\ UNCHANGED <<configuration, clock, disk, queue, deleting, look>>

Chosen == {kind \in approving.kinds : backup[kind] # NoFile}

Ripe(kind) == Eligible(backup[kind], movie, now, approving.retention)

Selectable(kind) == Ripe(kind) \/ (approving.override /\ movie)

ItemFor(kind) == [kind |-> kind, file |-> backup[kind], override |-> ~Ripe(kind)]

ApproveNothing ==   \* mutant: no file of the kinds asked for is no reason to refuse
    /\ approving # NotApproving
    /\ \A kind \in Chosen : Selectable(kind)
    /\ queue' = Append(queue, {ItemFor(kind) : kind \in Chosen})
    /\ approving' = NotApproving
    /\ UNCHANGED <<configuration, clock, disk, deleting, look, asked>>

(* The thread looks at the disk and the handler decides.                   *)
Approve ==
    /\ Chosen # {}
    /\ \A kind \in Chosen : Selectable(kind)
    /\ queue' = Append(queue, {ItemFor(kind) : kind \in Chosen})
    /\ approving' = NotApproving
    /\ UNCHANGED <<configuration, clock, disk, deleting, look, asked>>

Refuse ==
    /\ approving # NotApproving
    /\ Chosen # {} => \E kind \in Chosen : ~Selectable(kind)
    /\ approving' = NotApproving
    /\ UNCHANGED <<configuration, clock, disk, queue, deleting, look, asked>>

-----------------------------------------------------------------------------
(* The deletion job.                                                       *)

BeginDeletion ==
    /\ deleting = {}
    /\ queue # <<>>
    /\ deleting' = Head(queue)
    /\ queue' = Tail(queue)
    /\ look' = [time |-> now, retention |-> StoredRetention(store),
                movie |-> FALSE, backup |-> NoBackup, looked |-> FALSE]
    /\ UNCHANGED <<configuration, clock, disk, approving, asked>>

LookAtDisk ==
    /\ deleting # {}
    /\ ~look.looked
    /\ look' = [time |-> look.time, retention |-> look.retention,
                movie |-> movie, backup |-> backup, looked |-> TRUE]
    /\ UNCHANGED <<configuration, clock, disk, approving, queue, deleting, asked>>

MayDeleteAsApproved(item) ==   \* mutant: the rule is applied at approval only
    look.backup[item.kind] = item.file

MayDelete(item) ==
    /\ look.backup[item.kind] = item.file
    /\ \/ Eligible(item.file, look.movie, look.time, look.retention)
       \/ item.override /\ look.movie

Deletable == {item.kind : item \in {i \in deleting : MayDelete(i)}}

(* A file that is gone makes unlink fail and ends the job; the order of    *)
(* the two kinds is full, compact.                                         *)
FinishDeletion ==
    /\ look.looked
    /\ LET gone == {kind \in Deletable : backup[kind] = NoFile}
           unlinked == IF "full" \in gone THEN {} ELSE Deletable \ gone
       IN  backup' = [kind \in Kind |-> IF kind \in unlinked THEN NoFile ELSE backup[kind]]
    /\ deleting' = {}
    /\ look' = NoLook
    /\ UNCHANGED <<configuration, clock, movie, files, approving, queue, asked>>

CancelDeletion ==
    /\ queue # <<>>
    /\ queue' = Tail(queue)
    /\ UNCHANGED <<configuration, clock, disk, approving, deleting, look, asked>>

(* The process dies and starts again; what is queued stays so.             *)
Restart ==
    /\ MigrateLegacyMapping
    /\ approving' = NotApproving
    /\ deleting' = {}
    /\ look' = NoLook
    /\ UNCHANGED <<clock, disk, queue, asked>>

-----------------------------------------------------------------------------
Submit(form) ==
    /\ SaveSettings(form)
    /\ UNCHANGED <<clock, disk, approving, queue, deleting, look, asked>>

World ==
    \/ Tick
    \/ SetClockBack
    \/ Convert
    \/ MoveMovie
    \/ \E kind \in Kind : RemoveBackup(kind) \/ ReplaceBackup(kind)

Next ==
    \/ World
    \/ \E form \in Forms : Submit(form)
    \/ \E kinds \in (SUBSET Kind) \ {{}} : BeginApproval(kinds)
    \/ Approve
    \/ Refuse
    \/ BeginDeletion
    \/ LookAtDisk
    \/ FinishDeletion
    \/ CancelDeletion
    \/ Restart

Spec == Init /\ [][Next]_vars

-----------------------------------------------------------------------------
Prefixes == {form.prefix : form \in Forms} \cup {StoredPrefix(s) : s \in OldStores}

(* The values of the variables; a file is never newer than it can be, a    *)
(* queued deletion names at least one file and no kind twice, and only a   *)
(* running deletion has looked at anything.                                *)
TypeOK ==
    /\ store \in OldStores \cup {Written(form) : form \in Forms}
    /\ mappings \in {"none"} \cup {form.rows : form \in Forms} \cup Prefixes
    /\ token \in BOOLEAN
    /\ now \in 0 .. MaxTime
    /\ setBack \in 0 .. MaxBack
    /\ movie \in BOOLEAN
    /\ backup \in [Kind -> File \cup {NoFile}]
    /\ files \in 0 .. MaxFiles
    /\ \A kind \in Kind : backup[kind].id <= files
    /\ approving \in [kinds : SUBSET Kind, retention : Nat, override : BOOLEAN]
    /\ asked \in 0 .. MaxDeletions
    /\ queue \in Seq(SUBSET Item)
    /\ deleting \subseteq Item
    /\ \A n \in 1 .. Len(queue) : queue[n] # {} /\ OneFileEach(queue[n])
    /\ OneFileEach(deleting)
    /\ look \in [time : 0 .. MaxTime, retention : Nat, movie : BOOLEAN,
                backup : [Kind -> File \cup {NoFile}], looked : BOOLEAN]
    /\ deleting = {} => look = NoLook

DeletionIsDue ==
    deleting # {} /\ deleting' = {} =>
        \A kind \in {k \in Kind : backup[k] # NoFile /\ backup'[k] = NoFile} :
           \E item \in deleting :
              /\ item.kind = kind
              /\ item.file = look.backup[kind]
              /\ look.movie
              /\ \/ item.override
                 \/ look.time - item.file.modified >= look.retention * DayLength

ApprovalIsDue ==
    Len(queue') > Len(queue) =>
        \A item \in queue'[Len(queue')] :
           /\ movie
           /\ \/ approving.override
              \/ ~item.override /\ now - item.file.modified >= approving.retention * DayLength

(* A backup goes only when its job itself, whatever was true at approval,  *)
(* has seen the very file the handler of the approval had found, beside    *)
(* its movie, as old as the retention the job read; or the user took it as *)
(* a young one, which the settings allowed then.  A clock that was set     *)
(* back, a retention that was raised, a movie that was removed or a file   *)
(* that was replaced between the approval and the job's look keep it; what *)
(* takes its place after that look is unlinked by its name.                *)
KeptUntilDue == [][DeletionIsDue /\ ApprovalIsDue]_vars

=============================================================================

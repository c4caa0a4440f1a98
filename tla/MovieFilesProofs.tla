-------------------------- MODULE MovieFilesProofs --------------------------
(***************************************************************************)
(* Theorems about MovieFiles, for every number of requests, releases, jobs *)
(* and crashes, and whatever dovi_convert, Radarr and Sonarr do: no step   *)
(* of the program loses a release unless it was given up or arrived while  *)
(* a recovery that had made its last check went on to replace the movie,   *)
(* jobs work on what was approved, and the acknowledgement protects the    *)
(* last source while its count is not misled.                              *)
(***************************************************************************)
EXTENDS MovieFiles, SequenceTheorems, TLAPS

(* A queued or running job is about what its approval saw.                 *)
JobSound(j) ==
    /\ j.kind \in {"convert", "recovery_backup"} =>
          j.file.form \in Profile7 /\ j.file.gen <= gen
    /\ j.kind = "recovery_restore" =>
          /\ j.source # Absent
          /\ j.current.gen <= gen
          /\ j.current.gen \in waived \cup {0, j.source.gen}
          /\ j.recovery_kind = "compact" =>
                /\ j.source.form = "archive"
                /\ j.compact = j.source
                /\ \/ MadeFrom(j.source, j.current)
                   \/ {j.source.gen, j.current.gen} \subseteq waived \cup {0}
    /\ j.kind = "backup_delete" => \A p \in j.picks : p.file.gen \in deletionApproved

FilesOK ==
    /\ bak = Absent \/ bak.form \in Profile7
    /\ candidate.active => candidate.file.form \in Profile7
    /\ mkv.gen <= gen /\ bak.gen <= gen /\ restored.gen <= gen /\ staged.gen <= gen
    /\ seen.gen <= gen /\ candidate.file.gen <= gen

(* A conversion works on what was approved; while the tool may still move  *)
(* the MKV there is no backup it could overwrite.                          *)
ConvertOK ==
    job.kind \in {"convert", "recovery_backup"} =>
        /\ pc \in {"settling", "archiving", "converting", "swapping", "exited", "accepted"}
        /\ seen = job.file
        /\ pc \in {"settling", "converting", "swapping", "accepted"} => job.kind = "convert"
        /\ job.kind = "convert" /\ pc \in {"settling", "archiving", "converting"} => bak = Absent
        /\ pc \in {"archiving", "converting"} => mkv = Absent \/ mkv.form \in Profile7
        /\ pc = "swapping" => mkv = Absent
        /\ job.kind = "convert" /\ job.mode # "full_only"
              /\ pc \in {"converting", "swapping", "exited"} =>
                 archive = Of(job.file.gen, "archive")
        /\ job.kind = "convert" /\ pc = "exited" =>
              \/ mkv = Of(job.file.gen, "converted")
              \/ mkv.form \in {"absent", "empty"}
              \/ job.file.gen \in waived \cup {0}

(* The MKV was replaced or removed since a recovery was approved.          *)
Displaced ==
    /\ mkv = Absent \/ mkv.form = "original"
    /\ job.current.gen \in waived \cup {0}

(* A recovery finds what its approval saw, unless Radarr wrote the MKV     *)
(* since; what it is about to install and what it hides are known.         *)
RestoreOK ==
    job.kind = "recovery_restore" =>
        /\ pc \in {"settling", "copying", "rebuilding", "hide", "replace", "unlink"}
        /\ pc = "copying" => job.recovery_kind = "full"
        /\ pc = "rebuilding" => job.recovery_kind = "compact" /\ restored = Absent
        /\ pc # "unlink" => mkv = job.current \/ Displaced
        /\ pc \in {"copying", "rebuilding", "hide", "replace"} /\ job.current # Absent =>
              seen = job.current
        /\ job.recovery_kind = "compact" => job.current # Absent
        /\ job.recovery_kind = "full" => bak = job.source
        /\ pc \in {"settling", "copying", "rebuilding", "hide"} /\ job.compact # Absent =>
              archive = job.compact
        /\ pc = "replace" => tombstone = job.compact
        /\ pc = "replace" /\ job.compact # Absent => archive = Absent
        /\ pc \in {"hide", "replace"} =>
              IF job.recovery_kind = "full"
              THEN staged = job.source
              ELSE /\ staged = Absent
                   /\ \/ /\ restored = Of(job.current.gen, "rebuilt")
                         /\ MadeFrom(job.source, job.current)
                      \/ /\ restored = Of(job.current.gen, "mixed")
                         /\ ~MadeFrom(job.source, job.current) \/ mkv # job.current

(* What a deletion found is still there, or gone.                          *)
DeleteOK ==
    job.kind = "backup_delete" =>
        /\ pc \in {"discovering", "deleting"}
        /\ pc = "deleting" => \A p \in found : Artifact(p.kind) \in {Absent, p.file}

Sound == {j \in Job : JobSound(j)}

JobsOK == pending \in Seq(Sound) /\ job \in Sound \cup {NoJob}

Inv == TypeOK /\ JobsOK /\ FilesOK /\ ConvertOK /\ RestoreOK /\ DeleteOK /\ NoSilentLoss

-----------------------------------------------------------------------------
(* Values.                                                                 *)

LEMMA Contents ==
    /\ Absent \in Content /\ Absent.gen = 0 /\ Absent.form = "absent"
    /\ \A g \in 0 .. MaxGen : \A form \in Form :
          Of(g, form) \in Content /\ Of(g, form).gen = g /\ Of(g, form).form = form
    /\ \A c \in Content : c.gen \in 0 .. MaxGen /\ c.form \in Form /\ c = Of(c.gen, c.form)
    /\ \A c \in Content : c.gen \in Nat
<1>1. MaxGen \in Nat
  BY BoundsAssumption
<1>. QED BY <1>1 DEF Absent, Content, Form, Of

LEMMA JobFields ==
    ASSUME NEW j \in Job
    PROVE  /\ j.kind \in {"convert", "recovery_backup", "recovery_restore", "backup_delete"}
           /\ j.kind \in {"convert", "recovery_backup"} => j.file \in Content
           /\ j.kind = "convert" => j.mode \in BackupMode
           /\ j.kind = "recovery_restore" =>
                 /\ j.recovery_kind \in BackupKind
                 /\ j.source \in Content /\ j.current \in Content /\ j.compact \in Content
           /\ j.kind = "backup_delete" => j.picks \subseteq Pick
           /\ j # NoJob
BY DEF Job, NoJob

LEMMA ConvertJob ==
    ASSUME NEW file \in Content, NEW mode \in BackupMode
    PROVE  [kind |-> "convert", file |-> file, mode |-> mode] \in Job
BY DEF Job

LEMMA ArchiveJob ==
    ASSUME NEW file \in Content
    PROVE  [kind |-> "recovery_backup", file |-> file] \in Job
BY DEF Job

LEMMA RestoreJob ==
    ASSUME NEW kind \in BackupKind, NEW source \in Content, NEW current \in Content,
           NEW compact \in Content
    PROVE  [kind |-> "recovery_restore", recovery_kind |-> kind, source |-> source,
            current |-> current, compact |-> compact] \in Job
BY DEF Job

LEMMA DeleteJob ==
    ASSUME NEW picks \in SUBSET Pick
    PROVE  [kind |-> "backup_delete", picks |-> picks] \in Job
BY DEF Job

LEMMA ShrinkJob ==
    ASSUME NEW j \in Job, j.kind = "backup_delete", NEW p
    PROVE  /\ [j EXCEPT !.picks = @ \ {p}] \in Job
           /\ [j EXCEPT !.picks = @ \ {p}].kind = "backup_delete"
           /\ [j EXCEPT !.picks = @ \ {p}].picks = j.picks \ {p}
<1>1. j \in [kind : {"backup_delete"}, picks : SUBSET Pick]
  BY DEF Job
<1>2. [j EXCEPT !.picks = @ \ {p}] \in [kind : {"backup_delete"}, picks : SUBSET Pick]
  BY <1>1
<1>. QED BY <1>1, <1>2 DEF Job

LEMMA NoJobKind ==
    /\ NoJob.kind = "none"
    /\ NoJob.kind \notin {"convert", "recovery_backup", "recovery_restore", "backup_delete"}
BY DEF NoJob

-----------------------------------------------------------------------------
(* The queue.                                                              *)

LEMMA SeqGrows ==
    ASSUME NEW S, NEW T, S \subseteq T, NEW s \in Seq(S)
    PROVE  s \in Seq(T)
OBVIOUS

LEMMA SeqTail ==
    ASSUME NEW S, NEW s \in Seq(S), s # <<>>
    PROVE  Head(s) \in S /\ Tail(s) \in Seq(S) /\ Len(Tail(s)) <= Len(s)
OBVIOUS

LEMMA SeqRemove ==
    ASSUME NEW S, NEW s \in Seq(S), NEW i \in 1 .. Len(s)
    PROVE  RemoveAt(s, i) \in Seq(S) /\ Len(RemoveAt(s, i)) <= Len(s)
<1>. DEFINE a == SubSeq(s, 1, i - 1)
            b == SubSeq(s, i + 1, Len(s))
<1>1. Len(s) \in Nat /\ i \in Int /\ \A k \in 1 .. Len(s) : s[k] \in S
  OBVIOUS
<1>2. a \in Seq(S) /\ Len(a) = i - 1
  <2>1. \A k \in 1 .. i - 1 : s[k] \in S
    BY <1>1
  <2>2. 1 \in Int /\ i - 1 \in Int
    BY <1>1
  <2>3. /\ a \in Seq(S)
        /\ Len(a) = IF 1 <= i - 1 THEN (i - 1) - 1 + 1 ELSE 0
    BY <2>1, <2>2, SubSeqProperties
  <2>. QED BY <2>3, <1>1
<1>3. b \in Seq(S) /\ Len(b) = Len(s) - i
  <2>1. \A k \in i + 1 .. Len(s) : s[k] \in S
    BY <1>1
  <2>2. i + 1 \in Int /\ Len(s) \in Int
    BY <1>1
  <2>3. /\ b \in Seq(S)
        /\ Len(b) = IF i + 1 <= Len(s) THEN Len(s) - (i + 1) + 1 ELSE 0
    BY <2>1, <2>2, SubSeqProperties
  <2>. QED BY <2>3, <1>1
<1>. HIDE DEF a, b
<1>4. a \o b \in Seq(S) /\ Len(a \o b) = Len(a) + Len(b)
  BY <1>2, <1>3, ConcatProperties
<1>5. RemoveAt(s, i) = a \o b
  BY DEF RemoveAt, a, b
<1>. QED BY <1>1, <1>2, <1>3, <1>4, <1>5

(* What is given up stays given up, so a sound job stays sound.            *)
LEMMA SoundGrows ==
    ASSUME gen \in Nat, gen' \in Nat, gen <= gen', waived \subseteq waived',
           deletionApproved \subseteq deletionApproved'
    PROVE  Sound \subseteq Sound'
<1>. SUFFICES ASSUME NEW j \in Job, JobSound(j)
              PROVE  JobSound(j)'
  BY DEF Sound
<1>1. /\ j.kind \in {"convert", "recovery_backup"} => j.file.gen \in Nat
      /\ j.kind = "recovery_restore" => j.current.gen \in Nat
  BY JobFields, Contents
<1>2. \A S, T : S \subseteq waived \cup T => S \subseteq waived' \cup T
  OBVIOUS
<1>. QED BY <1>1, <1>2 DEF JobSound, MadeFrom

LEMMA JobsKept ==
    ASSUME Inv, gen <= gen', gen' \in Nat, waived \subseteq waived',
           deletionApproved \subseteq deletionApproved'
    PROVE  pending \in Seq(Sound') /\ job \in Sound' \cup {NoJob} /\ Sound \subseteq Sound'
<1>1. gen \in Nat
  BY DEF Inv, TypeOK
<1>2. Sound \subseteq Sound'
  BY <1>1, SoundGrows
<1>. QED BY <1>2, SeqGrows DEF Inv, JobsOK

(* Between jobs nothing is required of one.                                *)
LEMMA Idle ==
    ASSUME job' = NoJob
    PROVE  ConvertOK' /\ RestoreOK' /\ DeleteOK'
BY NoJobKind DEF ConvertOK, RestoreOK, DeleteOK

(* Steps that touch none of the files a release can be had from.           *)
LEMMA NothingLost ==
    ASSUME Inv, UNCHANGED <<mkv, bak, restored, archive, gen>>, waived \subseteq waived',
           deletionApproved \subseteq deletionApproved', overwritten \subseteq overwritten'
    PROVE  NoSilentLoss'
<1>1. \A g : Recoverable(g)' <=> Recoverable(g)
  BY DEF Recoverable
<1>2. NoSilentLoss
  BY DEF Inv
<1>. QED BY <1>1, <1>2 DEF NoSilentLoss

(* The parts of TypeOK.                                                    *)
FileTypes ==
    {mkv, bak, archive, restored, staged, tombstone, seen, candidate.file} \subseteq Content
QueueTypes == pending \in Seq(Job) /\ Len(pending) <= MaxPending /\ job \in Job \cup {NoJob}
Names ==
    /\ pc \in PC
    /\ job = NoJob <=> pc = "idle"
    /\ staged # Absent => pc \in {"hide", "replace"}
    /\ tombstone # Absent => pc \in {"replace", "unlink"}
HistoryTypes ==
    /\ gen \in 1 .. MaxGen
    /\ waived \subseteq 0 .. MaxGen
    /\ deletionApproved \subseteq 0 .. MaxGen
    /\ overwritten \subseteq 0 .. MaxGen
    /\ misled \in BOOLEAN

LEMMA TypeParts ==
    TypeOK <=> /\ FileTypes /\ candidate \in [active : BOOLEAN, file : Content]
               /\ QueueTypes /\ Names /\ HistoryTypes
               /\ views \in [Handlers -> View] /\ found \subseteq Pick
               /\ approvals \in 0 .. MaxApprovals /\ crashes \in 0 .. MaxCrashes
BY DEF TypeOK, FileTypes, QueueTypes, Names, HistoryTypes

LEMMA TypeIntro ==
    ASSUME FileTypes', candidate' \in [active : BOOLEAN, file : Content],
           views' \in [Handlers -> View], JobsOK', Len(pending') <= MaxPending,
           Names', HistoryTypes', found' \subseteq Pick,
           approvals' \in 0 .. MaxApprovals, crashes' \in 0 .. MaxCrashes
    PROVE  TypeOK'
<1>1. Sound' \subseteq Job
  BY DEF Sound
<1>2. pending' \in Seq(Job) /\ job' \in Job \cup {NoJob}
  BY <1>1, SeqGrows DEF JobsOK
<1>3. /\ {mkv', bak', archive', restored', staged', tombstone', seen'} \subseteq Content
      /\ waived' \cup deletionApproved' \cup overwritten' \subseteq 0 .. MaxGen
  BY DEF FileTypes, HistoryTypes
<1>. QED BY <1>2, <1>3 DEF TypeOK, Names, HistoryTypes

(* A step of the worker: it approves nothing.                              *)
LEMMA WorkerStep ==
    ASSUME Inv, UNCHANGED <<gen, waived, deletionApproved, misled, approvals, crashes>>,
           overwritten \subseteq overwritten', overwritten' \subseteq 0 .. MaxGen,
           views' \in [Handlers -> View],
           pending' \in Seq(Sound), Len(pending') <= Len(pending), job' \in Sound \cup {NoJob},
           FileTypes', candidate' \in [active : BOOLEAN, file : Content], Names',
           found' \subseteq Pick,
           FilesOK', ConvertOK', RestoreOK', DeleteOK', NoSilentLoss'
    PROVE  Inv'
<1>1. TypeOK /\ gen \in Nat
  BY DEF Inv, TypeOK
<1>2. Sound \subseteq Sound'
  BY <1>1, JobsKept
<1>3. JobsOK'
  BY <1>2, SeqGrows DEF JobsOK
<1>4. HistoryTypes' /\ approvals' \in 0 .. MaxApprovals /\ crashes' \in 0 .. MaxCrashes
  BY <1>1, TypeParts DEF HistoryTypes
<1>5. Len(pending') <= MaxPending
  <2>1. /\ Len(pending) <= MaxPending /\ Len(pending) \in Nat
        /\ MaxPending \in Nat /\ Len(pending') \in Nat
    BY <1>1, BoundsAssumption DEF TypeOK
  <2>. QED BY <2>1
<1>6. TypeOK'
  BY <1>3, <1>4, <1>5, TypeIntro
<1>. QED BY <1>3, <1>6 DEF Inv

LEMMA Facts ==
    ASSUME Inv
    PROVE  /\ FileTypes /\ Names /\ HistoryTypes /\ found \subseteq Pick
           /\ mkv \in Content /\ bak \in Content /\ archive \in Content /\ restored \in Content
           /\ staged \in Content /\ tombstone \in Content /\ seen \in Content
           /\ candidate \in [active : BOOLEAN, file : Content] /\ candidate.file \in Content
           /\ gen \in Nat /\ gen >= 1 /\ gen <= MaxGen
           /\ views \in [Handlers -> View] /\ overwritten \subseteq 0 .. MaxGen
           /\ pending \in Seq(Sound) /\ Len(pending) <= Len(pending)
           /\ job \in Sound \cup {NoJob}
           /\ \A j \in Sound : j \in Job /\ JobSound(j)
<1>1. TypeOK /\ JobsOK
  BY DEF Inv
<1>2. FileTypes /\ Names /\ HistoryTypes /\ candidate \in [active : BOOLEAN, file : Content]
      /\ found \subseteq Pick /\ views \in [Handlers -> View] /\ overwritten \subseteq 0 .. MaxGen
  BY <1>1, TypeParts DEF HistoryTypes
<1>3. gen \in Nat /\ gen >= 1 /\ gen <= MaxGen
  BY <1>2, BoundsAssumption DEF HistoryTypes
<1>4. Len(pending) <= Len(pending)
  BY <1>1 DEF TypeOK
<1>. QED BY <1>1, <1>2, <1>3, <1>4 DEF FileTypes, JobsOK, Sound

-----------------------------------------------------------------------------
(* Approvals.                                                              *)

LEMMA ApprovalStep ==
    ASSUME Inv, NEW j \in Job, JobSound(j)', Enqueue(j),
           waived \subseteq waived', waived' \subseteq 0 .. MaxGen,
           deletionApproved \subseteq deletionApproved', deletionApproved' \subseteq 0 .. MaxGen,
           misled' \in BOOLEAN, views' \in [Handlers -> View]
    PROVE  Inv'
<1>1. /\ UNCHANGED <<mkv, bak, archive, restored, staged, tombstone, candidate, job, pc, seen,
                     found, gen, overwritten, crashes>>
      /\ pending' = Append(pending, j)
      /\ Len(pending) < MaxPending /\ approvals < MaxApprovals /\ approvals' = approvals + 1
  BY DEF Enqueue, disk, worker
<1>2. TypeOK /\ gen \in Nat /\ gen <= gen' /\ gen' \in Nat
  BY <1>1 DEF Inv, TypeOK
<1>3. /\ pending \in Seq(Sound') /\ job \in Sound' \cup {NoJob}
  BY <1>1, <1>2, JobsKept
<1>4. j \in Sound'
  BY DEF Sound
<1>5. JobsOK' /\ Len(pending') <= MaxPending
  <2>1. Append(pending, j) \in Seq(Sound') /\ Len(Append(pending, j)) = Len(pending) + 1
    BY <1>3, <1>4
  <2>2. MaxPending \in Nat /\ Len(pending) \in Nat
    BY <1>2, BoundsAssumption DEF TypeOK
  <2>. QED BY <1>1, <1>3, <2>1, <2>2 DEF JobsOK
<1>6. TypeOK'
  <2>1. FileTypes' /\ Names' /\ found' \subseteq Pick /\ crashes' \in 0 .. MaxCrashes
        /\ candidate' \in [active : BOOLEAN, file : Content]
    BY <1>1, <1>2, TypeParts DEF FileTypes, Names
  <2>2. HistoryTypes'
    BY <1>1, <1>2, TypeParts DEF HistoryTypes
  <2>3. approvals' \in 0 .. MaxApprovals
    BY <1>1, <1>2, BoundsAssumption DEF TypeOK
  <2>. QED BY <1>5, <2>1, <2>2, <2>3, TypeIntro
<1>7. FilesOK' /\ DeleteOK'
  BY <1>1 DEF Inv, FilesOK, DeleteOK, Artifact
<1>10. RestoreOK'
  <2>1. Displaced => Displaced'
    BY <1>1 DEF Displaced
  <2>2. MadeFrom(job.source, job.current)' <=> MadeFrom(job.source, job.current)
    BY <1>1 DEF MadeFrom
  <2>. QED BY <1>1, <2>1, <2>2 DEF Inv, RestoreOK
<1>8. ConvertOK'
  BY <1>1 DEF Inv, ConvertOK
<1>9. NoSilentLoss'
  BY <1>1, NothingLost
<1>. QED BY <1>5, <1>6, <1>7, <1>8, <1>9, <1>10 DEF Inv

LEMMA ApproveConvertStep ==
    ASSUME Inv, NEW mode \in BackupMode, ApproveConvert(mode)
    PROVE  Inv'
<1>. DEFINE j == [kind |-> "convert", file |-> candidate.file, mode |-> mode]
<1>1. /\ candidate.active /\ Enqueue(j)
      /\ UNCHANGED <<views, waived, deletionApproved, misled, gen>>
  BY DEF ApproveConvert, CandidateReady, Enqueue
<1>2. /\ candidate.file \in Content /\ candidate.file.form \in Profile7
      /\ candidate.file.gen <= gen
  BY <1>1 DEF Inv, TypeOK, FilesOK
<1>3. j \in Job /\ j.kind = "convert" /\ j.file = candidate.file
  BY <1>2, ConvertJob
<1>. HIDE DEF j
<1>4. PICK k \in Job : k = j
  BY <1>3
<1>5. JobSound(k)'
  BY <1>1, <1>2, <1>3, <1>4 DEF JobSound
<1>6. HistoryTypes /\ views \in [Handlers -> View]
  BY Facts
<1>. QED BY <1>1, <1>4, <1>5, <1>6, ApprovalStep DEF HistoryTypes

LEMMA ApproveArchiveStep ==
    ASSUME Inv, ApproveRecoveryBackup
    PROVE  Inv'
<1>. DEFINE j == [kind |-> "recovery_backup", file |-> candidate.file]
<1>1. /\ candidate.active /\ Enqueue(j)
      /\ UNCHANGED <<views, waived, deletionApproved, misled, gen>>
  BY DEF ApproveRecoveryBackup, CandidateReady, Enqueue
<1>2. /\ candidate.file \in Content /\ candidate.file.form \in Profile7
      /\ candidate.file.gen <= gen
  BY <1>1 DEF Inv, TypeOK, FilesOK
<1>3. j \in Job /\ j.kind = "recovery_backup" /\ j.file = candidate.file
  BY <1>2, ArchiveJob
<1>. HIDE DEF j
<1>4. PICK k \in Job : k = j
  BY <1>3
<1>5. JobSound(k)'
  BY <1>1, <1>2, <1>3, <1>4 DEF JobSound
<1>6. HistoryTypes /\ views \in [Handlers -> View]
  BY Facts
<1>. QED BY <1>1, <1>4, <1>5, <1>6, ApprovalStep DEF HistoryTypes

(* What a request has seen, and its end.                                   *)
LEMMA Views ==
    ASSUME Inv, NEW h \in Handlers
    PROVE  /\ \A k \in BackupKind : views[h].files[k] \in Content
           /\ views[h].beside \subseteq BackupKind
           /\ [views EXCEPT ![h] = NoView] \in [Handlers -> View]
           /\ \A v \in View : [views EXCEPT ![h] = v] \in [Handlers -> View]
<1>1. views \in [Handlers -> View]
  BY Facts
<1>2. views[h] \in View
  BY <1>1
<1>3. NoView \in View
  BY Contents DEF NoView, View
<1>4. \A v \in View : [views EXCEPT ![h] = v] \in [Handlers -> View]
  BY <1>1
<1>5. views[h].files \in [BackupKind -> Content] /\ views[h].beside \subseteq BackupKind
  BY <1>2 DEF View
<1>. QED BY <1>3, <1>4, <1>5

LEMMA ApproveRestoreStep ==
    ASSUME Inv, NEW h \in Handlers, NEW kind \in BackupKind, ApproveRestore(h, kind)
    PROVE  Inv'
<1>. DEFINE source == views[h].files[kind]
            compact == views[h].files["compact"]
            j == [kind |-> "recovery_restore", recovery_kind |-> kind,
                  source |-> source, current |-> mkv, compact |-> compact]
<1>1. /\ kind \in Seen(h) /\ Enqueue(j)
      /\ kind = "compact" => source.form = "archive"
      /\ waived' = waived \cup (GivesUp(kind, source) \ {0})
      /\ views' = [views EXCEPT ![h] = NoView]
      /\ UNCHANGED <<deletionApproved, misled>>
  BY DEF ApproveRestore
<1>2. HistoryTypes /\ mkv \in Content /\ mkv.gen <= gen /\ gen' = gen
  BY <1>1, Facts DEF Inv, FilesOK, Enqueue
<1>3. source \in Content /\ compact \in Content
  BY Views DEF BackupKind
<1>4. source # Absent
  BY <1>1 DEF Seen
<1>5. /\ j \in Job /\ j.kind = "recovery_restore" /\ j.recovery_kind = kind
      /\ j.source = source /\ j.current = mkv /\ j.compact = compact
  BY <1>2, <1>3, RestoreJob
<1>6. kind = "compact" => source = compact
  OBVIOUS
<1>. HIDE DEF j, source, compact
<1>7. PICK k \in Job : k = j
  BY <1>5
<1>8. /\ GivesUp(kind, source) \subseteq {mkv.gen, source.gen}
      /\ mkv.gen \in GivesUp(kind, source) \cup {source.gen}
      /\ kind = "compact" /\ ~MadeFrom(source, mkv) => source.gen \in GivesUp(kind, source)
      /\ kind = "compact" /\ ~MadeFrom(source, mkv) => mkv.gen \in GivesUp(kind, source)
  BY DEF GivesUp
<1>9. JobSound(k)'
  <2>1. mkv.gen \in waived' \cup {0, source.gen}
    BY <1>1, <1>8
  <2>2. kind = "compact" => /\ source.form = "archive" /\ compact = source
                            /\ \/ MadeFrom(source, mkv)
                               \/ {source.gen, mkv.gen} \subseteq waived' \cup {0}
    BY <1>1, <1>6, <1>8
  <2>. QED BY <1>2, <1>4, <1>5, <1>7, <2>1, <2>2 DEF JobSound, MadeFrom
<1>10. waived' \subseteq 0 .. MaxGen /\ deletionApproved' \subseteq 0 .. MaxGen
  <2>1. mkv.gen \in 0 .. MaxGen /\ source.gen \in 0 .. MaxGen
    BY <1>2, <1>3, Contents
  <2>. QED BY <1>1, <1>2, <1>8, <2>1 DEF HistoryTypes
<1>11. misled' \in BOOLEAN /\ views' \in [Handlers -> View]
  BY <1>1, <1>2, Views, Zenon DEF HistoryTypes
<1>12. waived \subseteq waived' /\ deletionApproved \subseteq deletionApproved' /\ Enqueue(k)
  BY <1>1, <1>7
<1>. QED BY <1>9, <1>10, <1>11, <1>12, ApprovalStep

LEMMA ApproveDeleteStep ==
    ASSUME Inv, NEW h \in Handlers, NEW kinds \in SUBSET BackupKind, ApproveDelete(h, kinds)
    PROVE  Inv'
<1>. DEFINE picks == {[kind |-> k, file |-> views[h].files[k]] : k \in kinds}
            gens == {views[h].files[k].gen : k \in kinds}
            j == [kind |-> "backup_delete", picks |-> picks]
<1>1. /\ Enqueue(j)
      /\ deletionApproved' = deletionApproved \cup gens
      /\ \/ waived' = waived \cup gens
         \/ waived' = waived
      /\ views' = [views EXCEPT ![h] = NoView]
  BY DEF ApproveDelete
<1>2. misled' \in BOOLEAN
  BY DEF ApproveDelete
<1>3. HistoryTypes
  BY Facts
<1>4. \A k \in kinds : k \in BackupKind /\ views[h].files[k] \in Content
  BY Views
<1>5. gens \subseteq 0 .. MaxGen
  BY <1>4, Contents
<1>6. picks \in SUBSET Pick /\ \A p \in picks : p.file.gen \in gens
  BY <1>4 DEF Pick
<1>7. j \in Job /\ j.kind = "backup_delete" /\ j.picks = picks
  BY <1>6, DeleteJob
<1>. HIDE DEF j, picks, gens
<1>8. PICK k \in Job : k = j
  BY <1>7
<1>9. JobSound(k)'
  BY <1>1, <1>6, <1>7, <1>8 DEF JobSound
<1>10. waived' \subseteq 0 .. MaxGen /\ deletionApproved' \subseteq 0 .. MaxGen
  BY <1>1, <1>3, <1>5 DEF HistoryTypes
<1>11. views' \in [Handlers -> View]
  BY <1>1, Views
<1>. QED BY <1>1, <1>2, <1>8, <1>9, <1>10, <1>11, ApprovalStep

-----------------------------------------------------------------------------
(* The queue, and the files from outside.                                  *)

(* A step that moves no file and leaves the running job where it is.       *)
LEMMA Unmoved ==
    ASSUME Inv, UNCHANGED <<mkv, bak, archive, restored, staged, tombstone, seen, found, pc, job,
                            candidate, gen, waived, deletionApproved, overwritten, misled,
                            approvals, crashes>>,
           views' \in [Handlers -> View], pending' \in Seq(Sound), Len(pending') <= Len(pending)
    PROVE  Inv'
<1>1. FileTypes' /\ Names' /\ found' \subseteq Pick
      /\ candidate' \in [active : BOOLEAN, file : Content]
      /\ job' \in Sound \cup {NoJob}
      /\ overwritten' \subseteq 0 .. MaxGen
  BY Facts DEF FileTypes, Names
<1>2. FilesOK' /\ RestoreOK' /\ DeleteOK'
  BY DEF Inv, FilesOK, RestoreOK, DeleteOK, Artifact, Displaced, MadeFrom
<1>3. ConvertOK'
  BY DEF Inv, ConvertOK
<1>4. NoSilentLoss'
  BY NothingLost
<1>. QED BY <1>1, <1>2, <1>3, <1>4, WorkerStep

LEMMA StutterStep ==
    ASSUME Inv, UNCHANGED vars
    PROVE  Inv'
<1>1. UNCHANGED <<mkv, bak, archive, restored, staged, tombstone, seen, found, pc, job, pending,
                  views, candidate, gen, waived, deletionApproved, overwritten, misled, approvals,
                  crashes>>
  BY DEF vars, disk, worker, history, counters
<1>. QED BY <1>1, Unmoved, Facts

LEMMA CancelStep ==
    ASSUME Inv, NEW i \in 1 .. Len(pending), CancelQueuedJob(i)
    PROVE  Inv'
<1>1. UNCHANGED <<mkv, bak, archive, restored, staged, tombstone, seen, found, pc, job,
                  views, candidate, gen, waived, deletionApproved, overwritten, misled, approvals,
                  crashes>>
      /\ pending' = RemoveAt(pending, i)
  BY DEF CancelQueuedJob, disk, worker, history, counters
<1>2. pending \in Seq(Sound)
  BY Facts
<1>3. RemoveAt(pending, i) \in Seq(Sound) /\ Len(RemoveAt(pending, i)) <= Len(pending)
  BY <1>2, SeqRemove
<1>. QED BY <1>1, <1>3, Facts, Unmoved

(* A request looks at the disk, or ends.                                   *)
LEMMA LookStep ==
    ASSUME Inv, NEW h \in Handlers, LookForFull(h) \/ LookForArchive(h) \/ EndLook(h)
    PROVE  Inv'
<1>1. UNCHANGED <<mkv, bak, archive, restored, staged, tombstone, seen, found, pc, job, pending,
                  candidate, gen, waived, deletionApproved, overwritten, misled, approvals,
                  crashes>>
  BY DEF LookForFull, LookForArchive, EndLook, disk, worker, history, counters
<1>2. bak \in Content /\ archive \in Content /\ Absent \in Content
  BY Facts, Contents
<1>3. CASE LookForFull(h)
  <2>. DEFINE v == [phase |-> "half",
                    files |-> [k \in BackupKind |-> IF k = "full" THEN bak ELSE Absent],
                    beside |-> {k \in {"full"} : mkv # Absent}]
  <2>1. v \in View
    BY <1>2 DEF View, BackupKind
  <2>2. views' = [views EXCEPT ![h] = v]
    BY <1>3 DEF LookForFull
  <2>. HIDE DEF v
  <2>3. views' \in [Handlers -> View]
    BY <2>1, <2>2, Views
  <2>. QED BY <1>1, <2>3, Facts, Unmoved
<1>4. CASE LookForArchive(h)
  <2>. DEFINE v == [phase |-> "whole",
                    files |-> [views[h].files EXCEPT !["compact"] = archive],
                    beside |-> views[h].beside \cup {k \in {"compact"} : mkv # Absent}]
  <2>1. v \in View
    <3>1. views[h] \in View
      BY Facts
    <3>2. /\ views[h].files \in [BackupKind -> Content]
          /\ views[h].beside \in SUBSET BackupKind
      BY <3>1 DEF View
    <3>3. [views[h].files EXCEPT !["compact"] = archive] \in [BackupKind -> Content]
      BY <1>2, <3>2
    <3>4. views[h].beside \cup {k \in {"compact"} : mkv # Absent} \in SUBSET BackupKind
      BY <3>2 DEF BackupKind
    <3>. QED BY <3>3, <3>4 DEF View
  <2>2. views' = [views EXCEPT ![h] = v]
    BY <1>4 DEF LookForArchive
  <2>. HIDE DEF v
  <2>3. views' \in [Handlers -> View]
    BY <2>1, <2>2, Views
  <2>. QED BY <1>1, <2>3, Facts, Unmoved
<1>5. CASE EndLook(h)
  <2>1. views' \in [Handlers -> View]
    BY <1>5, Views DEF EndLook
  <2>. QED BY <1>1, <2>1, Facts, Unmoved
<1>. QED BY <1>3, <1>4, <1>5

LEMMA ScanStep ==
    ASSUME Inv, Scan
    PROVE  Inv'
<1>1. /\ UNCHANGED <<mkv, bak, archive, restored, staged, tombstone, seen, found, pc, job, pending,
                     views, gen, waived, deletionApproved, overwritten, misled, approvals,
                     crashes>>
      /\ pc = "idle"
      /\ \/ mkv.form \in Profile7 /\ candidate' = [active |-> TRUE, file |-> mkv]
         \/ candidate' = [candidate EXCEPT !.active = FALSE]
  BY DEF Scan, disk, worker, history, counters
<1>2. /\ candidate' \in [active : BOOLEAN, file : Content]
      /\ candidate'.file \in {mkv, candidate.file}
      /\ candidate'.active => candidate'.file.form \in Profile7
  <2>1. CASE mkv.form \in Profile7 /\ candidate' = [active |-> TRUE, file |-> mkv]
    BY <2>1, Facts
  <2>2. CASE candidate' = [candidate EXCEPT !.active = FALSE]
    BY <2>2, Facts
  <2>. QED BY <1>1, <2>1, <2>2
<1>3. job = NoJob /\ job' = NoJob
  BY <1>1, Facts DEF Names
<1>4. FileTypes' /\ Names' /\ found' \subseteq Pick
  BY <1>1, <1>2, Facts DEF FileTypes, Names
<1>5. FilesOK'
  BY <1>1, <1>2 DEF Inv, FilesOK
<1>6. NoSilentLoss'
  BY <1>1, NothingLost
<1>7. /\ pending' \in Seq(Sound) /\ Len(pending') <= Len(pending)
      /\ overwritten' \subseteq 0 .. MaxGen /\ views' \in [Handlers -> View]
  BY <1>1, Facts
<1>. QED BY <1>1, <1>2, <1>3, <1>4, <1>5, <1>6, <1>7, Idle, WorkerStep

LEMMA ExternalStep ==
    ASSUME Inv, External
    PROVE  Inv'
<1>1. /\ UNCHANGED <<bak, archive, restored, staged, tombstone, seen, found, pc, job, pending,
                     candidate, views, deletionApproved, overwritten, misled, approvals, crashes>>
      /\ ExternalMayWrite
      /\ \/ gen < MaxGen /\ gen' = gen + 1 /\ mkv' = Of(gen + 1, "original")
            /\ waived' = waived \cup 1 .. gen
         \/ gen' = gen /\ mkv' = Absent /\ waived' = waived \cup {mkv.gen}
  BY DEF External, ImportRelease, RemoveRelease, worker, counters
<1>2. /\ gen \in Nat /\ gen <= MaxGen /\ MaxGen \in Nat
      /\ mkv \in Content /\ mkv.gen \in 0 .. MaxGen
  BY Facts, Contents, BoundsAssumption
<1>3. /\ gen <= gen' /\ gen' \in 1 .. MaxGen /\ gen' \in Nat
      /\ waived \subseteq waived' /\ waived' \subseteq 0 .. MaxGen
  BY <1>1, <1>2, Facts DEF HistoryTypes
<1>4. /\ mkv' \in Content /\ mkv'.gen <= gen'
      /\ mkv' = Absent \/ (mkv'.form = "original" /\ 1 .. gen \subseteq waived')
  <2>1. gen + 1 \in 0 .. MaxGen \/ mkv' = Absent
    BY <1>1, <1>2
  <2>2. CASE mkv' = Absent
    BY <2>2, <1>3, Contents
  <2>3. CASE gen' = gen + 1 /\ gen + 1 \in 0 .. MaxGen /\ mkv' = Of(gen + 1, "original")
             /\ waived' = waived \cup 1 .. gen
    BY <2>3, <1>3, Contents DEF Form, Profile7
  <2>. QED BY <1>1, <2>1, <2>2, <2>3
<1>5. /\ pc # "swapping"
  BY <1>1 DEF ExternalMayWrite
<1>6. JobsOK' /\ Len(pending') <= MaxPending
  BY <1>1, <1>3, JobsKept DEF JobsOK, Inv, TypeOK
<1>7. TypeOK'
  <2>1. FileTypes' /\ Names' /\ HistoryTypes' /\ found' \subseteq Pick
    BY <1>1, <1>3, <1>4, Facts DEF FileTypes, Names, HistoryTypes
  <2>2. /\ approvals' \in 0 .. MaxApprovals /\ crashes' \in 0 .. MaxCrashes
        /\ candidate' \in [active : BOOLEAN, file : Content]
        /\ views' \in [Handlers -> View]
    BY <1>1 DEF Inv, TypeOK
  <2>. QED BY <1>6, <2>1, <2>2, TypeIntro
<1>8. FilesOK'
  <2>1. \A c \in {bak, restored, staged, seen, candidate.file} : c.gen \in Nat /\ c.gen <= gen
    BY Facts, Contents DEF Inv, FilesOK
  <2>. QED BY <1>1, <1>2, <1>3, <1>4, <2>1 DEF Inv, FilesOK
<1>9. ConvertOK'
  <2>. SUFFICES ASSUME job.kind \in {"convert", "recovery_backup"}
                PROVE  ConvertOK'
    BY <1>1 DEF ConvertOK
  <2>1. job \in Job /\ JobSound(job)
    BY Facts, NoJobKind
  <2>2. job.file.gen \in 0 .. gen
    BY <2>1, <1>2, JobFields, Contents DEF JobSound
  <2>3. mkv' = Absent \/ job.file.gen \in waived' \cup {0}
    BY <1>2, <1>4, <2>2
  <2>4. mkv' = Absent => mkv'.form = "absent"
    BY Contents
  <2>. QED BY <1>1, <1>4, <1>5, <2>3, <2>4 DEF Inv, ConvertOK, Profile7
<1>10. RestoreOK'
  <2>. SUFFICES ASSUME job.kind = "recovery_restore"
                PROVE  RestoreOK'
    BY <1>1 DEF RestoreOK
  <2>1. job \in Job /\ JobSound(job)
    BY Facts, NoJobKind
  <2>2. job.current \in Content /\ job.current.gen \in 0 .. gen
    BY <2>1, <1>2, JobFields, Contents DEF JobSound
  <2>3. pc # "unlink" => Displaced'
    <3>. SUFFICES ASSUME pc # "unlink"
                  PROVE  job.current.gen \in waived' \cup {0}
      BY <1>1, <1>4 DEF Displaced
    <3>1. mkv = job.current \/ job.current.gen \in waived \cup {0}
      BY DEF Inv, RestoreOK, Displaced
    <3>2. 1 .. gen \subseteq waived' \/ waived' = waived \cup {mkv.gen}
      BY <1>1
    <3>. QED BY <2>2, <3>1, <3>2, <1>2, <1>3
  <2>4. job.current # Absent => mkv' # job.current
    <3>1. mkv' = Absent \/ mkv' = Of(gen + 1, "original")
      BY <1>1
    <3>2. Of(gen + 1, "original").gen = gen + 1 /\ gen + 1 \notin 0 .. gen
      BY <1>2 DEF Of
    <3>. QED BY <2>2, <3>1, <3>2
  <2>5. MadeFrom(job.source, job.current)' <=> MadeFrom(job.source, job.current)
    BY <1>1 DEF MadeFrom
  <2>6. job.recovery_kind = "compact" => job.current # Absent
    BY DEF Inv, RestoreOK
  <2>. DEFINE Result == IF job.recovery_kind = "full"
                        THEN staged = job.source
                        ELSE /\ staged = Absent
                             /\ \/ /\ restored = Of(job.current.gen, "rebuilt")
                                   /\ MadeFrom(job.source, job.current)
                                \/ /\ restored = Of(job.current.gen, "mixed")
                                   /\ ~MadeFrom(job.source, job.current) \/ mkv # job.current
  <2>7. job.recovery_kind # "full" => job.recovery_kind = "compact"
    BY <2>1, JobFields DEF BackupKind
  <2>8. Result => Result'
    BY <1>1, <2>4, <2>5, <2>6, <2>7
  <2>9. pc \in {"hide", "replace"} => Result
    BY DEF Inv, RestoreOK
  <2>. HIDE DEF Result
  <2>10. pc' \in {"hide", "replace"} => Result'
    BY <1>1, <2>8, <2>9
  <2>. QED BY <1>1, <2>3, <2>10 DEF Inv, RestoreOK, Result
<1>11. DeleteOK'
  BY <1>1 DEF Inv, DeleteOK, Artifact
<1>12. NoSilentLoss'
  <2>. SUFFICES ASSUME NEW g \in 1 .. gen',
                       g \notin waived' \cup deletionApproved' \cup overwritten'
                PROVE  Recoverable(g)'
    BY DEF NoSilentLoss
  <2>1. CASE gen' = gen + 1 /\ mkv' = Of(gen + 1, "original") /\ waived' = waived \cup 1 .. gen
    <3>1. g = gen + 1 /\ g \in 0 .. MaxGen
      BY <2>1, <1>2, <1>3
    <3>2. mkv'.gen = g /\ mkv'.form \in Profile7
      BY <2>1, <3>1, Contents DEF Form, Profile7
    <3>. QED BY <3>2 DEF Recoverable
  <2>2. CASE gen' = gen /\ waived' = waived \cup {mkv.gen}
    <3>1. g # mkv.gen /\ Recoverable(g)
      BY <2>2, <1>1 DEF Inv, NoSilentLoss
    <3>2. mkv # Of(g, "converted")
      BY <3>1, <1>2, <1>3, Contents DEF Form
    <3>. QED BY <1>1, <3>1, <3>2 DEF Recoverable
  <2>. QED BY <1>1, <2>1, <2>2
<1>. QED BY <1>6, <1>7, <1>8, <1>9, <1>10, <1>11, <1>12 DEF Inv

-----------------------------------------------------------------------------
(* Jobs begin and end.                                                     *)

LEMMA Taken ==
    ASSUME Inv, TakeJob
    PROVE  /\ pc = "idle" /\ job = NoJob /\ staged = Absent /\ tombstone = Absent
           /\ Head(pending) \in Sound /\ Head(pending) \in Job /\ JobSound(Head(pending))
           /\ pending' \in Seq(Sound) /\ Len(pending') <= Len(pending)
<1>1. pc = "idle" /\ pending # <<>> /\ pending' = Tail(pending) /\ pending \in Seq(Sound)
  BY Facts DEF TakeJob
<1>2. Head(pending) \in Sound /\ Tail(pending) \in Seq(Sound) /\ Len(Tail(pending)) <= Len(pending)
  BY <1>1, SeqTail
<1>. QED BY <1>1, <1>2, Facts DEF Names

(* A job begins: it moves no file.                                         *)
LEMMA BeginStep ==
    ASSUME Inv, TakeJob, UNCHANGED <<disk, candidate, history, views, counters>>,
           job' = Head(pending), seen' \in {seen, mkv}, found' = found,
           pc' \in {"settling", "archiving", "discovering"},
           ConvertOK', RestoreOK', DeleteOK'
    PROVE  Inv'
<1>1. UNCHANGED <<mkv, bak, archive, restored, staged, tombstone, candidate,
                  gen, waived, deletionApproved, overwritten, misled, approvals, crashes>>
  BY DEF disk, history, counters
<1>2. job' # NoJob /\ job' \in Sound /\ pc' # "idle"
  BY Taken, JobFields
<1>3. FileTypes' /\ Names' /\ found' \subseteq Pick
      /\ candidate' \in [active : BOOLEAN, file : Content]
  BY <1>1, <1>2, Facts, Taken DEF FileTypes, Names, PC
<1>4. FilesOK'
  BY <1>1 DEF Inv, FilesOK
<1>5. NoSilentLoss'
  BY <1>1, NothingLost
<1>. QED BY <1>1, <1>2, <1>3, <1>4, <1>5, Taken, Facts, WorkerStep

(* A job that does not pass its first checks is over.                      *)
LEMMA RefusedStep ==
    ASSUME Inv, TakeJob, UNCHANGED <<disk, candidate, worker, history, views, counters>>
    PROVE  Inv'
<1>1. UNCHANGED <<mkv, bak, archive, restored, staged, tombstone, seen, found, pc, job,
                  views, candidate, gen, waived, deletionApproved, overwritten, misled, approvals,
                  crashes>>
  BY DEF disk, worker, history, counters
<1>. QED BY <1>1, Taken, Facts, Unmoved

LEMMA BeginConvertStep ==
    ASSUME Inv, BeginConvert
    PROVE  Inv'
<1>1. /\ TakeJob /\ Head(pending).kind = "convert"
      /\ UNCHANGED <<disk, candidate, history, views, counters>>
  BY DEF BeginConvert
<1>2. CASE UNCHANGED worker
  BY <1>1, <1>2, RefusedStep
<1>3. CASE /\ ConvertChecks(Head(pending))
           /\ job' = Head(pending) /\ pc' = "settling" /\ seen' = mkv /\ found' = found
  <2>1. mkv = Head(pending).file /\ bak = Absent /\ bak' = bak
    BY <1>1, <1>3 DEF ConvertChecks, disk
  <2>2. ConvertOK' /\ RestoreOK' /\ DeleteOK'
    BY <1>1, <1>3, <2>1 DEF ConvertOK, RestoreOK, DeleteOK
  <2>. QED BY <1>1, <1>3, <2>2, BeginStep
<1>. QED BY <1>2, <1>3 DEF BeginConvert

LEMMA BeginArchiveStep ==
    ASSUME Inv, BeginRecoveryBackup
    PROVE  Inv'
<1>1. /\ TakeJob /\ Head(pending).kind = "recovery_backup"
      /\ UNCHANGED <<disk, candidate, history, views, counters>>
  BY DEF BeginRecoveryBackup
<1>2. CASE UNCHANGED worker
  BY <1>1, <1>2, RefusedStep
<1>3. CASE /\ ArchiveChecks(Head(pending))
           /\ job' = Head(pending) /\ pc' = "archiving" /\ seen' = mkv /\ found' = found
  <2>1. mkv = Head(pending).file /\ mkv' = mkv
    BY <1>1, <1>3 DEF ArchiveChecks, disk
  <2>2. mkv.form \in Profile7
    BY <1>1, <2>1, Taken DEF JobSound
  <2>3. ConvertOK' /\ RestoreOK' /\ DeleteOK'
    BY <1>1, <1>3, <2>1, <2>2 DEF ConvertOK, RestoreOK, DeleteOK
  <2>. QED BY <1>1, <1>3, <2>3, BeginStep
<1>. QED BY <1>2, <1>3 DEF BeginRecoveryBackup

LEMMA BeginRestoreStep ==
    ASSUME Inv, BeginRestore
    PROVE  Inv'
<1>1. /\ TakeJob /\ Head(pending).kind = "recovery_restore"
      /\ UNCHANGED <<disk, candidate, history, views, counters>>
  BY DEF BeginRestore
<1>2. CASE UNCHANGED worker
  BY <1>1, <1>2, RefusedStep
<1>3. CASE /\ RestoreChecks(Head(pending))
           /\ job' = Head(pending) /\ pc' = "settling" /\ UNCHANGED <<seen, found>>
  <2>. DEFINE j == Head(pending)
  <2>1. /\ Artifact(j.recovery_kind) = j.source /\ mkv = j.current
        /\ j.compact # Absent => archive = j.compact
        /\ UNCHANGED <<mkv, bak, archive>>
    BY <1>1, <1>3 DEF RestoreChecks, disk
  <2>2. j.recovery_kind = "full" => bak = j.source
    BY <2>1 DEF Artifact
  <2>3. j.recovery_kind = "compact" => j.current # Absent
    BY <1>3 DEF RestoreChecks
  <2>4. ConvertOK' /\ DeleteOK'
    BY <1>1, <1>3 DEF ConvertOK, DeleteOK
  <2>. HIDE DEF j
  <2>5. RestoreOK'
    <3>1. job' = j /\ pc' = "settling" /\ mkv' = j.current
      BY <1>3, <2>1 DEF j
    <3>2. j.recovery_kind = "full" => bak' = j.source
      BY <2>1, <2>2
    <3>3. j.compact # Absent => archive' = j.compact
      BY <2>1
    <3>. QED BY <2>3, <3>1, <3>2, <3>3 DEF RestoreOK
  <2>. QED BY <1>1, <1>3, <2>4, <2>5, BeginStep DEF j
<1>. QED BY <1>2, <1>3 DEF BeginRestore

LEMMA BeginDeleteStep ==
    ASSUME Inv, BeginDelete
    PROVE  Inv'
<1>1. /\ TakeJob /\ Head(pending).kind = "backup_delete"
      /\ UNCHANGED <<disk, candidate, seen, found, history, views, counters>>
      /\ job' = Head(pending) /\ pc' = "discovering"
  BY DEF BeginDelete
<1>2. ConvertOK' /\ RestoreOK' /\ DeleteOK'
  BY <1>1 DEF ConvertOK, RestoreOK, DeleteOK
<1>. QED BY <1>1, <1>2, BeginStep

(* The running job is over; the files it leaves behind are sound.          *)
LEMMA EndStep ==
    ASSUME Inv, EndJob, UNCHANGED <<mkv, bak, pending, history, views, counters>>,
           archive' \in Content, restored' \in Content, restored'.gen <= gen,
           staged' = Absent, tombstone' = Absent,
           candidate' \in {candidate, [candidate EXCEPT !.active = FALSE]},
           NoSilentLoss'
    PROVE  Inv'
<1>1. /\ job' = NoJob /\ pc' = "idle" /\ seen' = Absent /\ found' = {}
      /\ UNCHANGED <<mkv, bak, pending, gen, waived, deletionApproved, overwritten, misled,
                     approvals, crashes>>
  BY DEF EndJob, history, counters
<1>2. /\ candidate' \in [active : BOOLEAN, file : Content]
      /\ candidate'.file = candidate.file
      /\ candidate'.active => candidate.active
  BY Facts
<1>3. FileTypes' /\ Names' /\ found' \subseteq Pick
  BY <1>1, <1>2, Facts, Contents DEF FileTypes, Names, PC
<1>4. FilesOK'
  BY <1>1, <1>2, Facts, Contents DEF Inv, FilesOK
<1>5. pending' \in Seq(Sound) /\ Len(pending') <= Len(pending) /\ job' \in Sound \cup {NoJob}
  BY <1>1, Facts
<1>. QED BY <1>1, <1>2, <1>3, <1>4, <1>5, Idle, Facts, WorkerStep

(* Nothing is in its place but the files a finished job leaves.            *)
LEMMA EndInPlaceStep ==
    ASSUME Inv, EndJob, UNCHANGED <<disk, pending, history, views, counters>>,
           pc \notin {"hide", "replace", "unlink"},
           candidate' \in {candidate, [candidate EXCEPT !.active = FALSE]}
    PROVE  Inv'
<1>1. UNCHANGED <<mkv, bak, archive, restored, staged, tombstone, gen, waived, deletionApproved,
                  overwritten>>
  BY DEF disk, history
<1>2. staged = Absent /\ tombstone = Absent
  BY Facts DEF Names
<1>3. restored.gen <= gen
  BY DEF Inv, FilesOK
<1>4. NoSilentLoss'
  BY <1>1, NothingLost
<1>. QED BY <1>1, <1>2, <1>3, <1>4, Facts, EndStep

LEMMA JobFailsStep ==
    ASSUME Inv, JobFails
    PROVE  Inv'
<1>1. /\ EndJob /\ UNCHANGED <<mkv, bak, tombstone, candidate, pending, history, views, counters>>
      /\ staged' = Absent
      /\ pc \notin {"hide", "replace", "unlink", "idle"}
  BY DEF JobFails
<1>2. UNCHANGED <<gen, waived, deletionApproved, overwritten>>
  BY <1>1 DEF history
<1>3. tombstone' = Absent /\ restored.gen <= gen /\ seen.gen <= gen
  BY <1>1, Facts DEF Names, Inv, FilesOK
<1>4. Of(seen.gen, "partial") \in Content /\ Of(seen.gen, "partial").gen = seen.gen
      /\ Of(seen.gen, "partial").form = "partial"
  BY Facts, Contents DEF Form
<1>5. CASE UNCHANGED <<archive, restored>>
  <2>1. NoSilentLoss'
    BY <1>1, <1>2, <1>5, NothingLost
  <2>. QED BY <1>1, <1>3, <1>5, <2>1, Facts, EndStep
<1>6. CASE pc = "archiving" /\ archive' = Of(seen.gen, "partial") /\ UNCHANGED restored
  <2>1. mkv.form # "converted"
    <3>1. job \in Job /\ job.kind \in {"convert", "recovery_backup"}
      BY <1>6, Facts, JobFields DEF Names, Inv, RestoreOK, DeleteOK
    <3>. QED BY <1>6, <3>1, Contents DEF Inv, ConvertOK, Profile7
  <2>2. \A g : mkv # Of(g, "converted")
    BY <2>1 DEF Of
  <2>3. NoSilentLoss'
    BY <1>1, <1>2, <1>6, <2>2 DEF Inv, NoSilentLoss, Recoverable
  <2>. QED BY <1>1, <1>3, <1>4, <1>6, <2>3, Facts, EndStep
<1>7. CASE pc = "rebuilding" /\ restored' = Of(seen.gen, "partial") /\ UNCHANGED archive
  <2>1. restored = Absent
    <3>1. job \in Job /\ job.kind = "recovery_restore"
      BY <1>7, Facts, JobFields DEF Names, Inv, ConvertOK, DeleteOK
    <3>. QED BY <1>7, <3>1 DEF Inv, RestoreOK
  <2>2. restored.form \notin Profile7
    BY <2>1, Contents DEF Profile7
  <2>3. NoSilentLoss'
    BY <1>1, <1>2, <1>7, <2>2 DEF Inv, NoSilentLoss, Recoverable
  <2>. QED BY <1>1, <1>3, <1>4, <1>7, <2>3, Facts, EndStep
<1>. QED BY <1>5, <1>6, <1>7 DEF JobFails

-----------------------------------------------------------------------------
(* Conversion and recovery-archive creation.                               *)

(* A step in the middle of a job.                                          *)
LEMMA MiddleStep ==
    ASSUME Inv, UNCHANGED <<job, pending, candidate, history, views, counters>>,
           FileTypes', Names', found' \subseteq Pick, FilesOK',
           ConvertOK', RestoreOK', DeleteOK', NoSilentLoss'
    PROVE  Inv'
<1>1. UNCHANGED <<gen, waived, deletionApproved, overwritten, misled, approvals, crashes>>
  BY DEF history, counters
<1>2. /\ pending' \in Seq(Sound) /\ Len(pending') <= Len(pending) /\ job' \in Sound \cup {NoJob}
      /\ candidate' \in [active : BOOLEAN, file : Content]
  BY Facts
<1>. QED BY <1>1, <1>2, Facts, WorkerStep

(* The kind of the running job, from where it is.                          *)
LEMMA KindByPlace ==
    ASSUME Inv
    PROVE  /\ pc \in {"archiving", "converting", "swapping", "exited", "accepted"} =>
                job # NoJob /\ job.kind \in {"convert", "recovery_backup"}
           /\ pc \in {"copying", "rebuilding", "hide", "replace", "unlink"} =>
                job # NoJob /\ job.kind = "recovery_restore"
           /\ pc \in {"discovering", "deleting"} => job # NoJob /\ job.kind = "backup_delete"
           /\ job # NoJob => job \in Job /\ JobSound(job)
<1>1. pc # "idle" => job # NoJob /\ job \in Job /\ JobSound(job)
  BY Facts DEF Names
<1>2. job \in Job =>
        job.kind \in {"convert", "recovery_backup", "recovery_restore", "backup_delete"}
  BY JobFields
<1>. QED BY <1>1, <1>2, Facts DEF Inv, ConvertOK, RestoreOK, DeleteOK, Names

LEMMA StartConversionStep ==
    ASSUME Inv, StartConversion
    PROVE  Inv'
<1>1. /\ UNCHANGED <<mkv, bak, archive, restored, staged, tombstone, gen, waived, deletionApproved,
                     overwritten>>
      /\ UNCHANGED <<job, pending, candidate, found, history, views, counters>>
      /\ pc = "settling" /\ job.kind = "convert" /\ mkv # Absent /\ mkv = seen
      /\ pc' = IF WantsArchive(job) THEN "archiving" ELSE "converting"
      /\ seen' = mkv
  BY DEF StartConversion, FileStable, disk, history
<1>2. seen = job.file /\ bak = Absent
  BY <1>1 DEF Inv, ConvertOK
<1>3. job # NoJob /\ job \in Job /\ JobSound(job)
  BY <1>1, KindByPlace, NoJobKind
<1>4. mkv.form \in Profile7
  BY <1>1, <1>2, <1>3 DEF JobSound
<1>5. FileTypes' /\ Names' /\ found' \subseteq Pick /\ FilesOK'
  BY <1>1, <1>3, Facts DEF FileTypes, Names, PC, Inv, FilesOK
<1>6. ConvertOK' /\ RestoreOK' /\ DeleteOK'
  BY <1>1, <1>2, <1>4 DEF ConvertOK, RestoreOK, DeleteOK, WantsArchive
<1>7. NoSilentLoss'
  BY <1>1, NothingLost
<1>. QED BY <1>1, <1>5, <1>6, <1>7, MiddleStep

LEMMA ToolWritesArchiveStep ==
    ASSUME Inv, ToolWritesArchive
    PROVE  Inv'
<1>1. /\ UNCHANGED <<mkv, bak, restored, staged, tombstone, seen, gen, waived,
                     deletionApproved, overwritten>>
      /\ UNCHANGED <<job, pending, candidate, found, history, views, counters>>
      /\ pc = "archiving" /\ archive' = Of(seen.gen, "archive")
      /\ pc' = IF job.kind = "convert" THEN "converting" ELSE "exited"
  BY DEF ToolWritesArchive, history
<1>2. job # NoJob /\ job.kind \in {"convert", "recovery_backup"}
  BY <1>1, KindByPlace
<1>3. seen = job.file /\ (mkv = Absent \/ mkv.form \in Profile7)
  BY <1>1, <1>2 DEF Inv, ConvertOK
<1>4. archive' \in Content
  BY <1>1, Facts, Contents DEF Form
<1>5. FileTypes' /\ Names' /\ found' \subseteq Pick /\ FilesOK'
  BY <1>1, <1>2, <1>4, Facts DEF FileTypes, Names, PC, Inv, FilesOK
<1>6. ConvertOK'
  BY <1>1, <1>2, <1>3 DEF Inv, ConvertOK
<1>7. RestoreOK' /\ DeleteOK'
  BY <1>1, <1>2 DEF RestoreOK, DeleteOK
<1>8. NoSilentLoss'
  <2>1. \A g : mkv # Of(g, "converted")
    BY <1>3, Contents DEF Of, Profile7
  <2>. QED BY <1>1, <2>1 DEF Inv, NoSilentLoss, Recoverable
<1>. QED BY <1>1, <1>5, <1>6, <1>7, <1>8, MiddleStep

LEMMA ToolMovesOriginalStep ==
    ASSUME Inv, ToolMovesOriginal
    PROVE  Inv' /\ bak = Absent
<1>1. /\ UNCHANGED <<archive, restored, staged, tombstone, seen, gen, waived,
                     deletionApproved, overwritten>>
      /\ UNCHANGED <<job, pending, candidate, found, history, views, counters>>
      /\ pc = "converting" /\ mkv # Absent /\ bak' = mkv /\ mkv' = Absent /\ pc' = "swapping"
  BY DEF ToolMovesOriginal, history
<1>2. job # NoJob /\ job.kind = "convert"
  BY <1>1, KindByPlace DEF Inv, ConvertOK
<1>3. seen = job.file /\ bak = Absent /\ mkv.form \in Profile7
  BY <1>1, <1>2 DEF Inv, ConvertOK
<1>4. FileTypes' /\ Names' /\ found' \subseteq Pick /\ FilesOK'
  BY <1>1, <1>2, <1>3, Facts, Contents DEF FileTypes, Names, PC, Inv, FilesOK
<1>5. ConvertOK'
  BY <1>1, <1>2, <1>3 DEF Inv, ConvertOK
<1>6. RestoreOK' /\ DeleteOK'
  BY <1>1, <1>2 DEF RestoreOK, DeleteOK
<1>7. NoSilentLoss'
  <2>1. \A g : mkv # Of(g, "converted")
    BY <1>3 DEF Of, Profile7
  <2>2. bak.form \notin Profile7
    BY <1>3, Contents DEF Profile7
  <2>. QED BY <1>1, <2>1, <2>2 DEF Inv, NoSilentLoss, Recoverable
<1>. QED BY <1>1, <1>3, <1>4, <1>5, <1>6, <1>7, MiddleStep

LEMMA ToolMovesOutputStep ==
    ASSUME Inv, ToolMovesOutput
    PROVE  Inv'
<1>1. /\ UNCHANGED <<bak, archive, restored, staged, tombstone, seen, gen, waived,
                     deletionApproved, overwritten>>
      /\ UNCHANGED <<job, pending, candidate, found, history, views, counters>>
      /\ pc = "swapping" /\ pc' = "exited"
      /\ mkv' \in {Of(seen.gen, "converted"), Of(seen.gen, "empty")}
  BY DEF ToolMovesOutput, history
<1>2. job # NoJob /\ job.kind = "convert"
  BY <1>1, KindByPlace DEF Inv, ConvertOK
<1>3. seen = job.file /\ mkv = Absent
  BY <1>1, <1>2 DEF Inv, ConvertOK
<1>4. /\ mkv' \in Content /\ mkv'.gen = seen.gen
      /\ mkv' = Of(seen.gen, "converted") \/ mkv'.form = "empty"
  BY <1>1, Facts, Contents DEF Form
<1>5. FileTypes' /\ Names' /\ found' \subseteq Pick /\ FilesOK'
  BY <1>1, <1>2, <1>4, Facts DEF FileTypes, Names, PC, Inv, FilesOK
<1>6. ConvertOK'
  BY <1>1, <1>2, <1>3, <1>4 DEF Inv, ConvertOK
<1>7. RestoreOK' /\ DeleteOK'
  BY <1>1, <1>2 DEF RestoreOK, DeleteOK
<1>8. NoSilentLoss'
  <2>1. mkv.form \notin Profile7 /\ \A g : mkv # Of(g, "converted")
    BY <1>3, Contents DEF Profile7, Of
  <2>. QED BY <1>1, <2>1 DEF Inv, NoSilentLoss, Recoverable
<1>. QED BY <1>1, <1>5, <1>6, <1>7, <1>8, MiddleStep

(* What was converted and validated can be had without the full original.  *)
LEMMA AcceptStep ==
    ASSUME Inv, AcceptConversion
    PROVE  Inv' /\ bak' \in {bak, Absent}
<1>1. /\ UNCHANGED <<mkv, archive, restored, staged, tombstone, seen, gen, waived,
                     deletionApproved, overwritten>>
      /\ UNCHANGED <<job, pending, candidate, found, history, views, counters>>
      /\ pc = "exited" /\ job.kind = "convert" /\ ConversionValid /\ pc' = "accepted"
      /\ bak' = IF job.mode = "compact_only" THEN Absent ELSE bak
  BY DEF AcceptConversion, history
<1>2. job # NoJob /\ seen = job.file
  BY <1>1, KindByPlace DEF Inv, ConvertOK
<1>3. bak' \in Content /\ (bak' = Absent \/ bak'.form \in Profile7) /\ bak'.gen <= gen
  BY <1>1, Facts, Contents DEF Inv, FilesOK
<1>4. FileTypes' /\ Names' /\ found' \subseteq Pick /\ FilesOK'
  BY <1>1, <1>2, <1>3, Facts DEF FileTypes, Names, PC, Inv, FilesOK
<1>5. ConvertOK' /\ RestoreOK' /\ DeleteOK'
  BY <1>1, <1>2 DEF ConvertOK, RestoreOK, DeleteOK
<1>6. NoSilentLoss'
  <2>1. CASE bak' = bak
    BY <1>1, <2>1, NothingLost
  <2>2. CASE job.mode = "compact_only"
    <3>1. archive = Of(job.file.gen, "archive") /\ bak.gen = job.file.gen
      BY <1>1, <2>2 DEF Inv, ConvertOK, ConversionValid
    <3>2. mkv = Of(bak.gen, "converted") \/ bak.gen \in waived \cup {0}
      BY <1>1, <3>1 DEF Inv, ConvertOK, ConversionValid
    <3>. SUFFICES ASSUME NEW g \in 1 .. gen, g \notin waived \cup deletionApproved \cup overwritten
                  PROVE  Recoverable(g)'
      BY <1>1 DEF NoSilentLoss
    <3>3. Recoverable(g)
      BY DEF Inv, NoSilentLoss
    <3>4. CASE g = bak.gen
      BY <1>1, <3>1, <3>2, <3>4 DEF Recoverable
    <3>5. CASE g # bak.gen
      BY <1>1, <3>3, <3>5 DEF Recoverable
    <3>. QED BY <3>4, <3>5
  <2>. QED BY <1>1, <2>1, <2>2
<1>. QED BY <1>1, <1>4, <1>5, <1>6, MiddleStep

LEMMA ConversionEnds ==
    ASSUME Inv, EndRecoveryBackup \/ CompactCleanupFails \/ DeactivateCandidate
    PROVE  Inv'
<1>1. /\ EndJob /\ UNCHANGED <<disk, pending, history, views, counters>>
      /\ pc \in {"exited", "accepted"}
      /\ candidate' \in {candidate, [candidate EXCEPT !.active = FALSE]}
  BY DEF EndRecoveryBackup, CompactCleanupFails, DeactivateCandidate
<1>. QED BY <1>1, EndInPlaceStep

-----------------------------------------------------------------------------
(* Recovery.                                                               *)

LEMMA StartRestoreStep ==
    ASSUME Inv, StartRestore
    PROVE  Inv'
<1>1. /\ UNCHANGED <<mkv, bak, archive, restored, staged, tombstone, gen, waived, deletionApproved,
                     overwritten>>
      /\ UNCHANGED <<job, pending, candidate, found, history, views, counters>>
      /\ pc = "settling" /\ job.kind = "recovery_restore" /\ RestoreRechecks
      /\ pc' = IF job.recovery_kind = "full" THEN "copying" ELSE "rebuilding"
      /\ seen' = mkv
  BY DEF StartRestore, disk, history
<1>2. job # NoJob /\ job \in Job
  BY <1>1, KindByPlace, NoJobKind
<1>3. job.recovery_kind \in {"full", "compact"}
  BY <1>1, <1>2, JobFields DEF BackupKind
<1>4. job.current # Absent => mkv = job.current
  BY <1>1 DEF RestoreRechecks
<1>5. FileTypes' /\ Names' /\ found' \subseteq Pick /\ FilesOK'
  BY <1>1, <1>2, Facts DEF FileTypes, Names, PC, Inv, FilesOK
<1>6. RestoreOK'
  BY <1>1, <1>3, <1>4 DEF Inv, RestoreOK, RestoreRechecks, Displaced
<1>7. ConvertOK' /\ DeleteOK'
  BY <1>1 DEF ConvertOK, DeleteOK
<1>8. NoSilentLoss'
  BY <1>1, NothingLost
<1>. QED BY <1>1, <1>5, <1>6, <1>7, <1>8, MiddleStep

LEMMA CopyStep ==
    ASSUME Inv, CopyOriginal
    PROVE  Inv'
<1>1. /\ UNCHANGED <<mkv, bak, archive, restored, tombstone, seen, gen, waived,
                     deletionApproved, overwritten>>
      /\ UNCHANGED <<job, pending, candidate, found, history, views, counters>>
      /\ pc = "copying" /\ staged' = bak /\ pc' = "hide"
  BY DEF CopyOriginal, history
<1>2. job # NoJob /\ job.kind = "recovery_restore"
  BY <1>1, KindByPlace
<1>3. FileTypes' /\ Names' /\ found' \subseteq Pick /\ FilesOK'
  BY <1>1, <1>2, Facts DEF FileTypes, Names, PC, Inv, FilesOK
<1>4. RestoreOK'
  BY <1>1, <1>2, Facts DEF Inv, RestoreOK, Names, Displaced
<1>5. ConvertOK' /\ DeleteOK'
  BY <1>1, <1>2 DEF ConvertOK, DeleteOK
<1>6. NoSilentLoss'
  BY <1>1, NothingLost
<1>. QED BY <1>1, <1>3, <1>4, <1>5, <1>6, MiddleStep

LEMMA RebuildStep ==
    ASSUME Inv, ToolRebuilds
    PROVE  Inv'
<1>1. /\ UNCHANGED <<mkv, bak, archive, staged, tombstone, seen, gen, waived, deletionApproved,
                     overwritten>>
      /\ UNCHANGED <<job, pending, candidate, found, history, views, counters>>
      /\ pc = "rebuilding" /\ pc' = "hide"
      /\ \/ MadeFrom(archive, seen) /\ restored' = Of(seen.gen, "rebuilt")
         \/ ~(MadeFrom(archive, seen) /\ mkv = seen) /\ restored' = Of(seen.gen, "mixed")
  BY DEF ToolRebuilds, history
<1>2. job # NoJob /\ job.kind = "recovery_restore" /\ JobSound(job)
  BY <1>1, KindByPlace
<1>3. /\ job.recovery_kind = "compact" /\ restored = Absent /\ seen = job.current
      /\ staged = Absent /\ archive = job.source /\ job.current # Absent
  <2>1. job.recovery_kind = "compact" /\ restored = Absent /\ job.current # Absent
    BY <1>1, <1>2 DEF Inv, RestoreOK
  <2>2. job.compact = job.source /\ job.source # Absent
    BY <1>2, <2>1 DEF JobSound
  <2>. QED BY <1>1, <1>2, <2>1, <2>2, Facts DEF Inv, RestoreOK, Names
<1>4. restored' \in Content /\ restored'.gen = seen.gen
  BY <1>1, Facts, Contents DEF Form, Profile7
<1>5. FileTypes' /\ Names' /\ found' \subseteq Pick /\ FilesOK'
  BY <1>1, <1>2, <1>4, Facts DEF FileTypes, Names, PC, Inv, FilesOK
<1>6. RestoreOK'
  <2>1. \/ restored' = Of(job.current.gen, "rebuilt") /\ MadeFrom(job.source, job.current)
        \/ /\ restored' = Of(job.current.gen, "mixed")
           /\ ~MadeFrom(job.source, job.current) \/ mkv # job.current
    BY <1>1, <1>3
  <2>. QED BY <1>1, <1>2, <1>3, <2>1 DEF Inv, RestoreOK, Displaced, MadeFrom
<1>7. ConvertOK' /\ DeleteOK'
  BY <1>1, <1>2 DEF ConvertOK, DeleteOK
<1>8. NoSilentLoss'
  <2>1. restored.form \notin Profile7
    BY <1>3, Contents DEF Profile7
  <2>. QED BY <1>1, <2>1 DEF Inv, NoSilentLoss, Recoverable
<1>. QED BY <1>1, <1>5, <1>6, <1>7, <1>8, MiddleStep

(* While a recovery of the movie it found is being installed, its target   *)
(* can be had from what it installs, and so need not be had from the MKV   *)
(* beside an archive.                                                      *)
LEMMA TargetSafe ==
    ASSUME Inv, pc \in {"hide", "replace"}, mkv = job.current, NEW g \in 1 .. gen, g = mkv.gen,
           g \notin waived
    PROVE  /\ job.source.gen = g
           /\ job.recovery_kind = "full" => bak.gen = g /\ bak.form \in Profile7
           /\ job.recovery_kind # "full" => restored.gen = g /\ restored.form \in Profile7
<1>1. job \in Job /\ JobSound(job) /\ job.kind = "recovery_restore"
  BY KindByPlace
<1>2. g # 0
  BY Facts
<1>3. job.source.gen = g
  BY <1>1, <1>2 DEF JobSound
<1>4. CASE job.recovery_kind = "full"
  <2>1. bak = job.source /\ job.source # Absent
    BY <1>1, <1>4 DEF Inv, RestoreOK, JobSound
  <2>. QED BY <1>2, <1>3, <1>4, <2>1 DEF Inv, FilesOK
<1>5. CASE job.recovery_kind # "full"
  <2>1. job.recovery_kind = "compact"
    BY <1>1, <1>5, JobFields DEF BackupKind
  <2>2. MadeFrom(job.source, job.current)
    BY <1>1, <1>2, <2>1 DEF JobSound
  <2>3. restored = Of(g, "rebuilt")
    BY <1>1, <1>5, <2>2 DEF Inv, RestoreOK
  <2>. QED BY <1>3, <1>5, <2>3 DEF Profile7, Of
<1>. QED BY <1>3, <1>4, <1>5

LEMMA HideStep ==
    ASSUME Inv, HideArchive
    PROVE  Inv'
<1>1. /\ UNCHANGED <<mkv, bak, restored, staged, seen, gen, waived, deletionApproved, overwritten>>
      /\ UNCHANGED <<job, pending, candidate, found, history, views, counters>>
      /\ pc = "hide" /\ pc' = "replace"
      /\ \/ job.compact = Absent /\ UNCHANGED <<archive, tombstone>>
         \/ job.compact # Absent /\ tombstone' = archive /\ archive' = Absent
  BY DEF HideArchive, history
<1>2. job # NoJob /\ job.kind = "recovery_restore" /\ tombstone = Absent
  BY <1>1, KindByPlace, Facts DEF Names
<1>3. archive' \in Content /\ tombstone' \in Content
  BY <1>1, Facts, Contents
<1>4. FileTypes' /\ Names' /\ found' \subseteq Pick /\ FilesOK'
  BY <1>1, <1>2, <1>3, Facts DEF FileTypes, Names, PC, Inv, FilesOK
<1>5. RestoreOK'
  BY <1>1, <1>2 DEF Inv, RestoreOK, Displaced, MadeFrom
<1>6. ConvertOK' /\ DeleteOK'
  BY <1>1, <1>2 DEF ConvertOK, DeleteOK
<1>7. NoSilentLoss'
  <2>. SUFFICES ASSUME NEW g \in 1 .. gen, g \notin waived \cup deletionApproved \cup overwritten
                PROVE  Recoverable(g)'
    BY <1>1 DEF NoSilentLoss
  <2>1. Recoverable(g)
    BY DEF Inv, NoSilentLoss
  <2>2. CASE g = mkv.gen
    <3>1. CASE mkv = job.current
      BY <1>1, <2>2, <3>1, TargetSafe DEF Recoverable
    <3>2. CASE mkv # job.current
      <4>1. mkv.form = "original"
        BY <1>1, <1>2, <2>2, <3>2, Contents DEF Inv, RestoreOK, Displaced
      <4>. QED BY <1>1, <2>2, <4>1 DEF Recoverable, Profile7
    <3>. QED BY <3>1, <3>2
  <2>3. CASE g # mkv.gen
    <3>1. mkv # Of(g, "converted")
      BY <2>3 DEF Of
    <3>. QED BY <1>1, <2>1, <3>1 DEF Recoverable
  <2>. QED BY <2>2, <2>3
<1>. QED BY <1>1, <1>4, <1>5, <1>6, <1>7, MiddleStep

LEMMA ReplaceStep ==
    ASSUME Inv, ReplaceMkv
    PROVE  /\ Inv'
           /\ AppliedAsAsked => mkv'.gen = job.source.gen /\ mkv'.form \in Profile7
<1>1. /\ UNCHANGED <<bak, archive, tombstone, seen, gen, waived, deletionApproved, misled>>
      /\ UNCHANGED <<job, pending, candidate, found, views, approvals, crashes>>
      /\ pc = "replace" /\ pc' = "unlink"
      /\ \/ /\ job.recovery_kind = "full" /\ mkv' = staged
            /\ staged' = Absent /\ restored' = restored
         \/ /\ job.recovery_kind # "full" /\ mkv' = restored
            /\ restored' = Absent /\ staged' = staged
      /\ overwritten' = IF mkv = seen /\ job.current # Absent
                        THEN overwritten
                        ELSE overwritten \cup ({mkv.gen} \ {0})
  BY DEF ReplaceMkv, Replacement, DropStaged, counters
<1>2. job # NoJob /\ job.kind = "recovery_restore" /\ job \in Job /\ JobSound(job)
  BY <1>1, KindByPlace
<1>3. /\ overwritten \subseteq overwritten' /\ overwritten' \subseteq 0 .. MaxGen
      /\ mkv.gen \notin overwritten' /\ mkv.gen # 0 => mkv = job.current
  <2>1. mkv.gen \in 0 .. MaxGen /\ overwritten \subseteq 0 .. MaxGen
    BY Facts, Contents
  <2>2. job.current # Absent => seen = job.current
    BY <1>1, <1>2 DEF Inv, RestoreOK
  <2>. QED BY <1>1, <2>1, <2>2
<1>4. /\ staged' = Absent
      /\ mkv' \in Content /\ mkv'.gen <= gen /\ restored' \in Content /\ restored'.gen <= gen
  <2>1. job.recovery_kind # "full" => staged = Absent
    BY <1>1, <1>2 DEF Inv, RestoreOK
  <2>. QED BY <1>1, <2>1, Facts, Contents DEF Inv, FilesOK
<1>5. AppliedAsAsked => mkv'.gen = job.source.gen /\ mkv'.form \in Profile7
  <2>1. CASE job.recovery_kind = "full"
    <3>1. staged = job.source /\ bak = job.source /\ job.source # Absent
      BY <1>1, <1>2, <2>1 DEF Inv, RestoreOK, JobSound
    <3>. QED BY <1>1, <2>1, <3>1 DEF Inv, FilesOK
  <2>2. CASE job.recovery_kind # "full"
    <3>. SUFFICES ASSUME AppliedAsAsked
                  PROVE  restored.gen = job.source.gen /\ restored.form \in Profile7
      BY <1>1, <2>2
    <3>1. job.recovery_kind = "compact"
      BY <1>2, <2>2, JobFields DEF BackupKind
    <3>2. MadeFrom(job.source, job.current) /\ mkv = job.current
      BY <3>1 DEF AppliedAsAsked
    <3>3. restored = Of(job.current.gen, "rebuilt")
      BY <1>1, <1>2, <2>2, <3>2 DEF Inv, RestoreOK
    <3>. QED BY <3>2, <3>3 DEF MadeFrom, Of, Profile7
  <2>. QED BY <2>1, <2>2
<1>6. FileTypes' /\ Names' /\ found' \subseteq Pick /\ FilesOK'
  BY <1>1, <1>2, <1>4, Facts, Contents DEF FileTypes, Names, PC, Inv, FilesOK
<1>7. RestoreOK'
  BY <1>1, <1>2 DEF Inv, RestoreOK
<1>8. ConvertOK' /\ DeleteOK'
  BY <1>1, <1>2 DEF ConvertOK, DeleteOK
<1>9. NoSilentLoss'
  <2>. SUFFICES ASSUME NEW g \in 1 .. gen, g \notin waived \cup deletionApproved \cup overwritten'
                PROVE  Recoverable(g)'
    BY <1>1 DEF NoSilentLoss
  <2>1. Recoverable(g) /\ g # 0
    BY <1>3, Facts DEF Inv, NoSilentLoss
  <2>2. job.recovery_kind # "full" /\ restored.gen = g /\ restored.form \in Profile7
          => Recoverable(g)'
    BY <1>1 DEF Recoverable
  <2>3. CASE g = mkv.gen
    <3>1. mkv = job.current
      BY <1>3, <2>1, <2>3
    <3>2. CASE job.recovery_kind = "full"
      BY <1>1, <2>3, <3>1, <3>2, TargetSafe DEF Recoverable
    <3>3. CASE job.recovery_kind # "full"
      BY <1>1, <2>2, <2>3, <3>1, <3>3, TargetSafe
    <3>. QED BY <3>2, <3>3
  <2>4. CASE g # mkv.gen
    <3>1. mkv # Of(g, "converted")
      BY <2>4 DEF Of
    <3>2. \/ bak.gen = g /\ bak.form \in Profile7
          \/ restored.gen = g /\ restored.form \in Profile7
      BY <2>1, <2>4, <3>1 DEF Recoverable
    <3>. QED BY <1>1, <2>2, <3>2 DEF Recoverable
  <2>. QED BY <2>3, <2>4
<1>10. /\ pending' \in Seq(Sound) /\ Len(pending') <= Len(pending) /\ job' \in Sound \cup {NoJob}
       /\ candidate' \in [active : BOOLEAN, file : Content] /\ views' \in [Handlers -> View]
  BY <1>1, Facts
<1>11. Inv'
  BY <1>1, <1>3, <1>6, <1>7, <1>8, <1>9, <1>10, WorkerStep
<1>. QED BY <1>5, <1>11

LEMMA UnlinkStep ==
    ASSUME Inv, UnlinkTombstone
    PROVE  Inv'
<1>1. /\ UNCHANGED <<mkv, bak, archive, restored, staged, candidate, pending, history, views,
                     counters>>
      /\ pc = "unlink" /\ tombstone' = Absent /\ EndJob
  BY DEF UnlinkTombstone
<1>2. staged = Absent /\ restored.gen <= gen
  BY <1>1, Facts DEF Names, Inv, FilesOK
<1>3. UNCHANGED <<gen, waived, deletionApproved, overwritten>>
  BY <1>1 DEF history
<1>4. NoSilentLoss'
  BY <1>1, <1>3, NothingLost
<1>. QED BY <1>1, <1>2, <1>4, Facts, EndStep

(* Undone, a recovery leaves what it found.                                *)
LEMMA InstallFailsStep ==
    ASSUME Inv, InstallFails
    PROVE  Inv'
<1>1. /\ UNCHANGED <<mkv, bak, candidate, pending, history, views, counters>>
      /\ pc \in {"hide", "replace"} /\ EndJob
      /\ archive' = (IF tombstone = Absent THEN archive ELSE tombstone) /\ tombstone' = Absent
      /\ \/ job.recovery_kind = "full" /\ staged' = Absent /\ restored' = restored
         \/ job.recovery_kind # "full" /\ restored' = Absent /\ staged' = staged
  BY DEF InstallFails, RollBack, DropStaged
<1>2. job # NoJob /\ job.kind = "recovery_restore" /\ job \in Job /\ JobSound(job)
  BY <1>1, KindByPlace
<1>3. UNCHANGED <<gen, waived, deletionApproved, overwritten>>
  BY <1>1 DEF history
<1>4. staged' = Absent
  BY <1>1, <1>2 DEF Inv, RestoreOK
<1>5. /\ archive' \in Content /\ restored' \in Content /\ restored'.gen <= gen
  BY <1>1, Facts, Contents DEF Inv, FilesOK
<1>6. archive' = archive \/ (pc = "replace" /\ archive = Absent)
  <2>1. tombstone # Absent => pc = "replace" /\ tombstone = job.compact
    BY <1>1, <1>2, Facts DEF Names, Inv, RestoreOK
  <2>. QED BY <1>1, <1>2, <2>1 DEF Inv, RestoreOK
<1>7. ASSUME NEW g \in 1 .. gen, g \notin waived, job.recovery_kind # "full",
             restored.gen = g, restored.form \in Profile7
      PROVE  mkv = Of(g, "converted") /\ archive' = Of(g, "archive")
  <2>1. job.recovery_kind = "compact" /\ job.source \in Content /\ g # 0
    BY <1>2, <1>7, JobFields, Facts DEF BackupKind
  <2>2. /\ job.source # Absent /\ job.source.form = "archive" /\ job.compact = job.source
    BY <1>2, <2>1 DEF JobSound
  <2>3. /\ restored = Of(job.current.gen, "rebuilt")
        /\ MadeFrom(job.source, job.current)
    BY <1>1, <1>2, <1>7 DEF Inv, RestoreOK, Of, Profile7
  <2>4. archive' = job.compact
    BY <1>1, <1>2, <2>2, Facts DEF Inv, RestoreOK, Names
  <2>5. job.source = Of(job.source.gen, "archive")
    BY <2>1, <2>2, Contents
  <2>6. job.current.gen = job.source.gen /\ job.current.gen = g
    BY <1>7, <2>3 DEF MadeFrom, Of
  <2>7. mkv = job.current
    BY <1>1, <1>2, <1>7, <2>1, <2>6 DEF Inv, RestoreOK, Displaced
  <2>. QED BY <2>2, <2>3, <2>4, <2>5, <2>6, <2>7 DEF MadeFrom
<1>8. NoSilentLoss'
  <2>. SUFFICES ASSUME NEW g \in 1 .. gen, g \notin waived \cup deletionApproved \cup overwritten
                PROVE  Recoverable(g)'
    BY <1>3 DEF NoSilentLoss
  <2>1. Recoverable(g)
    BY DEF Inv, NoSilentLoss
  <2>2. archive # Of(g, "archive") \/ archive' = archive
    BY <1>6 DEF Absent, Of
  <2>3. CASE job.recovery_kind = "full"
    BY <1>1, <2>1, <2>2, <2>3 DEF Recoverable
  <2>4. CASE job.recovery_kind # "full"
    <3>1. restored.gen = g /\ restored.form \in Profile7 => Recoverable(g)'
      BY <1>1, <1>7, <2>4 DEF Recoverable
    <3>2. ~(restored.gen = g /\ restored.form \in Profile7) => Recoverable(g)'
      BY <1>1, <2>1, <2>2 DEF Recoverable
    <3>. QED BY <3>1, <3>2
  <2>. QED BY <2>3, <2>4
<1>. QED BY <1>1, <1>4, <1>5, <1>8, EndStep

-----------------------------------------------------------------------------
(* Deletion.                                                               *)

LEMMA DiscoverStep ==
    ASSUME Inv, Discover
    PROVE  Inv'
<1>1. /\ UNCHANGED <<mkv, bak, archive, restored, staged, tombstone, seen, gen, waived,
                     deletionApproved, overwritten>>
      /\ UNCHANGED <<job, pending, candidate, history, views, counters>>
      /\ pc = "discovering" /\ pc' = "deleting" /\ found' \subseteq Deletable
  BY DEF Discover, disk, history
<1>2. job # NoJob /\ job.kind = "backup_delete"
  BY <1>1, KindByPlace
<1>3. \A p \in found' : p \in Pick /\ p.file = Artifact(p.kind)
  <2>1. \A k \in BackupKind : Artifact(k) \in Content
    BY Facts DEF Artifact
  <2>2. \A p \in Deletable : p \in Pick /\ p.file = Artifact(p.kind)
    BY <2>1 DEF Deletable, PresentKinds, Pick
  <2>. QED BY <1>1, <2>2
<1>4. FileTypes' /\ Names' /\ found' \subseteq Pick /\ FilesOK'
  BY <1>1, <1>2, <1>3, Facts DEF FileTypes, Names, PC, Inv, FilesOK
<1>5. DeleteOK'
  BY <1>1, <1>2, <1>3 DEF DeleteOK, Artifact
<1>6. ConvertOK' /\ RestoreOK'
  BY <1>1, <1>2 DEF ConvertOK, RestoreOK
<1>7. NoSilentLoss'
  BY <1>1, NothingLost
<1>. QED BY <1>1, <1>4, <1>5, <1>6, <1>7, MiddleStep

(* What is deleted was picked, and so its release was given up.            *)
LEMMA DeleteNextStep ==
    ASSUME Inv, NEW p \in Pick, DeleteNext(p)
    PROVE  Inv' /\ bak' \in {bak, Absent}
<1>1. /\ UNCHANGED <<mkv, restored, staged, tombstone, seen, gen, waived, deletionApproved,
                     misled, approvals, crashes>>
      /\ UNCHANGED <<pending, candidate, pc, found, views, overwritten>>
      /\ pc = "deleting" /\ p \in job.picks
      /\ job' = [job EXCEPT !.picks = @ \ {p}]
      /\ bak' = IF p \in found /\ p.kind = "full" THEN Absent ELSE bak
      /\ archive' = IF p \in found /\ p.kind = "compact" THEN Absent ELSE archive
  BY DEF DeleteNext, history, counters
<1>2. job # NoJob /\ job.kind = "backup_delete" /\ job \in Job /\ JobSound(job)
  BY <1>1, KindByPlace
<1>3. p.file.gen \in deletionApproved
  BY <1>1, <1>2 DEF JobSound
<1>4. job' \in Job /\ job'.kind = "backup_delete" /\ job'.picks = job.picks \ {p}
  BY <1>1, <1>2, ShrinkJob
<1>5. job' \in Sound
  <2>1. \A j \in Job : j.kind = "backup_delete" /\ j.picks \subseteq job.picks => JobSound(j)
    BY <1>2 DEF JobSound
  <2>. QED BY <1>4, <2>1 DEF Sound
<1>6. p \in found => Artifact(p.kind) \in {Absent, p.file}
  BY <1>1, <1>2 DEF Inv, DeleteOK
<1>7. FileTypes' /\ Names' /\ found' \subseteq Pick /\ FilesOK'
  <2>1. bak' \in Content /\ archive' \in Content /\ bak' \in {bak, Absent}
    BY <1>1, Facts, Contents
  <2>2. job' # NoJob
    BY <1>4, NoJobKind
  <2>. QED BY <1>1, <1>2, <2>1, <2>2, Facts, Contents DEF FileTypes, Names, PC, Inv, FilesOK
<1>8. DeleteOK'
  BY <1>1, <1>2, <1>4 DEF Inv, DeleteOK, Artifact
<1>9. ConvertOK' /\ RestoreOK'
  BY <1>4 DEF ConvertOK, RestoreOK
<1>10. NoSilentLoss'
  <2>. SUFFICES ASSUME NEW g \in 1 .. gen, g \notin waived \cup deletionApproved \cup overwritten
                PROVE  Recoverable(g)'
    BY <1>1 DEF NoSilentLoss
  <2>1. Recoverable(g) /\ g # p.file.gen /\ g # 0
    BY <1>3, Facts DEF Inv, NoSilentLoss
  <2>2. bak.gen = g => bak' = bak
    BY <1>1, <1>6, <2>1, Contents DEF Artifact
  <2>3. archive = Of(g, "archive") => archive' = archive
    <3>1. archive = Of(g, "archive") => archive.gen = g
      BY DEF Of
    <3>. QED BY <1>1, <1>6, <2>1, <3>1, Contents DEF Artifact
  <2>. QED BY <1>1, <2>1, <2>2, <2>3 DEF Recoverable
<1>11. pending' \in Seq(Sound) /\ Len(pending') <= Len(pending)
       /\ candidate' \in [active : BOOLEAN, file : Content]
       /\ views' \in [Handlers -> View] /\ overwritten' \subseteq 0 .. MaxGen
  BY <1>1, Facts
<1>12. Inv'
  BY <1>1, <1>5, <1>7, <1>8, <1>9, <1>10, <1>11, WorkerStep
<1>. QED BY <1>1, <1>12

LEMMA EndDeleteStep ==
    ASSUME Inv, EndDelete
    PROVE  Inv'
<1>1. EndJob /\ UNCHANGED <<disk, pending, candidate, history, views, counters>> /\ pc = "deleting"
  BY DEF EndDelete
<1>. QED BY <1>1, EndInPlaceStep

-----------------------------------------------------------------------------
(* A job stops, and what is named after its id is never looked at again.   *)
LEMMA StopStep ==
    ASSUME Inv, EndJob, staged' = Absent, tombstone' = Absent, misled' \in BOOLEAN,
           UNCHANGED <<mkv, bak, archive, restored, candidate, pending, gen, waived,
                       deletionApproved, overwritten, approvals>>,
           crashes' \in 0 .. MaxCrashes, views' \in [Handlers -> View]
    PROVE  Inv'
<1>1. job' = NoJob /\ pc' = "idle" /\ seen' = Absent /\ found' = {}
  BY DEF EndJob
<1>2. JobsOK' /\ Len(pending') <= MaxPending
  BY <1>1, Facts, JobsKept DEF JobsOK, Inv, TypeOK
<1>3. TypeOK'
  <2>1. FileTypes' /\ Names' /\ found' \subseteq Pick
        /\ candidate' \in [active : BOOLEAN, file : Content]
    BY <1>1, Facts, Contents DEF FileTypes, Names, PC
  <2>2. HistoryTypes'
    BY <1>1, Facts DEF HistoryTypes
  <2>3. approvals' \in 0 .. MaxApprovals
    BY DEF Inv, TypeOK
  <2>. QED BY <1>2, <2>1, <2>2, <2>3, TypeIntro
<1>4. FilesOK'
  BY <1>1, Facts, Contents DEF Inv, FilesOK
<1>5. NoSilentLoss'
  BY <1>1, NothingLost
<1>. QED BY <1>1, <1>2, <1>3, <1>4, <1>5, Idle DEF Inv

LEMMA RollBackFailsStep ==
    ASSUME Inv, RollBackFails
    PROVE  Inv'
<1>1. /\ EndJob /\ staged' = Absent /\ tombstone' = Absent /\ misled' \in BOOLEAN
      /\ UNCHANGED <<mkv, bak, archive, restored, candidate, pending, gen, waived,
                     deletionApproved, overwritten, approvals, crashes, views>>
  BY DEF RollBackFails, counters
<1>2. crashes' \in 0 .. MaxCrashes
  BY <1>1 DEF Inv, TypeOK
<1>3. views' \in [Handlers -> View]
  BY <1>1, Facts
<1>. QED BY <1>1, <1>2, <1>3, StopStep

LEMMA CrashStep ==
    ASSUME Inv, Crash
    PROVE  Inv'
<1>1. /\ EndJob /\ staged' = Absent /\ tombstone' = Absent /\ misled' \in BOOLEAN
      /\ UNCHANGED <<mkv, bak, archive, restored, candidate, pending, gen, waived,
                     deletionApproved, overwritten, approvals>>
      /\ crashes < MaxCrashes /\ crashes' = crashes + 1
      /\ views' = [h \in Handlers |-> NoView]
  BY DEF Crash
<1>2. crashes' \in 0 .. MaxCrashes
  BY <1>1, BoundsAssumption DEF Inv, TypeOK
<1>3. NoView \in View
  BY Contents DEF NoView, View
<1>4. views' \in [Handlers -> View]
  BY <1>1, <1>3
<1>. QED BY <1>1, <1>2, <1>4, StopStep

-----------------------------------------------------------------------------
(* The theorems.                                                           *)

LEMMA InvInit == Init => Inv
<1>. SUFFICES ASSUME Init
              PROVE  Inv
  OBVIOUS
<1>1. /\ MaxGen \in Nat /\ MaxGen >= 1 /\ MaxPending \in Nat
      /\ MaxApprovals \in Nat /\ MaxCrashes \in Nat
  BY BoundsAssumption
<1>2. /\ mkv \in Content /\ mkv.gen = 1 /\ mkv.form = "original" /\ mkv # Absent
      /\ \A c \in {bak, archive, restored, staged, tombstone, seen, candidate.file} :
            c = Absent /\ c \in Content
  <2>1. 1 \in 0 .. MaxGen /\ "original" \in Form
    BY <1>1 DEF Form, Profile7
  <2>2. mkv \in Content /\ mkv.gen = 1 /\ mkv.form = "original"
    BY <2>1, Contents DEF Init
  <2>3. candidate.file = Absent
    BY DEF Init
  <2>. QED BY <2>2, <2>3, Contents DEF Init
<1>3. JobsOK /\ Len(pending) = 0 /\ pending \in Seq(Job)
  BY DEF Init, JobsOK
<1>4. FileTypes /\ Names
  BY <1>2 DEF Init, FileTypes, Names, PC
<1>5. HistoryTypes
  <2>1. misled \in BOOLEAN
    BY DEF Init
  <2>. QED BY <1>1, <2>1 DEF Init, HistoryTypes
<1>6. TypeOK
  <2>1. QueueTypes /\ found \subseteq Pick /\ approvals \in 0 .. MaxApprovals
        /\ crashes \in 0 .. MaxCrashes
    BY <1>1, <1>3 DEF Init, QueueTypes
  <2>2. candidate \in [active : BOOLEAN, file : Content]
    BY Contents DEF Init
  <2>3. NoView \in View
    BY Contents DEF NoView, View
  <2>4. views \in [Handlers -> View]
    BY <2>3 DEF Init
  <2>. QED BY <1>4, <1>5, <2>1, <2>2, <2>4, TypeParts
<1>7. FilesOK
  BY <1>2, Contents DEF Init, FilesOK
<1>8. ConvertOK /\ RestoreOK /\ DeleteOK
  BY NoJobKind DEF Init, ConvertOK, RestoreOK, DeleteOK
<1>9. NoSilentLoss
  BY <1>2 DEF Init, NoSilentLoss, Recoverable, Profile7
<1>. QED BY <1>3, <1>6, <1>7, <1>8, <1>9 DEF Inv

LEMMA UserStep ==
    ASSUME Inv, User
    PROVE  Inv'
BY ApproveConvertStep, ApproveArchiveStep, ApproveRestoreStep, ApproveDeleteStep, LookStep,
   CancelStep
DEF User

LEMMA ConversionStep ==
    ASSUME Inv, Conversion
    PROVE  Inv'
BY BeginConvertStep, StartConversionStep, BeginArchiveStep, ToolWritesArchiveStep,
   ToolMovesOriginalStep, ToolMovesOutputStep, AcceptStep, ConversionEnds
DEF Conversion

LEMMA RecoveryStep ==
    ASSUME Inv, Recovery
    PROVE  Inv'
BY BeginRestoreStep, StartRestoreStep, CopyStep, RebuildStep, HideStep, ReplaceStep, UnlinkStep,
   InstallFailsStep, RollBackFailsStep
DEF Recovery

LEMMA DeletionStep ==
    ASSUME Inv, Deletion
    PROVE  Inv'
BY BeginDeleteStep, DiscoverStep, DeleteNextStep, EndDeleteStep DEF Deletion

LEMMA InvInductive == Spec => []Inv
<1>1. Inv /\ [Next]_vars => Inv'
  BY UserStep, ExternalStep, ScanStep, ConversionStep, RecoveryStep, DeletionStep, JobFailsStep,
     CrashStep, StutterStep
  DEF Next
<1>. QED BY InvInit, <1>1, PTL DEF Spec

(* The variables keep their types, and a recovery's temporary names exist  *)
(* only while it installs its result.                                      *)
THEOREM MovieTypes == Spec => []TypeOK
<1>1. Inv => TypeOK
  BY DEF Inv
<1>. QED BY InvInductive, <1>1, PTL

(* No conversion, recovery, failure, half-undone recovery, cancellation or *)
(* crash loses a release that neither Radarr nor an approval gave up and   *)
(* that did not arrive after the last check of a recovery.                 *)
THEOREM NothingIsLost == Spec => []NoSilentLoss
<1>1. Inv => NoSilentLoss
  BY DEF Inv
<1>. QED BY InvInductive, <1>1, PTL

(* dovi_convert converts the very file that was approved.                  *)
THEOREM ApprovedIsConverted == Spec => ConvertsApprovedContent
<1>1. Inv /\ [Next]_vars =>
        (pc = "settling" /\ pc' \in {"archiving", "converting"} => mkv = job.file)
  <2>. SUFFICES ASSUME Inv, [Next]_vars, pc = "settling", pc' \in {"archiving", "converting"}
                PROVE  mkv = job.file
    OBVIOUS
  <2>1. ~UNCHANGED pc
    OBVIOUS
  <2>2. ~User
    BY <2>1
    DEF User, ApproveConvert, ApproveRecoveryBackup, ApproveRestore, ApproveDelete, Enqueue,
        LookForFull, LookForArchive, EndLook, CancelQueuedJob, worker
  <2>3. ~External /\ ~Scan
    BY <2>1 DEF External, ImportRelease, RemoveRelease, Scan, worker
  <2>4. ~Deletion /\ ~Recovery /\ ~JobFails /\ ~Crash
    BY DEF Deletion, BeginDelete, Discover, DeleteNext, EndDelete, Recovery, BeginRestore,
           StartRestore, CopyOriginal, ToolRebuilds, HideArchive, ReplaceMkv, UnlinkTombstone,
           InstallFails, RollBackFails, JobFails, Crash, EndJob, TakeJob
  <2>5. StartConversion
    BY <2>1, <2>2, <2>3, <2>4
    DEF Next, Conversion, BeginConvert, BeginRecoveryBackup, TakeJob, ToolWritesArchive,
        ToolMovesOriginal, ToolMovesOutput, EndRecoveryBackup, AcceptConversion,
        CompactCleanupFails, DeactivateCandidate, EndJob, vars, worker
  <2>. QED BY <2>5 DEF StartConversion, FileStable, Inv, ConvertOK
<1>. QED BY InvInductive, <1>1, PTL DEF Spec, ConvertsApprovedContent

(* A full backup is kept or removed, never replaced by another file.       *)
THEOREM BackupIsKept == Spec => BackupNeverOverwritten
<1>1. Inv /\ [Next]_vars => (bak # Absent => bak' \in {bak, Absent})
  <2>. SUFFICES ASSUME Inv, [Next]_vars, bak # Absent
                PROVE  bak' \in {bak, Absent}
    OBVIOUS
  <2>1. CASE User \/ External \/ Scan \/ JobFails \/ Crash \/ UNCHANGED vars
    BY <2>1
    DEF User, ApproveConvert, ApproveRecoveryBackup, ApproveRestore, ApproveDelete, Enqueue,
        LookForFull, LookForArchive, EndLook, CancelQueuedJob, External, ImportRelease,
        RemoveRelease, Scan, JobFails, Crash, disk, vars
  <2>2. CASE Conversion
    <3>1. \/ bak' = bak
          \/ ToolMovesOriginal
          \/ AcceptConversion
      BY <2>2
      DEF Conversion, BeginConvert, StartConversion, BeginRecoveryBackup, ToolWritesArchive,
          ToolMovesOutput, EndRecoveryBackup, CompactCleanupFails, DeactivateCandidate, disk
    <3>. QED BY <3>1, ToolMovesOriginalStep, AcceptStep
  <2>3. CASE Recovery
    BY <2>3
    DEF Recovery, BeginRestore, StartRestore, CopyOriginal, ToolRebuilds, HideArchive, ReplaceMkv,
        UnlinkTombstone, InstallFails, RollBackFails, disk
  <2>4. CASE Deletion
    <3>1. \/ bak' = bak
          \/ \E p \in Pick : DeleteNext(p)
      BY <2>4 DEF Deletion, BeginDelete, Discover, EndDelete, disk
    <3>. QED BY <3>1, DeleteNextStep
  <2>. QED BY <2>1, <2>2, <2>3, <2>4 DEF Next
<1>. QED BY InvInductive, <1>1, PTL DEF Spec, BackupNeverOverwritten

(* Only the installation of a recovery leads from replace to unlink.       *)
LEMMA Replacing ==
    ASSUME [Next]_vars, pc = "replace", pc' = "unlink"
    PROVE  ReplaceMkv
<1>1. ~User
  BY DEF User, ApproveConvert, ApproveRecoveryBackup, ApproveRestore, ApproveDelete, Enqueue,
         LookForFull, LookForArchive, EndLook, CancelQueuedJob, worker
<1>2. ~External /\ ~Scan /\ ~JobFails /\ ~Crash /\ ~UNCHANGED vars
  BY DEF External, ImportRelease, RemoveRelease, Scan, JobFails, Crash, EndJob, worker, vars
<1>3. ~Conversion
  BY DEF Conversion, BeginConvert, StartConversion, BeginRecoveryBackup, ToolWritesArchive,
         ToolMovesOriginal, ToolMovesOutput, EndRecoveryBackup, AcceptConversion,
         CompactCleanupFails, DeactivateCandidate, TakeJob
<1>4. ~Deletion
  BY DEF Deletion, BeginDelete, Discover, DeleteNext, EndDelete, TakeJob
<1>5. Recovery
  BY <1>1, <1>2, <1>3, <1>4 DEF Next
<1>. QED
  BY <1>5
  DEF Recovery, BeginRestore, StartRestore, CopyOriginal, ToolRebuilds, HideArchive,
      UnlinkTombstone, InstallFails, RollBackFails, EndJob, TakeJob

(* A recovery that applies an archive only to the movie it was made from   *)
(* installs the Profile 7 version of the approved source.                  *)
THEOREM ApprovedIsInstalled == Spec => InstallsApprovedSource
<1>1. Inv /\ [Next]_vars =>
        (pc = "replace" /\ pc' = "unlink" /\ AppliedAsAsked =>
            mkv'.gen = job.source.gen /\ mkv'.form \in Profile7)
  BY Replacing, ReplaceStep
<1>. QED BY InvInductive, <1>1, PTL DEF Spec, InstallsApprovedSource

-----------------------------------------------------------------------------
(* The acknowledgement.  Only the newest release matters: an import gives  *)
(* up the ones before it.                                                  *)

(* The newest release is counted on: neither it nor the count was given up.*)
Counted == ~misled /\ gen \notin waived \cup overwritten

(* The running conversion removes the full original when it succeeds.      *)
KeepsArchiveOnly == job.kind = "convert" /\ job.mode = "compact_only"

Waiting == {i \in 1 .. Len(pending) : pending[i].kind = "backup_delete"}
Deletions == {j \in ActiveJobs : j.kind = "backup_delete"}

AckFiles ==
    /\ 1 .. gen - 1 \subseteq waived
    /\ \A c \in {archive, tombstone} :
          c = Absent \/ (c.form \in {"archive", "partial"} /\ c.gen <= gen)
    /\ ~misled => \A j \in Deletions : \A p \in j.picks : p.file.gen <= gen

(* Without misleading there is one deletion at a time.                     *)
AckOne ==
    ~misled => /\ \A i, k \in Waiting : i = k
               /\ job.kind = "backup_delete" => Waiting = {}

Compact(g) == archive = Of(g, "archive") \/ tombstone = Of(g, "archive")

(* The newest release can be had, and only it has an archive.              *)
AckKept ==
    Counted =>
        /\ \/ mkv.gen = gen /\ (mkv.form \in Profile7 \/ Compact(gen))
           \/ bak.gen = gen
        /\ mkv # Absent /\ mkv.gen # gen => archive.gen # gen /\ tombstone.gen # gen

(* A deletion that takes a file of the newest release leaves the other.    *)
AckDeletion ==
    Counted => \A j \in Deletions : \A p \in j.picks : p.file.gen = gen =>
        /\ j.picks = {p}
        /\ ~KeepsArchiveOnly
        /\ mkv.gen = gen /\ bak.gen = gen
        /\ p.kind = "full" => mkv.form \in Profile7 \/ Compact(gen)

(* A conversion writes an archive of the release it found; a recovery of   *)
(* the newest release unlinks an archive when it has replaced the movie.   *)
AckJob ==
    Counted =>
        /\ pc \in {"archiving", "converting"} /\ seen.gen = gen => mkv.gen = gen
        /\ job.kind = "convert" /\ pc \in {"archiving", "converting", "swapping"} /\ seen.gen # gen
              => archive.gen # gen
        /\ pc = "unlink" => mkv.form \in Profile7 \/ tombstone.gen # gen

Ack == AckFiles /\ AckOne /\ AckKept /\ AckDeletion /\ AckJob

-----------------------------------------------------------------------------
(* The queue only loses deletions, except by an approval.                  *)

LEMMA TailElements ==
    ASSUME NEW S, NEW s \in Seq(S), s # <<>>
    PROVE  /\ Len(Tail(s)) = Len(s) - 1
           /\ \A k \in 1 .. Len(Tail(s)) : Tail(s)[k] = s[k + 1]
           /\ Head(s) = s[1] /\ Len(s) >= 1 /\ Len(s) \in Nat
OBVIOUS

LEMMA RemoveElements ==
    ASSUME NEW S, NEW s \in Seq(S), NEW i \in 1 .. Len(s)
    PROVE  /\ Len(RemoveAt(s, i)) = Len(s) - 1
           /\ \A k \in 1 .. Len(RemoveAt(s, i)) :
                 RemoveAt(s, i)[k] = IF k < i THEN s[k] ELSE s[k + 1]
           /\ Len(s) \in Nat
<1>. DEFINE a == SubSeq(s, 1, i - 1)
            b == SubSeq(s, i + 1, Len(s))
<1>1. Len(s) \in Nat /\ i \in Int /\ \A k \in 1 .. Len(s) : s[k] \in S
  OBVIOUS
<1>2. a \in Seq(S) /\ Len(a) = i - 1 /\ \A k \in 1 .. i - 1 : a[k] = s[k]
  <2>1. \A k \in 1 .. i - 1 : s[k] \in S
    BY <1>1
  <2>2. 1 \in Int /\ i - 1 \in Int
    BY <1>1
  <2>3. /\ a \in Seq(S)
        /\ Len(a) = IF 1 <= i - 1 THEN (i - 1) - 1 + 1 ELSE 0
        /\ \A k \in 1 .. (i - 1) - 1 + 1 : a[k] = s[1 + k - 1]
    BY <2>1, <2>2, SubSeqProperties
  <2>. HIDE DEF a
  <2>4. (i - 1) - 1 + 1 = i - 1 /\ \A k \in 1 .. i - 1 : 1 + k - 1 = k
    BY <1>1
  <2>. QED BY <2>3, <2>4, <1>1
<1>3. b \in Seq(S) /\ Len(b) = Len(s) - i /\ \A k \in 1 .. Len(s) - i : b[k] = s[i + k]
  <2>1. \A k \in i + 1 .. Len(s) : s[k] \in S
    BY <1>1
  <2>2. i + 1 \in Int /\ Len(s) \in Int
    BY <1>1
  <2>3. /\ b \in Seq(S)
        /\ Len(b) = IF i + 1 <= Len(s) THEN Len(s) - (i + 1) + 1 ELSE 0
        /\ \A k \in 1 .. Len(s) - (i + 1) + 1 : b[k] = s[i + 1 + k - 1]
    BY <2>1, <2>2, SubSeqProperties
  <2>. HIDE DEF b
  <2>4. Len(b) = Len(s) - i
    BY <2>3, <1>1
  <2>5. ASSUME NEW k \in 1 .. Len(s) - i
        PROVE  b[k] = s[i + k]
    <3>1. k \in 1 .. Len(s) - (i + 1) + 1 /\ i + 1 + k - 1 = i + k
      BY <1>1
    <3>. QED BY <2>3, <3>1
  <2>. QED BY <2>3, <2>4, <2>5
<1>. HIDE DEF a, b
<1>4. /\ Len(a \o b) = Len(a) + Len(b)
      /\ \A k \in 1 .. Len(a) + Len(b) :
            (a \o b)[k] = IF k <= Len(a) THEN a[k] ELSE b[k - Len(a)]
  BY <1>2, <1>3, ConcatProperties
<1>5. RemoveAt(s, i) = a \o b
  BY DEF RemoveAt, a, b
<1>. HIDE DEF RemoveAt
<1>6. Len(RemoveAt(s, i)) = Len(s) - 1
  BY <1>1, <1>2, <1>3, <1>4, <1>5
<1>7. ASSUME NEW k \in 1 .. Len(s) - 1
      PROVE  RemoveAt(s, i)[k] = IF k < i THEN s[k] ELSE s[k + 1]
  <2>1. CASE k < i
    <3>1. k <= Len(a) /\ k \in 1 .. i - 1 /\ k \in 1 .. Len(a) + Len(b)
      BY <1>1, <1>2, <1>3, <2>1
    <3>. QED BY <3>1, <1>2, <1>4, <1>5, <2>1
  <2>2. CASE ~(k < i)
    <3>1. /\ ~(k <= Len(a)) /\ k - Len(a) \in 1 .. Len(s) - i /\ k \in 1 .. Len(a) + Len(b)
          /\ i + (k - Len(a)) = k + 1
      BY <1>1, <1>2, <1>3, <2>2
    <3>2. RemoveAt(s, i)[k] = b[k - Len(a)]
      BY <3>1, <1>4, <1>5
    <3>. QED BY <3>1, <3>2, <1>3, <2>2
  <2>. QED BY <2>1, <2>2
<1>. QED BY <1>1, <1>6, <1>7

LEMMA QueueThins ==
    ASSUME Inv, AckOne, misled => misled', job' \in {job, NoJob},
           NEW m \in [1 .. Len(pending') -> 1 .. Len(pending)],
           \A k, l \in 1 .. Len(pending') : m[k] = m[l] => k = l,
           \A k \in 1 .. Len(pending') : pending'[k] = pending[m[k]]
    PROVE  AckOne' /\ Deletions' \subseteq Deletions
<1>1. \A k \in Waiting' : m[k] \in Waiting /\ k \in 1 .. Len(pending')
  BY DEF Waiting
<1>2. AckOne'
  BY <1>1, NoJobKind DEF AckOne
<1>3. Deletions' \subseteq Deletions
  BY NoJobKind DEF Deletions, ActiveJobs
<1>. QED BY <1>2, <1>3

LEMMA QueueStays ==
    ASSUME Inv, AckOne, misled => misled', job' \in {job, NoJob}, pending' = pending
    PROVE  AckOne' /\ Deletions' \subseteq Deletions
<1>. DEFINE m == [k \in 1 .. Len(pending) |-> k]
<1>1. /\ m \in [1 .. Len(pending') -> 1 .. Len(pending)]
      /\ \A k, l \in 1 .. Len(pending') : m[k] = m[l] => k = l
      /\ \A k \in 1 .. Len(pending') : pending'[k] = pending[m[k]]
  OBVIOUS
<1>. HIDE DEF m
<1>. QED BY <1>1, QueueThins

LEMMA QueueCancels ==
    ASSUME Inv, AckOne, misled => misled', job' = job,
           NEW i \in 1 .. Len(pending), pending' = RemoveAt(pending, i)
    PROVE  AckOne' /\ Deletions' \subseteq Deletions
<1>. DEFINE m == [k \in 1 .. Len(pending) - 1 |-> IF k < i THEN k ELSE k + 1]
<1>1. pending \in Seq(Sound)
  BY Facts
<1>2. /\ Len(pending') = Len(pending) - 1 /\ Len(pending) \in Nat
      /\ \A k \in 1 .. Len(pending') : pending'[k] = IF k < i THEN pending[k] ELSE pending[k + 1]
  BY <1>1, RemoveElements
<1>3. /\ m \in [1 .. Len(pending') -> 1 .. Len(pending)]
      /\ \A k, l \in 1 .. Len(pending') : m[k] = m[l] => k = l
      /\ \A k \in 1 .. Len(pending') : m[k] = IF k < i THEN k ELSE k + 1
  BY <1>2
<1>4. \A k \in 1 .. Len(pending') : pending'[k] = pending[m[k]]
  BY <1>2, <1>3
<1>. HIDE DEF m
<1>. QED BY <1>3, <1>4, QueueThins

(* The oldest job is taken, and refused or run.                            *)
LEMMA QueueTaken ==
    ASSUME Inv, AckOne, misled => misled', TakeJob, job' \in {Head(pending), NoJob}
    PROVE  AckOne' /\ Deletions' \subseteq Deletions
<1>1. pending \in Seq(Sound) /\ pending # <<>> /\ pending' = Tail(pending)
  BY Facts DEF TakeJob
<1>2. /\ Len(pending') = Len(pending) - 1 /\ Len(pending) \in Nat /\ Len(pending) >= 1
      /\ \A k \in 1 .. Len(pending') : pending'[k] = pending[k + 1]
      /\ Head(pending) = pending[1]
  BY <1>1, TailElements
<1>3. \A k \in Waiting' : k + 1 \in Waiting /\ k \in Nat /\ k >= 1
  BY <1>2 DEF Waiting
<1>4. job'.kind = "backup_delete" => 1 \in Waiting
  BY <1>2, NoJobKind DEF Waiting
<1>5. AckOne'
  <2>. SUFFICES ASSUME ~misled'
                PROVE  /\ \A i, k \in Waiting' : i = k
                       /\ job'.kind = "backup_delete" => Waiting' = {}
    BY DEF AckOne
  <2>1. \A i, k \in Waiting : i = k
    BY DEF AckOne
  <2>2. \A i, k \in Waiting' : i + 1 = k + 1
    BY <1>3, <2>1
  <2>3. job'.kind = "backup_delete" => \A k \in Waiting' : k + 1 = 1
    BY <1>3, <1>4, <2>1
  <2>. QED BY <1>3, <2>2, <2>3
<1>6. Deletions' \subseteq Deletions
  <2>1. \A k \in 1 .. Len(pending') : k + 1 \in 1 .. Len(pending)
    BY <1>2
  <2>2. 1 \in 1 .. Len(pending)
    BY <1>2
  <2>. QED BY <1>2, <2>1, <2>2, NoJobKind DEF Deletions, ActiveJobs
<1>. QED BY <1>5, <1>6

LEMMA QueueGrows ==
    ASSUME Inv, NEW j, pending' = Append(pending, j), job' = job
    PROVE  /\ Deletions' \subseteq Deletions \cup {j}
           /\ \A i \in Waiting' : i \in Waiting \/ i = Len(pending) + 1
           /\ j.kind # "backup_delete" =>
                 Waiting' \subseteq Waiting /\ Deletions' \subseteq Deletions
<1>1. pending \in Seq(Sound)
  BY Facts
<1>2. /\ Len(pending') = Len(pending) + 1 /\ Len(pending) \in Nat
      /\ \A k \in 1 .. Len(pending) : pending'[k] = pending[k]
      /\ pending'[Len(pending) + 1] = j
  BY <1>1
<1>3. \A k \in 1 .. Len(pending') : k \in 1 .. Len(pending) \/ k = Len(pending) + 1
  BY <1>2
<1>. QED BY <1>2, <1>3 DEF Deletions, ActiveJobs, Waiting

-----------------------------------------------------------------------------
(* Steps that leave the backups and the MKV alone.                         *)

LEMMA AckFacts ==
    ASSUME Inv, Ack
    PROVE  /\ gen # 0 /\ gen \in Nat
           /\ Counted => Absent.gen # gen
           /\ bak.gen = gen => bak # Absent /\ bak.form \in Profile7
           /\ tombstone # Absent => pc \in {"replace", "unlink"}
           /\ \A j \in Deletions : j \in Job
           /\ \A j \in Deletions : \A p \in j.picks : p \in Pick
<1>1. gen # 0 /\ gen \in Nat
  BY Facts
<1>2. bak.gen = gen => bak # Absent /\ bak.form \in Profile7
  BY <1>1, Contents DEF Inv, FilesOK
<1>3. tombstone # Absent => pc \in {"replace", "unlink"}
  BY Facts DEF Names
<1>4. \A j \in Deletions : j \in Job
  <2>1. \A i \in 1 .. Len(pending) : pending[i] \in Sound
    BY Facts
  <2>. QED BY <2>1, Facts, NoJobKind DEF Deletions, ActiveJobs
<1>5. \A j \in Deletions : \A p \in j.picks : p \in Pick
  BY <1>4, JobFields DEF Deletions
<1>. QED BY <1>1, <1>2, <1>3, <1>4, <1>5, Contents

LEMMA SourcesStay ==
    ASSUME Inv, Ack, UNCHANGED <<mkv, bak, archive, tombstone, gen>>,
           waived \subseteq waived', overwritten \subseteq overwritten', misled => misled',
           AckOne', Deletions' \subseteq Deletions,
           KeepsArchiveOnly' => KeepsArchiveOnly \/ bak = Absent,
           Counted => AckJob'
    PROVE  Ack'
<1>1. Counted' => Counted
  BY DEF Counted
<1>2. AckFiles'
  BY DEF Ack, AckFiles
<1>3. AckKept'
  BY <1>1 DEF Ack, AckKept, Compact
<1>4. AckDeletion'
  <2>. SUFFICES ASSUME Counted, NEW j \in Deletions, NEW p \in j.picks, p.file.gen = gen
                PROVE  /\ j.picks = {p}
                       /\ ~KeepsArchiveOnly'
                       /\ mkv.gen = gen /\ bak.gen = gen
                       /\ p.kind = "full" => mkv.form \in Profile7 \/ Compact(gen)
    BY <1>1 DEF AckDeletion, Compact
  <2>. QED BY AckFacts DEF Ack, AckDeletion
<1>5. AckJob'
  BY <1>1 DEF AckJob
<1>. QED BY <1>2, <1>3, <1>4, <1>5 DEF Ack

(* Nothing is asked of a job that does not write beside the MKV.           *)
LEMMA JobAside ==
    ASSUME pc' \notin {"archiving", "converting", "swapping", "unlink"}
    PROVE  AckJob'
BY DEF AckJob

LEMMA AckApproval ==
    ASSUME Inv, Ack, NEW j, j.kind # "backup_delete", Enqueue(j), waived \subseteq waived',
           misled' = misled
    PROVE  Ack'
<1>1. /\ UNCHANGED <<mkv, bak, archive, tombstone, gen, overwritten, job, pc, seen>>
      /\ pending' = Append(pending, j)
  BY DEF Enqueue, disk, worker
<1>2. Waiting' \subseteq Waiting /\ Deletions' \subseteq Deletions
  BY <1>1, QueueGrows
<1>3. AckOne'
  BY <1>1, <1>2 DEF Ack, AckOne
<1>4. Counted => AckJob'
  BY <1>1 DEF Ack, AckJob, Counted
<1>. QED BY <1>1, <1>2, <1>3, <1>4, SourcesStay DEF KeepsArchiveOnly

LEMMA AckApprovals ==
    ASSUME Inv, Ack,
           \/ \E mode \in BackupMode : ApproveConvert(mode)
           \/ ApproveRecoveryBackup
           \/ \E h \in Handlers, kind \in BackupKind : ApproveRestore(h, kind)
    PROVE  Ack'
<1>. DEFINE Approved == \E j : /\ j.kind # "backup_delete" /\ Enqueue(j)
                              /\ waived \subseteq waived' /\ misled' = misled
<1>1. Approved
  <2>1. ASSUME NEW mode \in BackupMode, ApproveConvert(mode)
        PROVE  Approved
    BY <2>1 DEF ApproveConvert
  <2>2. ASSUME ApproveRecoveryBackup
        PROVE  Approved
    BY <2>2 DEF ApproveRecoveryBackup
  <2>3. ASSUME NEW h \in Handlers, NEW kind \in BackupKind, ApproveRestore(h, kind)
        PROVE  Approved
    BY <2>3 DEF ApproveRestore
  <2>. QED BY <2>1, <2>2, <2>3
<1>. QED BY <1>1, AckApproval

(* The count that asks for the acknowledgement.                            *)
LEMMA AckApproveDelete ==
    ASSUME Inv, Ack, NEW h \in Handlers, NEW kinds \in SUBSET BackupKind, ApproveDelete(h, kinds)
    PROVE  Ack'
<1>. DEFINE files == views[h].files
            picks == {[kind |-> k, file |-> files[k]] : k \in kinds}
            j == [kind |-> "backup_delete", picks |-> picks]
            gens == {files[k].gen : k \in kinds}
<1>1. /\ UNCHANGED <<mkv, bak, archive, tombstone, gen, overwritten, job, pc, seen>>
      /\ pending' = Append(pending, j)
  BY DEF ApproveDelete, Enqueue, disk, worker
<1>2. /\ kinds # {} /\ kinds \subseteq Seen(h)
      /\ \/ NeedsAcknowledgement(h, kinds) /\ waived' = waived \cup gens
         \/ ~NeedsAcknowledgement(h, kinds) /\ waived' = waived
      /\ misled' = (misled \/ DeletionUnderWay \/ StaleCount(h) \/ CountsOther(h, kinds))
  BY DEF ApproveDelete
<1>3. /\ j.kind = "backup_delete" /\ j.picks = picks
      /\ \A p \in picks : p.kind \in kinds /\ p.file = files[p.kind]
      /\ \A k \in kinds : k \in BackupKind /\ files[k].gen \in gens
  OBVIOUS
<1>4. ~misled' => /\ mkv # Absent
                  /\ \A k \in Seen(h) : files[k] = Artifact(k)
                  /\ "full" \in Seen(h) => ~KeepsArchiveOnly
                  /\ \A k \in Seen(h) \ kinds, d \in kinds :
                        files[k].form # "partial" /\ files[k].gen = files[d].gen
  BY <1>2 DEF StaleCount, CountsOther, KeepsArchiveOnly
<1>6. \A k : kinds = {k} => picks = {[kind |-> k, file |-> files[k]]}
  OBVIOUS
<1>7. Seen(h) \subseteq BackupKind /\ \A k \in Seen(h) : files[k] # Absent
  BY DEF Seen
<1>. HIDE DEF j, picks, gens, files
<1>8. /\ Deletions' \subseteq Deletions \cup {j}
      /\ \A i \in Waiting' : i \in Waiting \/ i = Len(pending) + 1
  BY <1>1, QueueGrows
<1>9. Counted' => Counted /\ ~misled'
  BY <1>1, <1>2 DEF Counted
<1>10. ~misled' => Deletions = {} /\ Waiting = {} /\ job.kind # "backup_delete"
  BY <1>2 DEF DeletionUnderWay, Deletions, Waiting, ActiveJobs
<1>11. AckFiles'
  <2>1. ASSUME ~misled', NEW p \in picks
        PROVE  p.file.gen <= gen
    <3>1. p.kind \in Seen(h) /\ p.file = Artifact(p.kind) /\ p.file # Absent
      BY <1>2, <1>3, <1>4, <1>7, <2>1
    <3>. QED BY <3>1 DEF Artifact, Ack, AckFiles, Inv, FilesOK
  <2>. QED BY <1>1, <1>2, <1>3, <1>8, <1>10, <2>1 DEF Ack, AckFiles
<1>12. AckOne'
  BY <1>1, <1>8, <1>10 DEF AckOne
<1>13. AckKept'
  BY <1>1, <1>9 DEF Ack, AckKept, Compact
<1>14. AckDeletion'
  <2>. SUFFICES ASSUME Counted', NEW p \in picks, p.file.gen = gen
                PROVE  /\ picks = {p}
                       /\ ~KeepsArchiveOnly
                       /\ mkv.gen = gen /\ bak.gen = gen
                       /\ p.kind = "full" => mkv.form \in Profile7 \/ Compact(gen)
    BY <1>1, <1>3, <1>8, <1>9, <1>10 DEF AckDeletion, Compact, KeepsArchiveOnly
  <2>1. ~NeedsAcknowledgement(h, kinds)
    <3>1. gen \in gens
      BY <1>3
    <3>. QED BY <1>1, <1>2, <3>1 DEF Counted
  <2>2. PICK k : kinds = {k}
    BY <1>2, <1>7, <2>1 DEF NeedsAcknowledgement, BackupKind
  <2>3. Seen(h) = BackupKind /\ p.kind = k /\ k \in BackupKind
    BY <1>2, <1>3, <1>7, <2>1, <2>2 DEF NeedsAcknowledgement, BackupKind
  <2>4. files["full"] = bak /\ files["compact"] = archive /\ archive # Absent
    BY <1>4, <1>7, <1>9, <2>3 DEF Artifact, BackupKind
  <2>5. bak.gen = gen /\ archive.gen = gen /\ (k = "full" => archive.form # "partial")
    <3>1. k = "full" \/ k = "compact"
      BY <2>3 DEF BackupKind
    <3>2. p.file = files[k]
      BY <1>3, <2>3
    <3>3. CASE k = "full"
      <4>1. "compact" \in Seen(h) \ kinds
        BY <2>2, <2>3, <3>3 DEF BackupKind
      <4>. QED BY <1>4, <1>9, <2>2, <2>4, <3>2, <3>3, <4>1
    <3>4. CASE k = "compact"
      <4>1. "full" \in Seen(h) \ kinds
        BY <2>2, <2>3, <3>4 DEF BackupKind
      <4>. QED BY <1>4, <1>9, <2>2, <2>4, <3>2, <3>4, <4>1
    <3>. QED BY <3>1, <3>3, <3>4
  <2>6. mkv.gen = gen
    BY <1>4, <1>9, <2>5 DEF Ack, AckKept
  <2>7. k = "full" => archive = Of(gen, "archive")
    <3>1. archive.form = "archive" \/ k # "full"
      BY <2>4, <2>5 DEF Ack, AckFiles
    <3>. QED BY <2>5, <3>1, Facts, Contents
  <2>8. ~KeepsArchiveOnly
    BY <1>4, <1>9, <2>3 DEF BackupKind
  <2>9. picks = {p}
    BY <1>6, <2>2
  <2>. QED BY <2>3, <2>5, <2>6, <2>7, <2>8, <2>9 DEF Compact
<1>15. AckJob'
  BY <1>1, <1>9 DEF Ack, AckJob
<1>. QED BY <1>11, <1>12, <1>13, <1>14, <1>15 DEF Ack

(* A request that looks at the disk, or ends, changes nothing.             *)
LEMMA AckLook ==
    ASSUME Inv, Ack, NEW h \in Handlers, LookForFull(h) \/ LookForArchive(h) \/ EndLook(h)
    PROVE  Ack'
<1>1. UNCHANGED <<mkv, bak, archive, tombstone, gen, waived, overwritten, misled, job, pending, pc,
                  seen>>
  BY DEF LookForFull, LookForArchive, EndLook, disk, worker, history
<1>2. AckOne' /\ Deletions' \subseteq Deletions
  BY <1>1, QueueStays DEF Ack
<1>3. Counted => AckJob'
  BY <1>1 DEF Ack, AckJob
<1>. QED BY <1>1, <1>2, <1>3, SourcesStay DEF KeepsArchiveOnly

-----------------------------------------------------------------------------
(* The queue, the files from outside, and jobs that begin and end.         *)

LEMMA AckCancel ==
    ASSUME Inv, Ack, NEW i \in 1 .. Len(pending), CancelQueuedJob(i)
    PROVE  Ack'
<1>1. /\ UNCHANGED <<mkv, bak, archive, tombstone, gen, waived, overwritten, misled, job, pc,
                     seen>>
      /\ pending' = RemoveAt(pending, i)
  BY DEF CancelQueuedJob, disk, worker, history
<1>2. AckOne' /\ Deletions' \subseteq Deletions
  BY <1>1, QueueCancels DEF Ack
<1>3. Counted => AckJob'
  BY <1>1 DEF Ack, AckJob, Counted
<1>. QED BY <1>1, <1>2, <1>3, SourcesStay DEF KeepsArchiveOnly

LEMMA AckExternal ==
    ASSUME Inv, Ack, External
    PROVE  Ack'
<1>1. /\ UNCHANGED <<bak, archive, tombstone, seen, pc, job, pending, overwritten, misled>>
      /\ \/ gen' = gen + 1 /\ mkv' = Of(gen + 1, "original") /\ waived' = waived \cup 1 .. gen
            /\ gen < MaxGen
         \/ /\ gen' = gen /\ mkv' = Absent /\ waived' = waived \cup {mkv.gen}
            /\ mkv # Absent
  BY DEF External, ImportRelease, RemoveRelease, worker
<1>2. AckOne' /\ Deletions' \subseteq Deletions
  BY <1>1, QueueStays DEF Ack
<1>4. CASE gen' = gen + 1 /\ mkv' = Of(gen + 1, "original") /\ waived' = waived \cup 1 .. gen
           /\ gen < MaxGen
  <2>1. mkv'.gen = gen' /\ mkv'.form \in Profile7
    <3>1. gen + 1 \in 0 .. MaxGen
      BY <1>4, Facts, BoundsAssumption
    <3>. QED BY <1>4, <3>1, Contents DEF Form, Profile7
  <2>2. gen \in Nat /\ gen' = gen + 1 /\ gen' - 1 = gen
    BY <1>4, Facts
  <2>3. /\ archive.gen \in Nat /\ tombstone.gen \in Nat /\ seen.gen \in Nat
        /\ \A j \in Deletions : \A p \in j.picks : p.file.gen \in Nat
    BY Facts, AckFacts, Contents DEF Pick
  <2>. DEFINE Kept(c) == c = Absent \/ (c.form \in {"archive", "partial"} /\ c.gen <= gen)
  <2>4. /\ archive.gen <= gen /\ tombstone.gen <= gen /\ seen.gen <= gen
        /\ ~misled => \A j \in Deletions : \A p \in j.picks : p.file.gen <= gen
    <3>1. Kept(archive) /\ Kept(tombstone)
      BY DEF Ack, AckFiles
    <3>2. Absent.gen = 0 /\ 0 <= gen
      BY <2>2, Contents
    <3>. QED BY <3>1, <3>2 DEF Ack, AckFiles, Inv, FilesOK
  <2>5. AckFiles'
    <3>1. 1 .. gen' - 1 \subseteq waived'
      BY <1>4, <2>2
    <3>2. /\ archive.gen <= gen' /\ tombstone.gen <= gen'
          /\ ~misled => \A j \in Deletions : \A p \in j.picks : p.file.gen <= gen'
      BY <2>2, <2>3, <2>4
    <3>. QED BY <1>1, <1>2, <3>1, <3>2 DEF Ack, AckFiles
  <2>6. /\ archive.gen # gen' /\ seen.gen # gen'
        /\ ~misled => \A j \in Deletions : \A p \in j.picks : p.file.gen # gen'
    BY <2>2, <2>3, <2>4
  <2>7. AckKept'
    BY <2>1 DEF AckKept
  <2>8. AckDeletion'
    BY <1>1, <1>2, <2>6 DEF AckDeletion, Counted
  <2>9. AckJob'
    BY <1>1, <2>1, <2>6 DEF AckJob
  <2>. QED BY <1>2, <2>5, <2>7, <2>8, <2>9 DEF Ack
<1>5. CASE gen' = gen /\ mkv' = Absent /\ waived' = waived \cup {mkv.gen} /\ mkv # Absent
  <2>1. Counted' => Counted /\ mkv.gen # gen
    BY <1>1, <1>5 DEF Counted
  <2>2. AckFiles'
    BY <1>1, <1>2, <1>5 DEF Ack, AckFiles
  <2>3. AckKept'
    BY <1>1, <1>5, <2>1 DEF Ack, AckKept
  <2>4. AckDeletion'
    BY <1>2, <1>5, <2>1 DEF Ack, AckDeletion
  <2>5. AckJob'
    BY <1>1, <1>5, <2>1 DEF Ack, AckJob, AckKept
  <2>. QED BY <1>2, <2>2, <2>3, <2>4, <2>5 DEF Ack
<1>. QED BY <1>1, <1>4, <1>5

(* A job is taken from the queue.                                          *)
LEMMA AckBegin ==
    ASSUME Inv, Ack, BeginConvert \/ BeginRecoveryBackup \/ BeginRestore \/ BeginDelete
    PROVE  Ack'
<1>1. TakeJob /\ UNCHANGED <<disk, history>>
  BY DEF BeginConvert, BeginRecoveryBackup, BeginRestore, BeginDelete
<1>2. UNCHANGED <<mkv, bak, archive, tombstone, gen, waived, overwritten, misled>>
  BY <1>1 DEF disk, history
<1>3. pc = "idle" /\ job = NoJob
  BY <1>1, Taken
<1>4. \/ job' = NoJob /\ pc' = "idle"
      \/ job' = Head(pending) /\ pc' \in {"settling", "discovering"}
         /\ (job'.kind = "convert" => bak = Absent)
      \/ job' = Head(pending) /\ pc' = "archiving" /\ job'.kind = "recovery_backup"
         /\ seen' = mkv
  <2>1. CASE BeginConvert
    BY <1>3, <2>1 DEF BeginConvert, ConvertChecks, worker
  <2>2. CASE BeginRecoveryBackup
    BY <1>3, <2>2 DEF BeginRecoveryBackup, worker
  <2>3. CASE BeginRestore
    BY <1>3, <2>3 DEF BeginRestore, worker
  <2>4. CASE BeginDelete
    BY <2>4 DEF BeginDelete
  <2>. QED BY <2>1, <2>2, <2>3, <2>4
<1>5. AckOne' /\ Deletions' \subseteq Deletions
  BY <1>1, <1>2, <1>4, QueueTaken DEF Ack
<1>6. KeepsArchiveOnly' => bak = Absent
  BY <1>4, NoJobKind DEF KeepsArchiveOnly
<1>7. AckJob'
  <2>1. CASE pc' \in {"idle", "settling", "discovering"}
    BY <2>1, JobAside
  <2>2. CASE pc' = "archiving" /\ job'.kind = "recovery_backup" /\ seen' = mkv
    BY <1>2, <2>2 DEF AckJob
  <2>. QED BY <1>4, <2>1, <2>2
<1>. QED BY <1>2, <1>5, <1>6, <1>7, SourcesStay

(* Steps of a running job, and its end, that touch none of these files.    *)
LEMMA AckAside ==
    ASSUME Inv, Ack, UNCHANGED <<mkv, bak, archive, tombstone, pending, gen, waived, overwritten>>,
           misled => misled', job' \in {job, NoJob},
           pc' \notin {"archiving", "converting", "swapping", "unlink"}
    PROVE  Ack'
<1>1. AckOne' /\ Deletions' \subseteq Deletions
  BY QueueStays DEF Ack
<1>2. KeepsArchiveOnly' => KeepsArchiveOnly
  BY NoJobKind DEF KeepsArchiveOnly
<1>. QED BY <1>1, <1>2, JobAside, SourcesStay

LEMMA AckStartConversion ==
    ASSUME Inv, Ack, StartConversion
    PROVE  Ack'
<1>1. /\ UNCHANGED <<mkv, bak, archive, tombstone, gen, waived, overwritten, misled, job, pending>>
      /\ mkv # Absent /\ seen' = mkv /\ pc' \in {"archiving", "converting"}
  BY DEF StartConversion, FileStable, disk, history
<1>2. AckOne' /\ Deletions' \subseteq Deletions
  BY <1>1, QueueStays DEF Ack
<1>3. Counted => AckJob'
  BY <1>1 DEF Ack, AckKept, AckJob
<1>. QED BY <1>1, <1>2, <1>3, SourcesStay DEF KeepsArchiveOnly

LEMMA AckAsideSteps ==
    ASSUME Inv, Ack,
           \/ Scan \/ EndRecoveryBackup \/ CompactCleanupFails \/ DeactivateCandidate
           \/ StartRestore \/ CopyOriginal \/ ToolRebuilds \/ Discover \/ EndDelete
    PROVE  Ack'
<1>1. CASE Scan \/ CopyOriginal \/ ToolRebuilds \/ Discover \/ StartRestore
  <2>1. /\ UNCHANGED <<mkv, bak, archive, tombstone, gen, waived, overwritten, misled,
                     job, pending>>
        /\ pc' \in {"idle", "hide", "deleting", "copying", "rebuilding"}
    BY <1>1 DEF Scan, CopyOriginal, ToolRebuilds, Discover, StartRestore, disk, worker, history
  <2>. QED BY <2>1, AckAside
<1>2. CASE EndRecoveryBackup \/ CompactCleanupFails \/ DeactivateCandidate \/ EndDelete
  <2>1. /\ UNCHANGED <<mkv, bak, archive, tombstone, gen, waived, overwritten, misled, pending>>
        /\ job' = NoJob /\ pc' = "idle"
    BY <1>2 DEF EndRecoveryBackup, CompactCleanupFails, DeactivateCandidate, EndDelete, EndJob,
                disk, history
  <2>. QED BY <2>1, AckAside
<1>. QED BY <1>1, <1>2

(* A job that stops with an archive hidden strands it.                     *)
LEMMA AckStop ==
    ASSUME Inv, Ack, Crash \/ RollBackFails
    PROVE  Ack'
<1>1. /\ UNCHANGED <<mkv, bak, archive, gen, waived, overwritten, pending>>
      /\ job' = NoJob /\ pc' = "idle" /\ tombstone' = Absent
      /\ misled' = (misled \/ tombstone # Absent)
  BY DEF Crash, RollBackFails, EndJob
<1>2. CASE tombstone = Absent
  BY <1>1, <1>2, AckAside
<1>3. CASE tombstone # Absent
  <2>1. ~Counted'
    BY <1>1, <1>3 DEF Counted
  <2>2. AckOne' /\ Deletions' \subseteq Deletions
    BY <1>1, QueueStays DEF Ack
  <2>3. AckFiles'
    BY <1>1, <2>2, Facts, Contents DEF Ack, AckFiles
  <2>. QED BY <2>1, <2>2, <2>3 DEF Ack, AckKept, AckDeletion, AckJob
<1>. QED BY <1>2, <1>3

-----------------------------------------------------------------------------
(* Steps of the running job that move files.                               *)

LEMMA AckMoves ==
    ASSUME Inv, Ack, UNCHANGED <<gen, waived, misled, pending>>, job' \in {job, NoJob},
           overwritten \subseteq overwritten',
           archive' \in {archive, tombstone, Absent, Of(seen.gen, "archive"),
                         Of(seen.gen, "partial")},
           tombstone' \in {tombstone, archive, Absent},
           Counted /\ Counted' => AckKept' /\ AckJob',
           Counted /\ Counted' /\ ~KeepsArchiveOnly /\ mkv.gen = gen /\ bak.gen = gen =>
              mkv'.gen = gen /\ bak'.gen = gen,
           Counted /\ Counted' /\ ~KeepsArchiveOnly /\ mkv.gen = gen /\ bak.gen = gen
              /\ (mkv.form \in Profile7 \/ Compact(gen)) =>
              mkv'.form \in Profile7 \/ Compact(gen)'
    PROVE  Ack'
<1>1. Counted' => Counted
  BY DEF Counted
<1>2. AckOne' /\ Deletions' \subseteq Deletions
  BY QueueStays DEF Ack
<1>3. \A c \in {archive, tombstone, Absent, Of(seen.gen, "archive"), Of(seen.gen, "partial")} :
          c = Absent \/ (c.form \in {"archive", "partial"} /\ c.gen <= gen)
  <2>1. seen.gen <= gen
    BY DEF Inv, FilesOK
  <2>. QED BY <2>1 DEF Ack, AckFiles, Of
<1>4. AckFiles'
  BY <1>2, <1>3 DEF Ack, AckFiles
<1>5. AckDeletion'
  <2>. SUFFICES ASSUME Counted', NEW j \in Deletions, NEW p \in j.picks, p.file.gen = gen
                PROVE  /\ j.picks = {p}
                       /\ ~KeepsArchiveOnly'
                       /\ mkv'.gen = gen /\ bak'.gen = gen
                       /\ p.kind = "full" => mkv'.form \in Profile7 \/ Compact(gen)'
    BY <1>2 DEF AckDeletion, Compact
  <2>1. /\ j.picks = {p}
        /\ ~KeepsArchiveOnly
        /\ mkv.gen = gen /\ bak.gen = gen
        /\ p.kind = "full" => mkv.form \in Profile7 \/ Compact(gen)
    BY <1>1 DEF Ack, AckDeletion
  <2>2. ~KeepsArchiveOnly'
    BY <2>1, NoJobKind DEF KeepsArchiveOnly
  <2>. QED BY <1>1, <2>1, <2>2
<1>6. AckKept' /\ AckJob'
  BY <1>1 DEF AckKept, AckJob
<1>. QED BY <1>2, <1>4, <1>5, <1>6 DEF Ack

LEMMA OfValues ==
    \A g, h : /\ Of(g, "archive").gen = g /\ Of(g, "partial").gen = g /\ Of(g, "converted").gen = g
              /\ Absent # Of(g, "archive")
              /\ Of(g, "partial") # Of(h, "archive")
              /\ Absent.form \notin Profile7
BY DEF Of, Absent, Profile7

LEMMA AckWritesArchive ==
    ASSUME Inv, Ack, ToolWritesArchive
    PROVE  Ack'
<1>1. /\ UNCHANGED <<mkv, bak, tombstone, seen, gen, waived, overwritten, misled, job, pending>>
      /\ pc = "archiving" /\ archive' = Of(seen.gen, "archive") /\ pc' \in {"converting", "exited"}
  BY DEF ToolWritesArchive, history
<1>2. mkv = Absent \/ mkv.form \in Profile7
  BY <1>1, KindByPlace DEF Inv, ConvertOK
<1>3. tombstone = Absent
  BY <1>1, AckFacts
<1>4. Counted /\ mkv.gen = gen => mkv.form \in Profile7
  BY <1>2, AckFacts
<1>5. Counted => AckKept'
  <2>. SUFFICES ASSUME Counted
                PROVE  AckKept'
    OBVIOUS
  <2>1. \/ mkv.gen = gen /\ mkv.form \in Profile7
        \/ bak.gen = gen
    BY <1>4 DEF Ack, AckKept
  <2>2. mkv # Absent /\ mkv.gen # gen => archive'.gen # gen
    BY <1>1, OfValues DEF Ack, AckJob
  <2>. QED BY <1>1, <1>3, <2>1, <2>2, AckFacts DEF AckKept
<1>6. Counted => AckJob'
  BY <1>1, OfValues DEF Ack, AckJob
<1>. QED BY <1>1, <1>4, <1>5, <1>6, AckMoves

LEMMA AckMovesOriginal ==
    ASSUME Inv, Ack, ToolMovesOriginal
    PROVE  Ack'
<1>1. /\ UNCHANGED <<archive, tombstone, seen, gen, waived, overwritten, misled, job, pending>>
      /\ pc = "converting" /\ bak' = mkv /\ mkv' = Absent /\ pc' = "swapping"
  BY DEF ToolMovesOriginal, history
<1>2. job.kind = "convert" /\ bak = Absent
  BY <1>1, KindByPlace DEF Inv, ConvertOK
<1>3. Counted => AckKept'
  BY <1>1, <1>2, AckFacts DEF Ack, AckKept
<1>4. Counted => AckJob'
  BY <1>1 DEF Ack, AckJob
<1>. QED BY <1>1, <1>2, <1>3, <1>4, AckFacts, AckMoves

LEMMA AckMovesOutput ==
    ASSUME Inv, Ack, ToolMovesOutput
    PROVE  Ack'
<1>1. /\ UNCHANGED <<bak, archive, tombstone, seen, gen, waived, overwritten, misled, job, pending>>
      /\ pc = "swapping" /\ mkv'.gen = seen.gen /\ pc' = "exited"
  BY DEF ToolMovesOutput, history, Of
<1>2. job.kind = "convert" /\ mkv = Absent /\ tombstone = Absent
  BY <1>1, KindByPlace, AckFacts DEF Inv, ConvertOK
<1>3. Counted => AckKept'
  <2>. SUFFICES ASSUME Counted
                PROVE  AckKept'
    OBVIOUS
  <2>1. bak.gen = gen
    BY <1>2, AckFacts DEF Ack, AckKept
  <2>2. seen.gen # gen => archive.gen # gen
    BY <1>1, <1>2 DEF Ack, AckJob
  <2>. QED BY <1>1, <1>2, <2>1, <2>2, AckFacts DEF AckKept
<1>4. AckJob'
  BY <1>1, JobAside
<1>. QED BY <1>1, <1>2, <1>3, <1>4, AckFacts, Contents, AckMoves

(* The full original goes when the archive and the converted MKV are valid.*)
LEMMA AckAccept ==
    ASSUME Inv, Ack, AcceptConversion
    PROVE  Ack'
<1>1. /\ UNCHANGED <<mkv, archive, tombstone, seen, gen, waived, overwritten, misled, job, pending>>
      /\ pc = "exited" /\ job.kind = "convert" /\ ConversionValid /\ pc' = "accepted"
      /\ bak' = IF job.mode = "compact_only" THEN Absent ELSE bak
  BY DEF AcceptConversion, history
<1>2. Counted => AckKept'
  <2>. SUFFICES ASSUME Counted
                PROVE  AckKept'
    OBVIOUS
  <2>1. CASE bak' = bak \/ bak.gen # gen
    BY <1>1, <2>1 DEF Ack, AckKept, Compact
  <2>2. CASE job.mode = "compact_only" /\ bak.gen = gen
    <3>1. archive = Of(gen, "archive") /\ gen = job.file.gen
      BY <1>1, <2>2 DEF Inv, ConvertOK, ConversionValid
    <3>2. mkv = Of(gen, "converted")
      BY <1>1, <3>1, AckFacts DEF Inv, ConvertOK, ConversionValid, Counted
    <3>. QED BY <1>1, <3>1, <3>2, OfValues DEF AckKept, Compact
  <2>. QED BY <1>1, <2>1, <2>2
<1>3. AckJob'
  BY <1>1, JobAside
<1>4. /\ ~KeepsArchiveOnly => bak' = bak
      /\ Compact(gen) => Compact(gen)'
  BY <1>1 DEF KeepsArchiveOnly, Compact
<1>. QED BY <1>1, <1>2, <1>3, <1>4, AckMoves

LEMMA AckJobFails ==
    ASSUME Inv, Ack, JobFails
    PROVE  Ack'
<1>1. /\ UNCHANGED <<mkv, bak, tombstone, gen, waived, overwritten, misled, pending>>
      /\ job' = NoJob /\ pc' = "idle"
      /\ archive' = archive \/ (pc = "archiving" /\ archive' = Of(seen.gen, "partial"))
  BY DEF JobFails, EndJob, history
<1>2. CASE archive' = archive
  BY <1>1, <1>2, AckAside
<1>3. CASE pc = "archiving" /\ archive' = Of(seen.gen, "partial")
  <2>1. mkv = Absent \/ mkv.form \in Profile7
    BY <1>3, KindByPlace DEF Inv, ConvertOK
  <2>2. tombstone = Absent
    BY <1>3, AckFacts
  <2>3. Counted /\ mkv.gen = gen => mkv.form \in Profile7
    BY <2>1, AckFacts
  <2>4. Counted => AckKept'
    <3>. SUFFICES ASSUME Counted
                  PROVE  AckKept'
      OBVIOUS
    <3>1. \/ mkv.gen = gen /\ mkv.form \in Profile7
          \/ bak.gen = gen
      BY <2>3 DEF Ack, AckKept
    <3>2. mkv # Absent /\ mkv.gen # gen => archive'.gen # gen
      BY <1>3, OfValues DEF Ack, AckJob
    <3>. QED BY <1>1, <2>2, <3>1, <3>2, AckFacts DEF AckKept
  <2>5. AckJob'
    BY <1>1, JobAside
  <2>. QED BY <1>1, <1>3, <2>3, <2>4, <2>5, AckMoves
<1>. QED BY <1>1, <1>2, <1>3

LEMMA AckHide ==
    ASSUME Inv, Ack, HideArchive
    PROVE  Ack'
<1>1. /\ UNCHANGED <<mkv, bak, seen, gen, waived, overwritten, misled, job, pending>>
      /\ pc = "hide" /\ pc' = "replace"
      /\ \/ UNCHANGED <<archive, tombstone>>
         \/ tombstone' = archive /\ archive' = Absent
  BY DEF HideArchive, history
<1>2. tombstone = Absent
  BY <1>1, AckFacts
<1>3. Compact(gen) => Compact(gen)'
  BY <1>1, <1>2, OfValues DEF Compact
<1>4. Counted => AckKept'
  BY <1>1, <1>2, <1>3, AckFacts DEF Ack, AckKept, Compact
<1>5. AckJob'
  BY <1>1, JobAside
<1>. QED BY <1>1, <1>3, <1>4, <1>5, AckMoves

(* A recovery replaces the movie it found, or one that is counted as       *)
(* overwritten; what it hides is the archive of what it installs, or of a  *)
(* release that was given up.                                              *)
LEMMA AckReplace ==
    ASSUME Inv, Ack, ReplaceMkv
    PROVE  Ack'
<1>1. /\ UNCHANGED <<bak, archive, tombstone, seen, gen, waived, misled, job, pending>>
      /\ pc = "replace" /\ pc' = "unlink"
      /\ \/ job.recovery_kind = "full" /\ mkv' = staged
         \/ job.recovery_kind # "full" /\ mkv' = restored
      /\ overwritten' = IF mkv = seen /\ job.current # Absent
                        THEN overwritten
                        ELSE overwritten \cup ({mkv.gen} \ {0})
  BY DEF ReplaceMkv, Replacement
<1>2. job \in Job /\ JobSound(job) /\ job.kind = "recovery_restore"
  BY <1>1, KindByPlace
<1>3. job.recovery_kind \in {"full", "compact"}
  BY <1>2, JobFields DEF BackupKind
<1>4. overwritten \subseteq overwritten'
  BY <1>1
<1>. DEFINE c == job.current
            a == job.source
<1>5. /\ c.gen \in waived \cup {0, a.gen}
      /\ job.recovery_kind = "compact" =>
            /\ a # Absent /\ tombstone = a /\ archive = Absent
            /\ MadeFrom(a, c) \/ {a.gen, c.gen} \subseteq waived \cup {0}
      /\ mkv = c \/ Displaced
      /\ c # Absent => seen = c
  BY <1>1, <1>2 DEF JobSound, Inv, RestoreOK
<1>6. /\ job.recovery_kind = "full" => mkv' = bak /\ bak # Absent /\ bak = a
      /\ job.recovery_kind = "compact" =>
            \/ mkv' = Of(c.gen, "rebuilt") /\ MadeFrom(a, c)
            \/ mkv' = Of(c.gen, "mixed") /\ (~MadeFrom(a, c) \/ mkv # c)
  BY <1>1, <1>2, <1>3 DEF JobSound, Inv, RestoreOK
<1>. HIDE DEF a, c
<1>7. MadeFrom(a, c) => a.gen = c.gen
  BY DEF MadeFrom, Of
<1>8. Displaced => c.gen \in waived \cup {0}
  BY DEF Displaced, c
<1>9. Counted /\ Counted' => gen \notin waived /\ gen # 0 /\ (mkv.gen = gen => mkv = c)
  <2>. SUFFICES ASSUME Counted, Counted'
                PROVE  gen \notin waived /\ gen # 0 /\ (mkv.gen = gen => mkv = c)
    OBVIOUS
  <2>1. gen \notin waived \cup overwritten' /\ gen # 0
    BY <1>1, AckFacts DEF Counted
  <2>. QED BY <1>1, <1>5, <2>1 DEF c
(* What comes of an archive that does not fit is of a release given up.    *)
<1>10. Counted /\ Counted' /\ job.recovery_kind = "compact" =>
          \/ mkv' = Of(c.gen, "rebuilt") /\ MadeFrom(a, c)
          \/ mkv'.gen # gen /\ a.gen # gen /\ mkv.gen # gen
  <2>. SUFFICES ASSUME Counted, Counted', job.recovery_kind = "compact",
                       mkv' = Of(c.gen, "mixed"), ~MadeFrom(a, c) \/ mkv # c
                PROVE  mkv'.gen # gen /\ a.gen # gen /\ mkv.gen # gen
    BY <1>6
  <2>1. mkv'.gen = c.gen
    BY DEF Of
  <2>2. a.gen # gen /\ c.gen # gen
    BY <1>5, <1>7, <1>8, <1>9
  <2>. QED BY <1>9, <2>1, <2>2
<1>11. Counted /\ Counted' /\ mkv.gen = gen => mkv'.gen = gen /\ mkv'.form \in Profile7
  <2>. SUFFICES ASSUME Counted, Counted', mkv.gen = gen
                PROVE  mkv'.gen = gen /\ mkv'.form \in Profile7
    OBVIOUS
  <2>1. mkv = c /\ c.gen = gen /\ a.gen = gen
    BY <1>5, <1>9
  <2>2. CASE job.recovery_kind = "full"
    BY <1>6, <2>1, <2>2, AckFacts
  <2>3. CASE job.recovery_kind = "compact"
    BY <1>10, <2>1, <2>3 DEF Of, Profile7
  <2>. QED BY <1>3, <2>2, <2>3
<1>12. Counted /\ Counted' => AckKept'
  <2>. SUFFICES ASSUME Counted, Counted'
                PROVE  AckKept'
    OBVIOUS
  <2>1. \/ mkv'.gen = gen /\ mkv'.form \in Profile7
        \/ bak.gen = gen
    BY <1>11 DEF Ack, AckKept
  <2>2. mkv'.gen # gen => archive.gen # gen /\ tombstone.gen # gen
    <3>. SUFFICES ASSUME mkv'.gen # gen
                  PROVE  archive.gen # gen /\ tombstone.gen # gen
      OBVIOUS
    <3>1. job.recovery_kind = "compact"
      BY <1>3, <1>6, <2>1
    <3>2. archive.gen # gen
      BY <1>5, <3>1, AckFacts
    <3>3. a.gen # gen
      BY <1>7, <1>10, <3>1 DEF Of
    <3>. QED BY <1>5, <3>1, <3>2, <3>3
  <2>. QED BY <1>1, <2>1, <2>2 DEF AckKept
<1>13. Counted /\ Counted' => AckJob'
  <2>. SUFFICES ASSUME Counted, Counted'
                PROVE  mkv'.form \in Profile7 \/ tombstone.gen # gen
    BY <1>1 DEF AckJob
  <2>1. CASE job.recovery_kind = "full"
    BY <1>6, <2>1 DEF Inv, FilesOK
  <2>2. CASE job.recovery_kind = "compact"
    BY <1>5, <1>10, <2>2 DEF Of, Profile7
  <2>. QED BY <1>3, <2>1, <2>2
<1>. QED BY <1>1, <1>4, <1>11, <1>12, <1>13, AckMoves

LEMMA AckUnlink ==
    ASSUME Inv, Ack, UnlinkTombstone
    PROVE  Ack'
<1>1. /\ UNCHANGED <<mkv, bak, archive, gen, waived, overwritten, misled, pending>>
      /\ pc = "unlink" /\ tombstone' = Absent /\ job' = NoJob /\ pc' = "idle"
  BY DEF UnlinkTombstone, EndJob, history
<1>2. Counted => mkv.form \in Profile7 \/ (Compact(gen) => Compact(gen)')
  BY <1>1, OfValues DEF Ack, AckJob, Compact
<1>3. Counted => AckKept'
  BY <1>1, <1>2, AckFacts DEF Ack, AckKept
<1>4. AckJob'
  BY <1>1, JobAside
<1>. QED BY <1>1, <1>2, <1>3, <1>4, AckMoves

LEMMA AckInstallFails ==
    ASSUME Inv, Ack, InstallFails
    PROVE  Ack'
<1>1. /\ UNCHANGED <<mkv, bak, gen, waived, overwritten, misled, pending>>
      /\ pc \in {"hide", "replace"} /\ job' = NoJob /\ pc' = "idle"
      /\ tombstone' = Absent /\ archive' = IF tombstone = Absent THEN archive ELSE tombstone
  BY DEF InstallFails, RollBack, EndJob, history
<1>2. tombstone # Absent => archive = Absent
  BY <1>1, KindByPlace, AckFacts DEF Inv, RestoreOK
<1>3. Compact(gen) => Compact(gen)'
  BY <1>1, <1>2, OfValues DEF Compact
<1>4. Counted => AckKept'
  BY <1>1, <1>3, AckFacts DEF Ack, AckKept
<1>5. AckJob'
  BY <1>1, JobAside
<1>. QED BY <1>1, <1>3, <1>4, <1>5, AckMoves

(* The one deletion leaves the other source of the newest release.         *)
LEMMA AckDeleteNext ==
    ASSUME Inv, Ack, NEW p \in Pick, DeleteNext(p)
    PROVE  Ack'
<1>1. /\ UNCHANGED <<mkv, tombstone, gen, waived, overwritten, misled, pending, pc, seen>>
      /\ pc = "deleting" /\ p \in job.picks
      /\ job' = [job EXCEPT !.picks = @ \ {p}]
      /\ bak' = IF p \in found /\ p.kind = "full" THEN Absent ELSE bak
      /\ archive' = IF p \in found /\ p.kind = "compact" THEN Absent ELSE archive
  BY DEF DeleteNext, history
<1>2. job \in Job /\ job.kind = "backup_delete" /\ tombstone = Absent
  BY <1>1, KindByPlace, AckFacts
<1>3. job'.kind = "backup_delete" /\ job'.picks = job.picks \ {p}
  BY <1>1, <1>2, ShrinkJob
<1>4. p \in found => Artifact(p.kind) \in {Absent, p.file}
  BY <1>1, <1>2 DEF Inv, DeleteOK
<1>5. job \in Deletions /\ Deletions' \subseteq Deletions \cup {job'}
  BY <1>1, <1>2 DEF Deletions, ActiveJobs
<1>6. Counted' <=> Counted
  BY <1>1 DEF Counted
<1>7. AckFiles'
  <2>1. ~misled => \A q \in job'.picks : q.file.gen <= gen
    BY <1>3, <1>5 DEF Ack, AckFiles
  <2>. QED BY <1>1, <1>2, <1>5, <2>1 DEF Ack, AckFiles
<1>8. AckOne'
  BY <1>1, <1>2, <1>3 DEF Ack, AckOne, Waiting
<1>9. AckKept'
  <2>. SUFFICES ASSUME Counted
                PROVE  /\ \/ mkv.gen = gen /\ (mkv.form \in Profile7 \/ Compact(gen)')
                          \/ bak'.gen = gen
                       /\ mkv # Absent /\ mkv.gen # gen => archive'.gen # gen /\ tombstone.gen # gen
    BY <1>1, <1>6 DEF AckKept, Compact
  <2>1. mkv # Absent /\ mkv.gen # gen => archive'.gen # gen /\ tombstone.gen # gen
    BY <1>1, AckFacts DEF Ack, AckKept
  <2>2. CASE p.file.gen = gen
    <3>1. /\ mkv.gen = gen /\ bak.gen = gen
          /\ p.kind = "full" => mkv.form \in Profile7 \/ Compact(gen)
      BY <1>1, <1>5, <2>2 DEF Ack, AckDeletion
    <3>2. bak' = bak \/ (p.kind = "full" /\ archive' = archive)
      BY <1>1
    <3>. QED BY <1>1, <2>1, <3>1, <3>2 DEF Compact
  <2>3. CASE p.file.gen # gen
    <3>1. bak.gen = gen => bak' = bak
      BY <1>1, <1>4, <2>3, AckFacts DEF Artifact
    <3>2. archive = Of(gen, "archive") => archive' = archive
      BY <1>1, <1>4, <2>3, AckFacts, OfValues DEF Artifact
    <3>3. Compact(gen) => Compact(gen)'
      BY <1>1, <3>2 DEF Compact
    <3>4. (mkv.gen = gen /\ (mkv.form \in Profile7 \/ Compact(gen))) \/ bak.gen = gen
      BY DEF Ack, AckKept
    <3>. QED BY <2>1, <3>1, <3>3, <3>4
  <2>. QED BY <2>2, <2>3
<1>10. AckDeletion'
  <2>. SUFFICES ASSUME Counted, NEW j \in Deletions', NEW q \in j.picks, q.file.gen = gen
                PROVE  FALSE
    BY <1>1, <1>6 DEF AckDeletion
  <2>1. Waiting = {}
    BY <1>2 DEF Counted, Ack, AckOne
  <2>2. j = job'
    BY <1>1, <2>1 DEF Deletions, ActiveJobs, Waiting
  <2>3. job.picks = {q}
    BY <1>3, <1>5, <2>2 DEF Ack, AckDeletion
  <2>. QED BY <1>1, <1>3, <2>2, <2>3
<1>11. AckJob'
  BY <1>1, JobAside
<1>. QED BY <1>7, <1>8, <1>9, <1>10, <1>11 DEF Ack

-----------------------------------------------------------------------------

LEMMA AckInit == Init => Ack
<1>. SUFFICES ASSUME Init
              PROVE  Ack
  OBVIOUS
<1>1. Waiting = {} /\ Deletions = {}
  BY NoJobKind DEF Init, Waiting, Deletions, ActiveJobs
<1>2. mkv.gen = 1 /\ mkv.form \in Profile7 /\ mkv # Absent
  BY DEF Init, Of, Absent, Profile7
<1>3. AckFiles
  BY <1>1 DEF Init, AckFiles
<1>4. AckOne /\ AckKept /\ AckDeletion /\ AckJob
  BY <1>1, <1>2 DEF Init, AckOne, AckKept, AckDeletion, AckJob
<1>. QED BY <1>3, <1>4 DEF Ack

LEMMA AckStep ==
    ASSUME Inv, Ack, [Next]_vars
    PROVE  Ack'
<1>1. CASE User
  BY <1>1, AckApprovals, AckApproveDelete, AckLook, AckCancel DEF User
<1>2. CASE External \/ Scan \/ JobFails \/ Crash
  BY <1>2, AckExternal, AckAsideSteps, AckJobFails, AckStop
<1>3. CASE Conversion
  BY <1>3, AckBegin, AckStartConversion, AckWritesArchive, AckMovesOriginal, AckMovesOutput,
     AckAccept, AckAsideSteps
  DEF Conversion
<1>4. CASE Recovery
  BY <1>4, AckBegin, AckAsideSteps, AckHide, AckReplace, AckUnlink, AckInstallFails, AckStop
  DEF Recovery
<1>5. CASE Deletion
  BY <1>5, AckBegin, AckAsideSteps, AckDeleteNext DEF Deletion
<1>6. CASE UNCHANGED vars
  <2>1. UNCHANGED <<mkv, bak, archive, tombstone, gen, waived, overwritten, misled, job, pending,
                    pc, seen>>
    BY <1>6 DEF vars, disk, worker, history
  <2>2. AckOne' /\ Deletions' \subseteq Deletions
    BY <2>1, QueueStays DEF Ack
  <2>3. Counted => AckJob'
    BY <2>1 DEF Ack, AckJob
  <2>. QED BY <2>1, <2>2, <2>3, SourcesStay DEF KeepsArchiveOnly
<1>. QED BY <1>1, <1>2, <1>3, <1>4, <1>5, <1>6 DEF Next

(* The acknowledgement protects the last recovery source, although the     *)
(* handler decides on what a thread saw earlier: unless the count behind a *)
(* deletion was misled, or the release was given up or overwritten, it can *)
(* be had, or its archive is there.                                        *)
THEOREM LastSourceIsProtected == Spec => []AcknowledgementProtects
<1>1. Inv /\ Ack => AcknowledgementProtects
  <2>. SUFFICES ASSUME Inv, Ack, NEW g \in 1 .. gen, ~misled, g \notin waived \cup overwritten
                PROVE  SourceRemains(g)
    BY DEF AcknowledgementProtects
  <2>1. g = gen
    <3>1. g \notin 1 .. gen - 1 /\ gen \in Nat
      BY Facts DEF Ack, AckFiles
    <3>. QED BY <3>1
  <2>2. Counted
    BY <2>1 DEF Counted
  <2>3. CASE bak.gen = gen
    BY <2>1, <2>3, AckFacts DEF SourceRemains, Recoverable
  <2>4. CASE mkv.gen = gen /\ mkv.form \in Profile7
    BY <2>1, <2>4 DEF SourceRemains, Recoverable
  <2>5. CASE mkv.gen = gen /\ archive = Of(gen, "archive")
    BY <2>1, <2>5 DEF SourceRemains
  <2>6. CASE mkv.gen = gen /\ tombstone = Of(gen, "archive")
    <3>1. pc \in {"replace", "unlink"}
      BY <2>6, AckFacts, OfValues
    <3>2. CASE pc = "unlink"
      BY <2>1, <2>2, <2>6, <3>2, OfValues DEF Ack, AckJob, SourceRemains, Recoverable
    <3>3. CASE pc = "replace" /\ mkv = job.current
      BY <2>1, <2>6, <3>3, TargetSafe DEF SourceRemains, Recoverable
    <3>4. CASE pc = "replace" /\ mkv # job.current
      <4>1. job.kind = "recovery_restore"
        BY <3>4, KindByPlace
      <4>2. mkv.form = "original"
        BY <2>6, <3>4, <4>1, AckFacts, Contents DEF Inv, RestoreOK, Displaced
      <4>. QED BY <2>1, <2>6, <4>2 DEF SourceRemains, Recoverable, Profile7
    <3>. QED BY <3>1, <3>2, <3>3, <3>4
  <2>. QED BY <2>2, <2>3, <2>4, <2>5, <2>6 DEF Ack, AckKept, Compact
<1>2. Inv /\ Ack /\ [Next]_vars => Ack'
  BY AckStep
<1>. QED BY InvInductive, AckInit, <1>1, <1>2, PTL DEF Spec

=============================================================================

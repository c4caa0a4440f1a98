--------------------------- MODULE AutoQueueProofs ---------------------------
(***************************************************************************)
(* Proofs about AutoQueue, for every set of policies and any number of     *)
(* releases, jobs and crashes.                                             *)
(*                                                                         *)
(* A step does one of four things to the job table (TableStep); what it    *)
(* appends is Creatable.  From that follow the properties of the table.    *)
(* That a smart scan asks once needs more: a file that was left behind     *)
(* comes back with the same fingerprint only from a recovery, so a file a  *)
(* conversion is about is the one of the inventory, or not the one on the  *)
(* disk, or a recovered one (Past).                                        *)
(***************************************************************************)
EXTENDS AutoQueue, SequenceTheorems, TLAPS

Id == 1 .. Len(jobs)
Active == {"queued", "running"}
Candidates == {"mel", "simple"}

(* A file with news of it is new to the conversions, or a recovered one.   *)
Past(file) == file = inventory \/ disk # file \/ file \in returned

(* The rows that may be active are the last of their kind.                 *)
OldAreOver ==
    \A i, j \in Id :
        i < j /\ Alike(jobs[i].kind, jobs[j].kind) => jobs[i].state \notin Active

RowOK(job) ==
    /\ job.kind \notin ScanKind => job.file.form \in Candidates /\ job.file.version <= imports
    /\ job.kind = "inspect" /\ job.gate => job.file.form = "mel"
    /\ job.kind = "convert" => Past(job.file)

RowsOK == \A i \in Id : RowOK(jobs[i])

CandidateOK ==
    /\ disk.version <= imports
    /\ backup.version <= imports
    /\ candidate.active =>
          /\ candidate.file.form \in Candidates
          /\ candidate.file.version <= imports
          /\ Past(candidate.file)

Unasked(file) == JobsFor("convert", file) = {} \/ file \in returned

(* What the stages of the worker know of the row it holds.                 *)
TailOK ==
    /\ stage \in {"inspect", "convert"} =>
          /\ candidate.active
          /\ candidate.file = inventory
          /\ jobs[current].kind = "smart" => Unasked(candidate.file)
    /\ stage = "follow_up" =>
          jobs[current].kind = "inspect" /\ jobs[current].gate /\ jobs[current].state = "succeeded"

Inv ==
    /\ TypeOK
    /\ OldAreOver
    /\ InspectedOnce
    /\ NoAutomaticRetry
    /\ RowsOK
    /\ CandidateOK
    /\ TailOK

(* What a step may append.                                                 *)
Creatable(job) ==
    /\ job \in Job
    /\ job.state = "queued"
    /\ ~Duplicate(job.kind)
    /\ RowOK(job)
    /\ job.kind = "inspect" /\ job.automatic => ~InspectionExists(job.file)
    /\ job.kind = "convert" /\ job.automatic => ~ConversionFailed(job.file)

Close(i, state) ==
    /\ i \in Id
    /\ jobs[i].state \in Active
    /\ state \in JobState \ {"queued"}
    /\ Finish(i, state)

FailRunning ==
    jobs' = [i \in Id |->
               IF jobs[i].state = "running" THEN [jobs[i] EXCEPT !.state = "failed"] ELSE jobs[i]]

TableStep ==
    \/ UNCHANGED jobs
    \/ \E job \in Job : Creatable(job) /\ jobs' = Append(jobs, job)
    \/ \E i \in Id, state \in JobState : Close(i, state)
    \/ FailRunning

-----------------------------------------------------------------------------
(* What the four table steps do to the rows.                               *)

(* Every row is still there, about the same file, and has changed its      *)
(* state only if it was active.                                            *)
RowsKept ==
    /\ jobs' \in Seq(Job)
    /\ Len(jobs') = Len(jobs)
    /\ \A i \in Id :
          /\ jobs'[i].kind = jobs[i].kind
          /\ jobs'[i].file = jobs[i].file
          /\ jobs'[i].automatic = jobs[i].automatic
          /\ jobs'[i].gate = jobs[i].gate
          /\ \/ jobs'[i].state = jobs[i].state
             \/ jobs[i].state \in Active /\ jobs'[i].state # "queued"

LEMMA Rows ==
    ASSUME TypeOK
    PROVE  /\ jobs \in Seq(Job)
           /\ Len(jobs) \in Nat
           /\ \A i \in Id : /\ jobs[i] \in Job
                            /\ jobs[i].kind \in Kind
                            /\ jobs[i].file \in Content
                            /\ jobs[i].automatic \in BOOLEAN
                            /\ jobs[i].gate \in BOOLEAN
                            /\ jobs[i].state \in JobState
<1>1. jobs \in Seq(Job) /\ Len(jobs) \in Nat
  BY DEF TypeOK
<1>2. \A i \in Id : jobs[i] \in Job
  BY <1>1 DEF Id
<1>. QED BY <1>1, <1>2 DEF Job

LEMMA FinishRows ==
    ASSUME TypeOK, NEW i \in Id, NEW state \in JobState, Finish(i, state)
    PROVE  /\ jobs' \in Seq(Job)
           /\ Len(jobs') = Len(jobs)
           /\ \A j \in Id : /\ jobs'[j].kind = jobs[j].kind
                            /\ jobs'[j].file = jobs[j].file
                            /\ jobs'[j].automatic = jobs[j].automatic
                            /\ jobs'[j].gate = jobs[j].gate
                            /\ jobs'[j].state = IF j = i THEN state ELSE jobs[j].state
<1>. DEFINE row == [jobs[i] EXCEPT !.state = state]
<1>1. jobs[i] \in Job
  BY Rows
<1>2. /\ row \in Job
      /\ row.kind = jobs[i].kind /\ row.file = jobs[i].file
      /\ row.automatic = jobs[i].automatic /\ row.gate = jobs[i].gate
      /\ row.state = state
  BY <1>1 DEF Job
<1>3. jobs' = [jobs EXCEPT ![i] = row]
  BY DEF Finish
<1>. HIDE DEF row
<1>. QED BY <1>2, <1>3, Rows DEF Id

LEMMA CloseKeepsRows ==
    ASSUME TypeOK, NEW i \in Id, NEW state \in JobState, Close(i, state)
    PROVE  RowsKept
BY FinishRows DEF Close, RowsKept

LEMMA FailKeepsRows ==
    ASSUME TypeOK, FailRunning
    PROVE  RowsKept
<1>1. \A i \in Id :
          /\ [jobs[i] EXCEPT !.state = "failed"] \in Job
          /\ [jobs[i] EXCEPT !.state = "failed"].kind = jobs[i].kind
          /\ [jobs[i] EXCEPT !.state = "failed"].file = jobs[i].file
          /\ [jobs[i] EXCEPT !.state = "failed"].automatic = jobs[i].automatic
          /\ [jobs[i] EXCEPT !.state = "failed"].gate = jobs[i].gate
          /\ [jobs[i] EXCEPT !.state = "failed"].state = "failed"
  BY Rows DEF Job, JobState
<1>2. jobs' \in [Id -> Job]
  BY <1>1, Rows DEF FailRunning
<1>3. jobs' \in Seq(Job) /\ Len(jobs') = Len(jobs)
  BY <1>2, Rows DEF Id
<1>4. \A i \in Id :
          jobs'[i] = IF jobs[i].state = "running" THEN [jobs[i] EXCEPT !.state = "failed"] ELSE jobs[i]
  BY DEF FailRunning
<1>. QED BY <1>1, <1>3, <1>4 DEF RowsKept, Active

LEMMA AppendRows ==
    ASSUME TypeOK, NEW job \in Job, jobs' = Append(jobs, job)
    PROVE  /\ jobs' \in Seq(Job)
           /\ Len(jobs') = Len(jobs) + 1
           /\ \A i \in Id : jobs'[i] = jobs[i]
           /\ jobs'[Len(jobs) + 1] = job
BY Rows DEF Id

-----------------------------------------------------------------------------
(* The invariants of the table.                                            *)

LEMMA KeptRowsKeepTable ==
    ASSUME TypeOK, OldAreOver, InspectedOnce, NoAutomaticRetry, RowsKept
    PROVE  OldAreOver' /\ InspectedOnce' /\ NoAutomaticRetry'
<1>1. OldAreOver'
  BY DEF OldAreOver, RowsKept, Id, Alike, Active
<1>2. InspectedOnce'
  BY DEF InspectedOnce, RowsKept, Id, JobsFor
<1>3. NoAutomaticRetry'
  <2>. SUFFICES ASSUME NEW i \in Id, NEW j \in Id, i < j,
                       jobs[j].kind = "convert", jobs[j].automatic,
                       jobs[i].kind = "convert", jobs[i].file = jobs[j].file
                PROVE  jobs'[i].state # "failed"
    BY DEF NoAutomaticRetry, RowsKept, Id, JobsFor
  <2>1. jobs[i].state # "failed"
    BY DEF NoAutomaticRetry, JobsFor, Id
  <2>2. jobs[i].state \notin Active
    BY DEF OldAreOver, Alike
  <2>. QED BY <2>1, <2>2 DEF RowsKept
<1>. QED BY <1>1, <1>2, <1>3

LEMMA NewRowKeepsTable ==
    ASSUME TypeOK, OldAreOver, InspectedOnce, NoAutomaticRetry,
           NEW job \in Job, Creatable(job), jobs' = Append(jobs, job)
    PROVE  OldAreOver' /\ InspectedOnce' /\ NoAutomaticRetry'
<1>. DEFINE n == Len(jobs) + 1
<1>1. /\ Len(jobs) \in Nat /\ Len(jobs') = n /\ Id' = Id \cup {n} /\ n \notin Id
      /\ \A i \in Id : jobs'[i] = jobs[i] /\ i < n /\ i \in Nat
      /\ jobs'[n] = job
  BY AppendRows, Rows DEF Id
<1>. HIDE DEF n
<1>2. OldAreOver'
  <2>. SUFFICES ASSUME NEW i \in Id', NEW j \in Id', i < j, Alike(jobs'[i].kind, jobs'[j].kind)
                PROVE  jobs'[i].state \notin Active
    BY DEF OldAreOver, Alike
  <2>1. i \in Id
    BY <1>1 DEF Id
  <2>2. CASE j \in Id
    BY <1>1, <2>1, <2>2 DEF OldAreOver
  <2>3. CASE j = n
    <3>1. Alike(job.kind, jobs[i].kind)
      BY <1>1, <2>1, <2>3 DEF Alike
    <3>. QED BY <1>1, <2>1, <3>1 DEF Creatable, Duplicate, Active, Id
  <2>. QED BY <1>1, <2>2, <2>3
<1>3. InspectedOnce'
  <2>. SUFFICES ASSUME NEW i \in Id', NEW j \in Id', jobs'[j].kind = "inspect", jobs'[j].automatic,
                       jobs'[i].kind = "inspect", jobs'[i].file = jobs'[j].file
                PROVE  i >= j
    BY DEF InspectedOnce, JobsFor, Id
  <2>1. CASE i \in Id /\ j \in Id
    BY <1>1, <2>1 DEF InspectedOnce, JobsFor, Id
  <2>2. CASE i = n
    BY <1>1, <2>2 DEF Id
  <2>3. CASE i \in Id /\ j = n
    BY <1>1, <2>3 DEF Creatable, InspectionExists, JobsFor, Id
  <2>. QED BY <1>1, <2>1, <2>2, <2>3
<1>4. NoAutomaticRetry'
  <2>. SUFFICES ASSUME NEW i \in Id', NEW j \in Id', i < j,
                       jobs'[j].kind = "convert", jobs'[j].automatic,
                       jobs'[i].kind = "convert", jobs'[i].file = jobs'[j].file
                PROVE  jobs'[i].state # "failed"
    BY DEF NoAutomaticRetry, JobsFor, Id
  <2>1. i \in Id
    BY <1>1 DEF Id
  <2>2. CASE j \in Id
    BY <1>1, <2>1, <2>2 DEF NoAutomaticRetry, JobsFor, Id
  <2>3. CASE j = n
    BY <1>1, <2>1, <2>3 DEF Creatable, ConversionFailed, JobsFor, Id
  <2>. QED BY <1>1, <2>2, <2>3
<1>. QED BY <1>2, <1>3, <1>4

-----------------------------------------------------------------------------
(* Every step is a table step.                                             *)

LEMMA HeldRow ==
    ASSUME TypeOK, stage # "idle"
    PROVE  /\ current \in Id
           /\ stage # "follow_up" => jobs[current].state = "running"
<1>1. current \in Id
  BY Rows DEF TypeOK, Id
<1>. QED BY <1>1 DEF TypeOK, Id

LEMMA CreatedIsCreatable ==
    ASSUME Inv, NEW kind \in Kind, NEW automatic \in BOOLEAN, NEW gate \in BOOLEAN,
           NEW file \in Content, ~Duplicate(kind),
           kind \notin ScanKind => candidate.active /\ file = candidate.file,
           kind = "inspect" /\ gate => file.form = "mel",
           kind = "inspect" /\ automatic => ~InspectionExists(file),
           kind = "convert" /\ automatic => ~ConversionFailed(file)
    PROVE  Creatable(JobFor(kind, file, automatic, gate))
<1>. DEFINE job == JobFor(kind, file, automatic, gate)
<1>1. /\ job \in Job /\ job.kind = kind /\ job.file = file /\ job.automatic = automatic
      /\ job.gate = gate /\ job.state = "queued"
  BY DEF JobFor, Job, JobState
<1>. HIDE DEF job
<1>2. kind \notin ScanKind => /\ file.form \in Candidates
                              /\ file.version <= imports
                              /\ Past(file)
  BY DEF Inv, CandidateOK
<1>3. RowOK(job)
  BY <1>1, <1>2 DEF RowOK, ScanKind
<1>4. Creatable(job)
  BY <1>1, <1>3 DEF Creatable
<1>. QED BY <1>4 DEF job

(* What the creating actions append.                                       *)
Created ==
    \E job \in Job : Creatable(job) /\ jobs' = Append(jobs, job)

LEMMA SubmitCreates ==
    ASSUME Inv, NEW kind \in Kind, Submit(kind)
    PROVE  Created
<1>. DEFINE file == IF kind \in ScanKind THEN Absent ELSE candidate.file
<1>1. file \in Content
  BY BoundsAssumption DEF Inv, TypeOK, Absent, Content, Form
<1>2. ~Duplicate(kind) /\ jobs' = Append(jobs, JobFor(kind, file, FALSE, FALSE))
  BY DEF Submit, CreateJob, JobFor
<1>3. kind \notin ScanKind => candidate.active /\ file = candidate.file
  BY DEF Submit, CandidateReady
<1>. HIDE DEF file
<1>4. Creatable(JobFor(kind, file, FALSE, FALSE))
  BY <1>1, <1>2, <1>3, CreatedIsCreatable
<1>. QED BY <1>2, <1>4 DEF Created, Creatable

LEMMA TailCreates ==
    ASSUME Inv, AutoInspectCandidate \/ AutoConvertCandidate \/ FollowUpConversion,
           ~UNCHANGED jobs
    PROVE  Created
<1>1. candidate.file \in Content /\ {"inspect", "convert"} \subseteq Kind
  BY DEF Inv, TypeOK, Kind
<1>2. CASE AutoInspectCandidate
  <2>. DEFINE gate == "gate" \in policy /\ candidate.file.form = "mel"
  <2>1. /\ ~InspectionExists(candidate.file)
        /\ ~Duplicate("inspect")
        /\ jobs' = Append(jobs, JobFor("inspect", candidate.file, TRUE, gate))
    BY <1>2 DEF AutoInspectCandidate, CreateOrDrop, CreateJob, JobFor
  <2>2. candidate.active
    BY <1>2 DEF AutoInspectCandidate, Inv, TailOK
  <2>3. gate \in BOOLEAN /\ (gate => candidate.file.form = "mel")
    OBVIOUS
  <2>. HIDE DEF gate
  <2>4. Creatable(JobFor("inspect", candidate.file, TRUE, gate))
    BY <1>1, <2>1, <2>2, <2>3, CreatedIsCreatable
  <2>. QED BY <2>1, <2>4 DEF Created, Creatable
<1>3. CASE AutoConvertCandidate
  <2>1. /\ ~ConversionFailed(candidate.file)
        /\ ~Duplicate("convert")
        /\ jobs' = Append(jobs, JobFor("convert", candidate.file, TRUE, FALSE))
    BY <1>3 DEF AutoConvertCandidate, QueuesConversion, CreateOrDrop, CreateJob, JobFor
  <2>2. candidate.active
    BY <1>3 DEF AutoConvertCandidate, Inv, TailOK
  <2>3. Creatable(JobFor("convert", candidate.file, TRUE, FALSE))
    BY <1>1, <2>1, <2>2, CreatedIsCreatable
  <2>. QED BY <2>1, <2>3 DEF Created, Creatable
<1>4. CASE FollowUpConversion
  <2>1. /\ candidate.active
        /\ ~ConversionExists(candidate.file)
        /\ ~Duplicate("convert")
        /\ jobs' = Append(jobs, JobFor("convert", candidate.file, TRUE, TRUE))
    BY <1>4 DEF FollowUpConversion, CreateOrDrop, CreateJob, JobFor
  <2>2. ~ConversionFailed(candidate.file)
    BY <2>1 DEF ConversionExists, ConversionFailed
  <2>3. Creatable(JobFor("convert", candidate.file, TRUE, TRUE))
    BY <1>1, <2>1, <2>2, CreatedIsCreatable
  <2>. QED BY <2>1, <2>3 DEF Created, Creatable
<1>. QED BY <1>2, <1>3, <1>4

LEMMA WorkerCloses ==
    ASSUME TypeOK, FailJob \/ SucceedScan \/ SucceedInspection \/ SucceedConversion
    PROVE  \E state \in JobState : Close(current, state)
<1>1. stage \notin {"idle", "follow_up"}
  BY DEF FailJob, SucceedScan, SucceedInspection, SucceedConversion
<1>2. Finish(current, "failed") \/ Finish(current, "succeeded")
  BY DEF FailJob, SucceedScan, SucceedInspection, SucceedConversion
<1>. QED BY <1>1, <1>2, HeldRow DEF Close, Active, JobState

LEMMA NextIsTableStep ==
    ASSUME Inv, [Next]_vars
    PROVE  TableStep
<1>1. CASE UNCHANGED jobs
  BY <1>1 DEF TableStep
<1>2. ASSUME NEW kind \in Kind, Submit(kind)
      PROVE  TableStep
  BY <1>2, SubmitCreates DEF Created, TableStep
<1>3. ASSUME NEW i \in Id, Cancel(i)
      PROVE  TableStep
  <2>1. Close(i, "cancelled")
    BY <1>3 DEF Cancel, Close, Active, JobState
  <2>. QED BY <2>1 DEF TableStep, JobState
<1>4. CASE Begin
  <2>1. PICK i \in Id : jobs[i].state = "queued" /\ (Finish(i, "running") \/ Finish(i, "failed"))
    BY <1>4 DEF Begin, Id
  <2>2. Close(i, "running") \/ Close(i, "failed")
    BY <2>1 DEF Close, Active, JobState
  <2>. QED BY <2>2 DEF TableStep, JobState
<1>5. CASE FailJob \/ SucceedScan \/ SucceedInspection \/ SucceedConversion
  <2>1. PICK state \in JobState : Close(current, state)
    BY <1>5, WorkerCloses DEF Inv
  <2>. QED BY <2>1 DEF Close, TableStep
<1>6. CASE AutoInspectCandidate \/ AutoConvertCandidate \/ FollowUpConversion
  BY <1>6, TailCreates DEF Created, TableStep
<1>7. CASE Crash
  BY <1>7 DEF Crash, FailRunning, TableStep, Id
<1>. QED
  BY <1>1, <1>2, <1>3, <1>4, <1>5, <1>6, <1>7
  DEF Next, User, Worker, Import, Delete, DeleteBackup, Recover, SaveSettings, ReconcileScan,
      vars, Id

-----------------------------------------------------------------------------
(* Files come back from a recovery only.                                   *)

LEMMA PastKept ==
    ASSUME Inv, [Next]_vars, NEW file \in Content,
           file.form \in Candidates, file.version <= imports, Past(file)
    PROVE  /\ file.version <= imports'
           /\ file = inventory' \/ disk' # file \/ file \in returned'
<1>1. /\ imports \in Nat /\ file.version \in Nat
      /\ disk \in Content
  BY BoundsAssumption DEF Inv, TypeOK, Content
<1>2. CASE Import
  <2>1. imports' = imports + 1 /\ disk'.version = imports + 1
    BY <1>2 DEF Import
  <2>. QED BY <1>1, <2>1
<1>3. CASE Delete
  BY <1>1, <1>3 DEF Delete, Absent, Candidates
<1>4. CASE ReconcileScan
  BY <1>1, <1>4 DEF ReconcileScan, Past, files
<1>5. CASE SucceedConversion
  <2>1. disk'.form = "converted" /\ imports' = imports
    BY <1>1, <1>5 DEF SucceedConversion, Content
  <2>. QED BY <1>1, <2>1 DEF Candidates
<1>6. CASE Recover
  <2>1. disk' = backup /\ backup \in returned' /\ imports' = imports
    BY <1>6 DEF Recover
  <2>. QED BY <1>1, <2>1
<1>7. CASE AutoConvertCandidate
  <2>1. /\ UNCHANGED <<disk, inventory, imports>>
        /\ returned' = returned \ {inventory}
    BY <1>7 DEF AutoConvertCandidate, Inv, TailOK, tables
  <2>. QED BY <1>1, <2>1 DEF Past
<1>8. CASE UNCHANGED <<disk, inventory, returned, imports>>
  BY <1>8 DEF Past
<1>. QED
  BY <1>2, <1>3, <1>4, <1>5, <1>6, <1>7, <1>8
  DEF Next, User, Worker, DeleteBackup, Submit, Cancel, SaveSettings, Begin, FailJob,
      AutoInspectCandidate, SucceedScan, SucceedInspection, FollowUpConversion, Crash, files,
      tables, vars

LEMMA RowOKKept ==
    ASSUME Inv, [Next]_vars, NEW job \in Job, RowOK(job)
    PROVE  /\ job.kind \notin ScanKind =>
                 job.file.form \in Candidates /\ job.file.version <= imports'
           /\ job.kind = "inspect" /\ job.gate => job.file.form = "mel"
           /\ job.kind = "convert" =>
                 job.file = inventory' \/ disk' # job.file \/ job.file \in returned'
<1>1. job.file \in Content /\ job.kind \in Kind
  BY DEF Job
<1>2. CASE job.kind \in ScanKind
  BY <1>2 DEF RowOK, ScanKind
<1>3. CASE job.kind = "convert"
  <2>1. job.file.form \in Candidates /\ job.file.version <= imports /\ Past(job.file)
    BY <1>3 DEF RowOK, ScanKind
  <2>. QED BY <1>1, <1>3, <2>1, PastKept
<1>4. CASE job.kind = "inspect"
  <2>1. job.file.form \in Candidates /\ job.file.version <= imports
    BY <1>4 DEF RowOK, ScanKind
  <2>2. imports \in Nat /\ job.file.version \in Nat
    BY <1>1, BoundsAssumption DEF Inv, TypeOK, Content
  <2>3. imports' \in {imports, imports + 1}
    BY DEF Next, User, Worker, Import, Delete, DeleteBackup, Recover, Submit, Cancel,
        SaveSettings, Begin, FailJob, ReconcileScan, AutoInspectCandidate,
        AutoConvertCandidate, SucceedScan, SucceedInspection, FollowUpConversion,
        SucceedConversion, Crash, vars
  <2>. QED BY <1>4, <2>1, <2>2, <2>3 DEF RowOK
<1>. QED BY <1>1, <1>2, <1>3, <1>4 DEF Kind, ScanKind

LEMMA TableInvStep ==
    ASSUME Inv, [Next]_vars
    PROVE  OldAreOver' /\ InspectedOnce' /\ NoAutomaticRetry' /\ RowsOK'
<1>1. ASSUME RowsKept
      PROVE  OldAreOver' /\ InspectedOnce' /\ NoAutomaticRetry' /\ RowsOK'
  <2>1. OldAreOver' /\ InspectedOnce' /\ NoAutomaticRetry'
    BY <1>1, KeptRowsKeepTable DEF Inv
  <2>2. \A i \in Id : jobs[i] \in Job /\ RowOK(jobs[i])
    BY Rows DEF Inv, RowsOK
  <2>3. RowsOK'
    <3>. SUFFICES ASSUME NEW i \in Id'
                  PROVE  RowOK(jobs[i])'
      BY DEF RowsOK
    <3>1. i \in Id
      BY <1>1 DEF RowsKept, Id
    <3>. DEFINE job == jobs[i]
    <3>2. job \in Job /\ RowOK(job)
      BY <2>2, <3>1
    <3>3. jobs'[i].kind = job.kind /\ jobs'[i].file = job.file /\ jobs'[i].gate = job.gate
      BY <1>1, <3>1 DEF RowsKept
    <3>. HIDE DEF job
    <3>. QED BY <3>2, <3>3, RowOKKept DEF RowOK, Past
  <2>. QED BY <2>1, <2>3
<1>2. ASSUME NEW job \in Job, Creatable(job), jobs' = Append(jobs, job)
      PROVE  OldAreOver' /\ InspectedOnce' /\ NoAutomaticRetry' /\ RowsOK'
  <2>1. OldAreOver' /\ InspectedOnce' /\ NoAutomaticRetry'
    BY <1>2, NewRowKeepsTable DEF Inv
  <2>2. \A i \in Id : jobs[i] \in Job /\ RowOK(jobs[i])
    BY Rows DEF Inv, RowsOK
  <2>3. RowsOK'
    <3>. SUFFICES ASSUME NEW i \in Id'
                  PROVE  RowOK(jobs[i])'
      BY DEF RowsOK
    <3>1. jobs'[i] \in Job /\ RowOK(jobs'[i])
      BY <1>2, <2>2, AppendRows, Rows DEF Inv, Creatable, Id
    <3>. DEFINE new == jobs'[i]
    <3>. HIDE DEF new
    <3>2. new \in Job /\ RowOK(new)
      BY <3>1 DEF new
    <3>3. jobs'[i] = new
      BY DEF new
    <3>. QED BY <3>2, <3>3, RowOKKept DEF RowOK, Past
  <2>. QED BY <2>1, <2>3
<1>3. ASSUME UNCHANGED jobs
      PROVE  RowsKept
  BY <1>3, Rows DEF Inv, RowsKept, Id
<1>. QED BY <1>1, <1>2, <1>3, NextIsTableStep, CloseKeepsRows, FailKeepsRows DEF Inv, TableStep

LEMMA CandidateStep ==
    ASSUME Inv, [Next]_vars
    PROVE  CandidateOK'
<1>. USE DEF Inv
<1>1. /\ imports \in Nat /\ disk \in Content /\ disk.version <= imports
      /\ candidate.file \in Content /\ disk.version \in Nat
      /\ backup \in Content /\ backup.version <= imports /\ backup.version \in Nat
  BY BoundsAssumption DEF TypeOK, CandidateOK, Content
<1>2. ASSUME UNCHANGED candidate
      PROVE  (candidate.active =>
                 /\ candidate.file.form \in Candidates
                 /\ candidate.file.version <= imports
                 /\ Past(candidate.file))'
  <2>. SUFFICES ASSUME candidate.active
                PROVE  /\ candidate.file.form \in Candidates
                       /\ candidate.file.version <= imports'
                       /\ \/ candidate.file = inventory' \/ disk' # candidate.file
                          \/ candidate.file \in returned'
    BY <1>2 DEF Past
  <2>. QED BY <1>1, PastKept DEF CandidateOK
<1>3. CASE Import
  <2>1. imports' = imports + 1 /\ disk'.version = imports + 1 /\ UNCHANGED <<backup, candidate>>
    BY <1>3 DEF Import, tables
  <2>. QED BY <1>1, <1>2, <2>1 DEF CandidateOK
<1>4. CASE Delete
  <2>1. imports' = imports /\ disk'.version = 0 /\ UNCHANGED <<backup, candidate>>
    BY <1>4 DEF Delete, Absent, tables
  <2>. QED BY <1>1, <1>2, <2>1 DEF CandidateOK
<1>5. CASE ReconcileScan
  <2>1. UNCHANGED <<imports, disk, backup>>
    BY <1>5 DEF ReconcileScan, files
  <2>2. CASE UNCHANGED candidate
    BY <1>1, <1>2, <2>1, <2>2 DEF CandidateOK
  <2>3. CASE candidate' = Judged /\ inventory' = disk
    BY <1>1, <2>1, <2>3 DEF CandidateOK, Judged, Candidates, Past, TypeOK
  <2>. QED BY <1>5, <2>2, <2>3 DEF ReconcileScan
<1>6. CASE SucceedConversion
  <2>1. imports' = imports /\ disk'.version = disk.version /\ ~candidate'.active
    BY <1>1, <1>6 DEF SucceedConversion, TypeOK, Content
  <2>2. backup' = disk \/ backup'.version = 0
    BY <1>6 DEF SucceedConversion, Absent
  <2>. QED BY <1>1, <2>1, <2>2 DEF CandidateOK
<1>7. CASE UNCHANGED <<disk, backup, candidate, imports>>
  BY <1>1, <1>2, <1>7 DEF CandidateOK
<1>8. CASE DeleteBackup
  <2>1. /\ UNCHANGED <<disk, candidate, imports>>
        /\ backup'.version = 0
    BY <1>8 DEF DeleteBackup, Absent, tables
  <2>. QED BY <1>1, <1>2, <2>1 DEF CandidateOK
<1>9. CASE Recover
  <2>1. disk' = backup /\ UNCHANGED <<backup, candidate, imports>>
    BY <1>9 DEF Recover, tables
  <2>. QED BY <1>1, <1>2, <2>1 DEF CandidateOK
<1>. QED
  BY <1>3, <1>4, <1>5, <1>6, <1>7, <1>8, <1>9
  DEF Next, User, Worker, Submit, Cancel, SaveSettings, Begin, FailJob, AutoInspectCandidate,
      AutoConvertCandidate, SucceedScan, SucceedInspection, FollowUpConversion, Crash, files,
      tables, vars

-----------------------------------------------------------------------------
(* The worker and the row it holds.                                        *)

(* A scan that found the file changed has found one that no conversion     *)
(* has been about, or one that a recovery brought back.                    *)
LEMMA NewsIsUnasked ==
    ASSUME Inv, inventory # disk
    PROVE  Unasked(disk)
BY DEF Inv, RowsOK, RowOK, Past, Unasked, JobsFor, Id

LEMMA TailStep ==
    ASSUME Inv, [Next]_vars
    PROVE  TailOK'
<1>1. CASE UNCHANGED <<stage, inventory, candidate, jobs, current, returned>>
  BY <1>1 DEF Inv, TailOK, Unasked, JobsFor
<1>2. CASE stage' \notin {"inspect", "convert", "follow_up"}
  BY <1>2 DEF TailOK
<1>3. CASE ReconcileScan
  <2>1. UNCHANGED <<jobs, current, returned>> /\ stage' \in {"inspect", "finish"}
    BY <1>3 DEF ReconcileScan, files
  <2>2. ASSUME stage' = "inspect"
        PROVE  /\ candidate'.active
               /\ candidate'.file = inventory'
               /\ jobs[current].kind = "smart" => Unasked(candidate'.file)
    <3>1. /\ candidate' = Judged /\ candidate'.active /\ inventory' = disk
          /\ jobs[current].kind = "smart" => inventory # disk
      BY <1>3, <2>2 DEF ReconcileScan
    <3>2. candidate'.file = disk
      BY <3>1 DEF Judged, Inv, TypeOK
    <3>. QED BY <3>1, <3>2, NewsIsUnasked
  <2>. QED BY <2>1, <2>2 DEF TailOK, Unasked, JobsFor
<1>4. CASE AutoInspectCandidate
  <2>1. /\ stage = "inspect" /\ stage' = "convert"
        /\ UNCHANGED <<inventory, candidate, current, returned>>
        /\ current \in Id
    BY <1>4, HeldRow DEF AutoInspectCandidate, files, tables, Inv
  <2>2. /\ candidate.active /\ candidate.file = inventory
        /\ jobs[current].kind = "smart" => Unasked(candidate.file)
    BY <2>1 DEF Inv, TailOK
  <2>3. CASE UNCHANGED jobs
    BY <2>1, <2>2, <2>3 DEF TailOK, Unasked, JobsFor
  <2>4. ASSUME NEW gate, jobs' = Append(jobs, JobFor("inspect", candidate.file, TRUE, gate))
        PROVE  TailOK'
    <3>1. /\ Len(jobs') = Len(jobs) + 1
          /\ \A i \in Id : jobs'[i] = jobs[i]
          /\ jobs'[Len(jobs) + 1].kind = "inspect"
      BY <2>4, Rows DEF Inv, JobFor, Id
    <3>2. JobsFor("convert", candidate.file)' = JobsFor("convert", candidate.file)
      BY <2>1, <3>1, Rows DEF JobsFor, Inv, Id
    <3>. QED BY <2>1, <2>2, <3>1, <3>2 DEF TailOK, Unasked
  <2>. QED BY <1>4, <2>3, <2>4 DEF AutoInspectCandidate, CreateOrDrop, CreateJob
<1>5. CASE SucceedInspection /\ stage' = "follow_up"
  <2>1. /\ Finish(current, "succeeded") /\ current' = current
        /\ jobs[current].kind = "inspect" /\ jobs[current].gate
        /\ stage = "command"
    BY <1>5 DEF SucceedInspection, Release
  <2>2. current \in Id
    BY <2>1, HeldRow DEF Inv
  <2>3. /\ jobs'[current].kind = "inspect" /\ jobs'[current].gate
        /\ jobs'[current].state = "succeeded"
    BY <2>1, <2>2, FinishRows DEF Inv, JobState
  <2>. QED BY <1>5, <2>1, <2>3 DEF TailOK
<1>. QED
  BY <1>1, <1>2, <1>3, <1>4, <1>5
  DEF Next, User, Worker, Import, Delete, DeleteBackup, Recover, Submit, Cancel, SaveSettings,
      LoopFree, Begin, FailJob, AutoConvertCandidate, SucceedScan, SucceedInspection,
      FollowUpConversion, SucceedConversion, Crash, Release, files, tables, vars

-----------------------------------------------------------------------------
(* The types.                                                              *)

LEMMA TypesOfFiles ==
    ASSUME Inv, [Next]_vars
    PROVE  /\ {disk', backup', inventory', candidate'.file} \cup returned' \subseteq Content
           /\ candidate' \in [active : BOOLEAN, file : Content]
           /\ policy' \in Policies
           /\ imports' \in 0 .. MaxImports
           /\ crashes' \in 0 .. MaxCrashes
<1>. USE BoundsAssumption DEF Inv, TypeOK
<1>1. CASE Import
  BY <1>1 DEF Import, tables, Content, Form
<1>2. CASE Delete
  BY <1>2 DEF Delete, tables, Absent, Content, Form
<1>3. CASE SaveSettings
  BY <1>3 DEF SaveSettings, files
<1>4. CASE ReconcileScan
  <2>1. Judged \in [active : BOOLEAN, file : Content] /\ Judged.file \in Content
    BY DEF Judged
  <2>. QED BY <1>4, <2>1 DEF ReconcileScan, files
<1>5. CASE SucceedConversion
  <2>1. disk' \in Content
    BY <1>5 DEF SucceedConversion, Content, Form
  <2>2. backup' = disk \/ backup' = backup
    BY <1>5 DEF SucceedConversion
  <2>. QED BY <1>5, <2>1, <2>2 DEF SucceedConversion
<1>6. CASE Crash
  BY <1>6 DEF Crash, files, tables
<1>7. CASE UNCHANGED <<files, tables, imports, crashes>>
  BY <1>7 DEF files, tables
<1>8. CASE DeleteBackup
  BY <1>8 DEF DeleteBackup, tables, Absent, Content, Form
<1>9. CASE Recover
  BY <1>9 DEF Recover, tables
<1>10. CASE AutoConvertCandidate
  BY <1>10 DEF AutoConvertCandidate, tables
<1>. QED
  BY <1>1, <1>2, <1>3, <1>4, <1>5, <1>6, <1>7, <1>8, <1>9, <1>10
  DEF Next, User, Worker, Submit, Cancel, Begin, FailJob, AutoInspectCandidate, SucceedScan,
      SucceedInspection, FollowUpConversion, vars

(* The worker's variables fit the table.                                   *)
WorkerOK ==
    /\ current \in 0 .. Len(jobs)
    /\ stage \in Stage
    /\ stage = "idle" <=> current = 0
    /\ \A i \in Id : jobs[i].state = "running" <=> i = current /\ stage # "follow_up"
    /\ news \in BOOLEAN

LEMMA WorkerCreates ==
    ASSUME Inv, Created, news' \in BOOLEAN, stage' \in Stage,
           \/ /\ stage # "follow_up" /\ stage' # "follow_up"
              /\ current' = current
              /\ stage' = "idle" <=> stage = "idle"
           \/ stage = "follow_up" /\ stage' = "idle" /\ current' = 0
    PROVE  WorkerOK'
<1>1. PICK job \in Job : Creatable(job) /\ jobs' = Append(jobs, job)
  BY DEF Created
<1>2. /\ Len(jobs) \in Nat /\ Len(jobs') = Len(jobs) + 1
      /\ \A i \in Id : jobs'[i] = jobs[i]
      /\ jobs'[Len(jobs) + 1].state = "queued"
  BY <1>1, AppendRows, Rows DEF Inv, Creatable
<1>. QED BY <1>2 DEF Inv, TypeOK, WorkerOK, Id, Stage

LEMMA WorkerStep ==
    ASSUME Inv, [Next]_vars
    PROVE  WorkerOK'
<1>. USE DEF Inv
<1>1. CASE UNCHANGED <<jobs, current, stage, news>>
  BY <1>1 DEF TypeOK, WorkerOK, Id
<1>2. ASSUME NEW kind \in Kind, Submit(kind)
      PROVE  WorkerOK'
  <2>1. Created
    BY <1>2, SubmitCreates
  <2>2. stage # "follow_up" /\ UNCHANGED <<stage, current, news>>
        /\ stage \in Stage /\ news \in BOOLEAN
    BY <1>2 DEF Submit, LoopFree, TypeOK
  <2>. QED BY <2>1, <2>2, WorkerCreates
<1>3. ASSUME NEW i \in Id, Cancel(i)
      PROVE  WorkerOK'
  BY <1>3, FinishRows DEF Cancel, LoopFree, TypeOK, WorkerOK, Id, JobState
<1>4. CASE Begin
  <2>1. PICK i \in Id :
            /\ jobs[i].state = "queued"
            /\ \/ Finish(i, "running") /\ current' = i /\ stage' = "command"
               \/ Finish(i, "failed") /\ UNCHANGED <<current, stage>>
    BY <1>4 DEF Begin, Id
  <2>2. stage = "idle" /\ current = 0 /\ UNCHANGED news
    BY <1>4 DEF Begin, TypeOK
  <2>3. /\ Len(jobs') = Len(jobs) /\ Len(jobs) \in Nat
        /\ \A j \in Id : j # i => jobs'[j].state = jobs[j].state
        /\ jobs'[i].state = "running" <=> current' = i
        /\ i \in Nat \ {0}
        /\ (current' = i /\ stage' = "command") \/ (current' = 0 /\ stage' = "idle")
    BY <2>1, <2>2, FinishRows, Rows DEF JobState, Id
  <2>. QED BY <2>1, <2>2, <2>3 DEF TypeOK, WorkerOK, Id, Stage
<1>5. CASE FailJob \/ SucceedScan \/ SucceedInspection \/ SucceedConversion
  <2>1. /\ current \in Id /\ stage \notin {"idle", "follow_up"}
        /\ Finish(current, "failed") \/ Finish(current, "succeeded")
        /\ \/ current' = 0 /\ stage' = "idle" /\ news' = FALSE
           \/ current' = current /\ stage' = "follow_up" /\ news' = news
    BY <1>5, HeldRow DEF FailJob, SucceedScan, SucceedInspection, SucceedConversion, Release
  <2>2. /\ Len(jobs') = Len(jobs) /\ Len(jobs) \in Nat
        /\ \A j \in Id : j # current => jobs'[j].state = jobs[j].state
        /\ jobs'[current].state # "running"
    BY <2>1, FinishRows, Rows DEF JobState
  <2>3. news' \in BOOLEAN
    BY <2>1 DEF TypeOK
  <2>4. Id' = Id /\ 0 \notin Id /\ current' \in 0 .. Len(jobs')
    BY <2>1, <2>2 DEF Id
  <2>5. \A j \in Id : jobs'[j].state # "running"
    BY <2>1, <2>2 DEF TypeOK, Id
  <2>. QED BY <2>1, <2>3, <2>4, <2>5 DEF WorkerOK, Stage
<1>6. CASE ReconcileScan
  BY <1>6 DEF ReconcileScan, TypeOK, WorkerOK, Id, Stage
<1>7. CASE AutoInspectCandidate \/ AutoConvertCandidate \/ FollowUpConversion
  <2>1. /\ \/ current' = current /\ stage \in {"inspect", "convert"} /\ stage' \in {"convert", "finish"}
           \/ stage = "follow_up" /\ current' = 0 /\ stage' = "idle"
        /\ news' \in BOOLEAN
    BY <1>7 DEF AutoInspectCandidate, AutoConvertCandidate, FollowUpConversion, Release, TypeOK
  <2>2. CASE UNCHANGED jobs
    BY <2>1, <2>2, Rows DEF TypeOK, WorkerOK, Id, Stage
  <2>3. CASE ~UNCHANGED jobs
    <3>1. Created
      BY <1>7, <2>3, TailCreates
    <3>. QED BY <2>1, <3>1, WorkerCreates DEF Stage
  <2>. QED BY <2>2, <2>3
<1>8. CASE Crash
  <2>1. FailRunning /\ current' = 0 /\ stage' = "idle" /\ news' = FALSE
    BY <1>8 DEF Crash, Release, FailRunning, Id
  <2>2. Len(jobs') = Len(jobs) /\ Len(jobs) \in Nat
    BY <2>1, FailKeepsRows, Rows DEF RowsKept
  <2>3. \A i \in Id : jobs'[i].state # "running"
    BY <2>1, Rows DEF FailRunning, Job
  <2>4. news' \in BOOLEAN
    BY <2>1
  <2>5. Id' = Id /\ 0 \notin Id /\ 0 \in 0 .. Len(jobs')
    BY <2>2 DEF Id
  <2>6. current' = 0 /\ stage' = "idle" /\ \A i \in Id' : i # current'
    BY <2>1, <2>5
  <2>. QED BY <2>3, <2>4, <2>5, <2>6 DEF WorkerOK, Stage
<1>. QED
  BY <1>1, <1>2, <1>3, <1>4, <1>5, <1>6, <1>7, <1>8
  DEF Next, User, Worker, Import, Delete, DeleteBackup, Recover, SaveSettings, files, tables,
      vars, Id

LEMMA TypeStep ==
    ASSUME Inv, [Next]_vars
    PROVE  TypeOK'
<1>1. jobs' \in Seq(Job)
  BY NextIsTableStep, CloseKeepsRows, FailKeepsRows, AppendRows, Rows
  DEF Inv, TableStep, RowsKept
<1>. QED BY <1>1, TypesOfFiles, WorkerStep DEF TypeOK, WorkerOK, Id

-----------------------------------------------------------------------------
(* The invariant.                                                          *)

LEMMA InvInit == Init => Inv
<1>. SUFFICES ASSUME Init
              PROVE  Inv
  OBVIOUS
<1>1. Absent \in Content /\ Absent.version = 0 /\ Absent.form = "absent"
  BY BoundsAssumption DEF Absent, Content, Form
<1>2. /\ jobs = <<>> /\ Len(jobs) = 0 /\ jobs \in Seq(Job) /\ Id = {}
      /\ imports \in 0 .. MaxImports /\ crashes \in 0 .. MaxCrashes
  BY BoundsAssumption DEF Init, Id
<1>3. /\ {disk, backup, inventory, candidate.file} \cup returned \subseteq Content
      /\ candidate \in [active : BOOLEAN, file : Content]
  BY <1>1 DEF Init
<1>4. policy \in Policies /\ current = 0 /\ stage = "idle" /\ news \in BOOLEAN
  BY PoliciesAssumption DEF Init
<1>5. TypeOK
  BY <1>2, <1>3, <1>4 DEF TypeOK, Stage, Id
<1>6. OldAreOver /\ InspectedOnce /\ NoAutomaticRetry /\ RowsOK
  BY <1>2 DEF OldAreOver, InspectedOnce, NoAutomaticRetry, RowsOK, Id
<1>7. CandidateOK /\ TailOK
  BY <1>1 DEF Init, CandidateOK, TailOK
<1>. QED BY <1>5, <1>6, <1>7 DEF Inv

LEMMA InvInductive == Spec => []Inv
<1>1. Inv /\ [Next]_vars => Inv'
  BY TypeStep, TableInvStep, CandidateStep, TailStep DEF Inv
<1>. QED BY InvInit, <1>1, PTL DEF Spec

(* The variables keep their types; a running row is the one the worker     *)
(* holds, also when scans, inspections and crashes end in any order.       *)
THEOREM AutoQueueTypes == Spec => []TypeOK
BY InvInductive, PTL DEF Inv

(* Automation inspects a file at most once, and never after a person did.  *)
THEOREM InspectedOnceHolds == Spec => []InspectedOnce
BY InvInductive, PTL DEF Inv

(* Automation never converts a file again whose conversion has failed.     *)
THEOREM NoAutomaticRetryHolds == Spec => []NoAutomaticRetry
BY InvInductive, PTL DEF Inv

LEMMA LastRowIsNew ==
    ASSUME TypeOK, TableStep, Len(jobs') > Len(jobs)
    PROVE  ~UNCHANGED jobs /\ ~RowsKept /\ Len(jobs') = Len(jobs) + 1
BY Rows, CloseKeepsRows, FailKeepsRows, AppendRows DEF TableStep, RowsKept

(* A gated conversion is created for an active MEL candidate, behind a     *)
(* successful inspection of the same file.                                 *)
THEOREM GateHolds == Spec => GateHonoured
<1>1. Inv /\ [Next]_vars => ConversionBehindGate
  <2>. SUFFICES ASSUME Inv, [Next]_vars, Len(jobs') > Len(jobs),
                       jobs'[Len(jobs')].kind = "convert", jobs'[Len(jobs')].gate
                PROVE  ConversionBehindGate
    BY DEF ConversionBehindGate
  <2>. DEFINE n == Len(jobs')
  <2>1. ~UNCHANGED jobs /\ ~RowsKept /\ n = Len(jobs) + 1
    BY NextIsTableStep, LastRowIsNew DEF Inv
  <2>2. ASSUME NEW job \in Job, jobs' = Append(jobs, job)
        PROVE  jobs'[n] = job
    BY <2>1, <2>2, AppendRows DEF Inv
  <2>3. ASSUME NEW kind \in Kind, Submit(kind)
        PROVE  FALSE
    BY <2>3, <2>1, Rows DEF Submit, CreateJob, JobFor, Inv
  <2>4. CASE AutoInspectCandidate
    BY <2>4, <2>1, Rows DEF AutoInspectCandidate, CreateOrDrop, CreateJob, JobFor, Inv
  <2>5. CASE AutoConvertCandidate
    BY <2>5, <2>1, Rows DEF AutoConvertCandidate, CreateOrDrop, CreateJob, JobFor, Inv
  <2>6. CASE FollowUpConversion
    <3>1. /\ stage = "follow_up"
          /\ candidate = [active |-> TRUE, file |-> jobs[current].file]
          /\ jobs' = Append(jobs, JobFor("convert", candidate.file, TRUE, TRUE))
      BY <2>6, <2>1 DEF FollowUpConversion, CreateOrDrop, CreateJob
    <3>2. jobs'[n].file = candidate.file
      BY <3>1, <2>1, Rows DEF JobFor, Inv
    <3>3. /\ current \in Id
          /\ jobs[current].kind = "inspect" /\ jobs[current].gate
          /\ jobs[current].state = "succeeded"
      BY <3>1, HeldRow DEF Inv, TailOK
    <3>4. jobs[current].file.form = "mel"
      BY <3>3 DEF Inv, RowsOK, RowOK
    <3>5. current \in JobsFor("inspect", jobs[current].file)
      BY <3>3 DEF JobsFor, Id
    <3>6. candidate.file = jobs[current].file
      BY <3>1
    <3>. QED BY <3>1, <3>2, <3>3, <3>4, <3>5, <3>6 DEF ConversionBehindGate
  <2>7. CASE FailJob \/ SucceedScan \/ SucceedInspection \/ SucceedConversion
    BY <2>7, <2>1, WorkerCloses, HeldRow, CloseKeepsRows
    DEF Inv, Close
  <2>8. CASE Begin
    <3>1. PICK i \in Id : jobs[i].state = "queued" /\ (Finish(i, "running") \/ Finish(i, "failed"))
      BY <2>8 DEF Begin, Id
    <3>2. Close(i, "running") \/ Close(i, "failed")
      BY <3>1 DEF Close, Active, JobState
    <3>. QED BY <2>1, <3>2, CloseKeepsRows DEF Inv, JobState
  <2>9. ASSUME NEW i \in Id, Cancel(i)
        PROVE  FALSE
    <3>1. Close(i, "cancelled")
      BY <2>9 DEF Cancel, Close, Active, JobState
    <3>. QED BY <2>1, <3>1, CloseKeepsRows DEF Inv, JobState
  <2>10. CASE Crash
    BY <2>10, <2>1, FailKeepsRows DEF Crash, FailRunning, Id, Inv
  <2>. QED
    BY <2>1, <2>3, <2>4, <2>5, <2>6, <2>7, <2>8, <2>9, <2>10
    DEF Next, User, Worker, Import, Delete, DeleteBackup, Recover, SaveSettings, ReconcileScan,
      vars, Id
<1>. QED BY InvInductive, <1>1, PTL DEF Spec, GateHonoured

(* A smart scan asks for the conversion of a file at most once, whatever   *)
(* became of it, and once more after a recovery: a fingerprint that was    *)
(* left behind comes back in no other way.                                 *)
THEOREM SmartScanAsksOnceHolds == Spec => SmartScanAsksOnce
<1>1. Inv => ConversionOfNews
  BY DEF Inv, TailOK, Unasked, ConversionOfNews, AutoConvertCandidate
<1>. QED BY InvInductive, <1>1, PTL DEF SmartScanAsksOnce

=============================================================================

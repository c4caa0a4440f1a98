--------------------------- MODULE JobQueueProofs ---------------------------
(***************************************************************************)
(* Proofs about JobQueue, for every number of candidates, jobs, restarts   *)
(* and faults.                                                             *)
(*                                                                         *)
(* The argument has two layers.  The six ways a step can touch the table   *)
(* (TableStep) preserve uniqueness and order, move rows only forward, and  *)
(* are steps of SerialQueue; that is independent of who takes the step.    *)
(* Every action of Next is such a table step because the worker's phase    *)
(* says what the row it holds looks like (HeldRow); that is the part of    *)
(* the invariant no property states.                                       *)
(***************************************************************************)
EXTENDS JobQueue, SequenceTheorems, TLAPS

(* The row the worker holds in the epilogue: a scan, still running, or an  *)
(* inspection that is already recorded as succeeded.                       *)
HeldRow ==
    phase = "epilogue" =>
        \/ jobs[current].kind = "scan" /\ jobs[current].state = "running"
        \/ jobs[current].kind = "inspect" /\ jobs[current].state = "succeeded"

TableInv ==
    /\ jobs \in Seq(Job)
    /\ \A i, j \in Running : i = j
    /\ UniqueActive
    /\ NeverOvertaken

Inv ==
    /\ TypeOK
    /\ RunningIsCurrent
    /\ UniqueActive
    /\ NeverOvertaken
    /\ HeldRow

(* The ways in which a step may touch the table.                           *)
SetState(i, s) == jobs' = [jobs EXCEPT ![i].state = s]

StartOldest(i) ==
    /\ Running = {}
    /\ i \in Queued
    /\ \A j \in Queued : i <= j
    /\ SetState(i, "running")

TableStep ==
    \/ UNCHANGED jobs
    \/ \E r \in Request : CreateJob(r)
    \/ \E i \in Id : StartOldest(i)
    \/ \E i \in Queued : SetState(i, "cancelled")
    \/ \E i \in Running, s \in {"succeeded", "failed"} : SetState(i, s)
    \/ RecoverRunningJobs

-----------------------------------------------------------------------------
(* What the table operations do to the rows.                               *)

(* A row is a record of its three fields.                                  *)
LEMMA RowFields ==
    ASSUME NEW row \in Job
    PROVE  /\ row.kind \in JobKind
           /\ row.candidate_id \in Candidates \cup {NoCandidate}
           /\ row.state \in JobState
           /\ row.kind \in CandidateKind => row.candidate_id \in Candidates
BY DEF Job, JobKind, CandidateKind, OtherKind

(* UPDATE jobs SET state = s WHERE id = i: one row changes, and of it only *)
(* the state.                                                              *)
LEMMA SetStateRows ==
    ASSUME jobs \in Seq(Job), NEW i \in Id, NEW s \in JobState, SetState(i, s)
    PROVE  /\ jobs' \in Seq(Job)
           /\ Len(jobs') = Len(jobs)
           /\ \A j \in Id : /\ jobs'[j].kind = jobs[j].kind
                            /\ jobs'[j].candidate_id = jobs[j].candidate_id
                            /\ jobs'[j].state = IF j = i THEN s ELSE jobs[j].state
<1> DEFINE row == [jobs[i] EXCEPT !.state = s]
<1>1. jobs[i] \in Job
  BY ElementOfSeq DEF Id
<1>2. row \in Job /\ row.kind = jobs[i].kind /\ row.candidate_id = jobs[i].candidate_id
      /\ row.state = s
  BY <1>1 DEF Job
<1>3. jobs' = [jobs EXCEPT ![i] = row]
  BY DEF SetState
<1> HIDE DEF row
<1>4. /\ jobs' \in Seq(Job)
      /\ Len(jobs') = Len(jobs)
      /\ \A j \in Id : jobs'[j] = IF j = i THEN row ELSE jobs[j]
  BY <1>2, <1>3, ExceptSeq DEF Id
<1> QED
  BY <1>2, <1>4

(* INSERT: the rows there were stay, and the new one is queued.            *)
LEMMA CreateJobRows ==
    ASSUME jobs \in Seq(Job), NEW r \in Request, CreateJob(r)
    PROVE  /\ jobs' \in Seq(Job)
           /\ Len(jobs') = Len(jobs) + 1
           /\ \A j \in Id : jobs'[j] = jobs[j]
           /\ jobs'[Len(jobs) + 1] = NewJob(r)
<1>1. NewJob(r) \in Job
  BY DEF NewJob, Request, Job, JobKind, JobState
<1>2. jobs' = Append(jobs, NewJob(r))
  BY DEF CreateJob
<1> QED
  BY <1>1, <1>2 DEF Id

(* UPDATE jobs SET state = 'failed' WHERE state = 'running'.               *)
LEMMA RecoverRows ==
    ASSUME jobs \in Seq(Job), RecoverRunningJobs
    PROVE  /\ jobs' \in Seq(Job)
           /\ Len(jobs') = Len(jobs)
           /\ \A j \in Id :
                 /\ jobs'[j].kind = jobs[j].kind
                 /\ jobs'[j].candidate_id = jobs[j].candidate_id
                 /\ jobs'[j].state = IF j \in Running THEN "failed" ELSE jobs[j].state
<1>1. \A j \in Id : jobs[j] \in Job
  BY ElementOfSeq DEF Id
<1>2. \A j \in Id : [jobs[j] EXCEPT !.state = "failed"] \in Job
  BY <1>1 DEF Job, JobState, TerminalState
<1>3. \A j \in Id : jobs'[j] = IF j \in Running
                               THEN [jobs[j] EXCEPT !.state = "failed"] ELSE jobs[j]
  BY DEF RecoverRunningJobs, InState, Running
<1>4. \A j \in Id : jobs'[j] \in Job
  BY <1>1, <1>2, <1>3
<1>5. jobs' \in [1 .. Len(jobs) -> Job]
  BY <1>4 DEF RecoverRunningJobs, Id
<1>6. jobs' \in Seq(Job) /\ Len(jobs') = Len(jobs)
  BY <1>5, LenProperties
<1>7. \A j \in Id : /\ [jobs[j] EXCEPT !.state = "failed"].kind = jobs[j].kind
                    /\ [jobs[j] EXCEPT !.state = "failed"].candidate_id = jobs[j].candidate_id
                    /\ [jobs[j] EXCEPT !.state = "failed"].state = "failed"
  BY <1>1 DEF Job
<1> QED
  BY <1>3, <1>6, <1>7

-----------------------------------------------------------------------------
(* Every way of touching the table preserves what is promised of it.       *)

(* A change of one row's state that makes no row active again keeps active *)
(* jobs distinct.                                                          *)
LEMMA MoveKeepsUnique ==
    ASSUME UniqueActive, jobs' \in Seq(Job), Len(jobs') = Len(jobs),
           \A j \in Id : /\ jobs'[j].kind = jobs[j].kind
                         /\ jobs'[j].candidate_id = jobs[j].candidate_id
                         /\ jobs'[j].state \in {"queued", "running"} => Active(j)
    PROVE  UniqueActive'
BY DEF UniqueActive, Id, Active, InState

(* A request that passes the duplicate check keeps active jobs distinct.   *)
LEMMA CreateKeepsUnique ==
    ASSUME jobs \in Seq(Job), UniqueActive, NEW r \in Request, CreateJob(r)
    PROVE  UniqueActive'
<1> DEFINE n == Len(jobs) + 1
<1>1. /\ Len(jobs) \in Nat
      /\ Len(jobs') = n
      /\ \A j \in Id : jobs'[j] = jobs[j]
      /\ jobs'[n] = NewJob(r)
  BY CreateJobRows
<1>2. NewJob(r).kind = r.kind /\ NewJob(r).candidate_id = r.candidate_id
  BY DEF NewJob
<1>3. ASSUME NEW j \in Id, Active(j), jobs[j].kind = r.kind
      PROVE  /\ r.kind # "scan"
             /\ r.kind \in CandidateKind => jobs[j].candidate_id # r.candidate_id
  <2>1. r.kind # "scan" /\ (r.candidate_id # NoCandidate => jobs[j].candidate_id # r.candidate_id)
    BY <1>3 DEF CreateJob, Duplicate
  <2>2. r.kind \in CandidateKind => r.candidate_id # NoCandidate
    BY NoCandidateAssumption DEF Request, CandidateKind, OtherKind
  <2> QED
    BY <2>1, <2>2
<1>4. SUFFICES ASSUME NEW i \in Id', NEW j \in Id', i # j, Active(i)', Active(j)',
                      jobs'[i].kind = jobs'[j].kind
               PROVE  /\ jobs'[i].kind # "scan"
                      /\ jobs'[i].kind \in CandidateKind
                            => jobs'[i].candidate_id # jobs'[j].candidate_id
  BY DEF UniqueActive
<1>5. i \in Id \cup {n} /\ j \in Id \cup {n}
  BY <1>1 DEF Id
<1>6. \A k \in Id : Active(k)' => Active(k)
  BY <1>1 DEF Active, InState
<1>7. CASE i = n
  BY <1>1, <1>2, <1>3, <1>4, <1>5, <1>6, <1>7
<1>8. CASE j = n
  BY <1>1, <1>2, <1>3, <1>4, <1>5, <1>6, <1>8
<1>9. CASE i # n /\ j # n
  BY <1>1, <1>4, <1>5, <1>6, <1>9 DEF UniqueActive
<1> QED
  BY <1>7, <1>8, <1>9

(* What every step is entitled to after the table changed.                 *)
TableKept ==
    /\ jobs' \in Seq(Job)
    /\ UniqueActive'
    /\ NeverOvertaken'
    /\ LegalStep

LEMMA CreateKeepsTable ==
    ASSUME TableInv, NEW r \in Request, CreateJob(r)
    PROVE  TableKept
<1>1. /\ Len(jobs) \in Nat
      /\ jobs' \in Seq(Job)
      /\ Len(jobs') = Len(jobs) + 1
      /\ \A j \in Id : jobs'[j] = jobs[j]
      /\ jobs'[Len(jobs) + 1].state = "queued"
  <2>1. jobs \in Seq(Job)
    BY DEF TableInv
  <2>2. NewJob(r).state = "queued"
    BY DEF NewJob
  <2> QED
    BY <2>1, <2>2, CreateJobRows, LenProperties
<1>2. UniqueActive'
  BY CreateKeepsUnique DEF TableInv
<1>3. NeverOvertaken'
  BY <1>1 DEF TableInv, NeverOvertaken, Id, Queued, InState
<1>4. LegalStep
  <2>1. \A j \in Id : jobs[j].state \in JobState
    BY ElementOfSeq, RowFields DEF TableInv, Id
  <2>2. \A j \in Id : LegalMove(jobs[j], jobs'[j])
    BY <1>1, <2>1 DEF LegalMove, JobState, TerminalState
  <2>3. \A j \in Len(jobs) + 1 .. Len(jobs') : jobs'[j].state = "queued"
    BY <1>1
  <2> QED
    BY <1>1, <2>2, <2>3 DEF LegalStep
<1> QED
  BY <1>1, <1>2, <1>3, <1>4 DEF TableKept

(* A change of state of one or several rows keeps the table if each row    *)
(* moves forward, and a row leaves "queued" for "running" only when no     *)
(* lower one is queued.                                                    *)
LEMMA MoveKeepsTable ==
    ASSUME TableInv, jobs' \in Seq(Job), Len(jobs') = Len(jobs),
           \A j \in Id : LegalMove(jobs[j], jobs'[j]),
           \A i, j \in Id : i < j /\ i \in Queued /\ j \in Queued /\ jobs'[i].state = "queued"
                               => jobs'[j].state \in {"queued", "cancelled"}
    PROVE  TableKept
<1>1. /\ Len(jobs) \in Nat
      /\ \A j \in Id : jobs[j].state \in JobState
  BY ElementOfSeq, RowFields, LenProperties DEF TableInv, Id
<1>2. \A j \in Id : /\ jobs'[j].kind = jobs[j].kind
                    /\ jobs'[j].candidate_id = jobs[j].candidate_id
                    /\ jobs'[j].state = "queued" => jobs[j].state = "queued"
                    /\ jobs'[j].state = "running" => jobs[j].state \in {"queued", "running"}
                    /\ jobs[j].state = "cancelled" => jobs'[j].state = "cancelled"
  BY <1>1 DEF LegalMove, JobState, TerminalState
<1>3. UniqueActive'
  BY <1>2, MoveKeepsUnique DEF TableInv, Active, InState
<1>4. NeverOvertaken'
  <2>1. SUFFICES ASSUME NEW i \in Id, NEW j \in Id, i < j, jobs'[i].state = "queued"
                 PROVE  jobs'[j].state \in {"queued", "cancelled"}
    BY DEF NeverOvertaken, Id, Queued, InState
  <2>2. i \in Queued
    BY <1>2, <2>1 DEF Queued, InState
  <2>3. jobs[j].state \in {"queued", "cancelled"}
    BY <2>1, <2>2 DEF TableInv, NeverOvertaken, InState
  <2> QED
    BY <1>2, <2>1, <2>2, <2>3 DEF Queued, InState
<1>5. LegalStep
  BY <1>1 DEF LegalStep
<1> QED
  BY <1>3, <1>4, <1>5 DEF TableKept

(* The six ways of touching the table, together.                           *)
LEMMA StepKeepsTable ==
    ASSUME TableInv, TableStep
    PROVE  TableKept
<1>1. jobs \in Seq(Job) /\ Len(jobs) \in Nat /\ \A j \in Id : jobs[j].state \in JobState
  BY ElementOfSeq, RowFields, LenProperties DEF TableInv, Id
<1>2. CASE UNCHANGED jobs
  <2>1. \A j \in Id : LegalMove(jobs[j], jobs'[j])
    BY <1>1, <1>2 DEF LegalMove, JobState, TerminalState
  <2>2. \A j \in Queued : jobs'[j].state = "queued"
    BY <1>2 DEF Queued, InState
  <2>3. jobs' \in Seq(Job) /\ Len(jobs') = Len(jobs)
    BY <1>1, <1>2
  <2> QED
    BY <2>1, <2>2, <2>3, MoveKeepsTable
<1>3. CASE \E r \in Request : CreateJob(r)
  BY <1>3, CreateKeepsTable
<1>4. ASSUME NEW i \in Id, StartOldest(i)
      PROVE  TableKept
  <2>1. SetState(i, "running") /\ "running" \in JobState /\ jobs[i].state = "queued"
    BY <1>4 DEF StartOldest, JobState, Queued, InState
  <2>2. /\ jobs' \in Seq(Job)
        /\ Len(jobs') = Len(jobs)
        /\ \A j \in Id : /\ jobs'[j].kind = jobs[j].kind
                         /\ jobs'[j].candidate_id = jobs[j].candidate_id
                         /\ jobs'[j].state = IF j = i THEN "running" ELSE jobs[j].state
    BY <1>1, <2>1, SetStateRows
  <2>3. \A j \in Id : LegalMove(jobs[j], jobs'[j])
    BY <1>1, <2>1, <2>2 DEF LegalMove, JobState, TerminalState
  <2>4. \A k, j \in Id : k < j /\ k \in Queued /\ j \in Queued /\ jobs'[k].state = "queued"
                            => jobs'[j].state \in {"queued", "cancelled"}
    <3>1. \A k \in Queued : i <= k
      BY <1>4 DEF StartOldest
    <3>2. \A k \in Id : k \in Queued => jobs[k].state = "queued"
      BY DEF Queued, InState
    <3> QED
      BY <2>2, <3>1, <3>2 DEF Id
  <2> QED
    BY <2>2, <2>3, <2>4, MoveKeepsTable
<1>5. ASSUME NEW i \in Id, NEW s \in {"succeeded", "failed", "cancelled"}, SetState(i, s),
             IF s = "cancelled" THEN i \in Queued ELSE i \in Running
      PROVE  TableKept
  <2>1. s \in JobState /\ jobs[i].state = IF s = "cancelled" THEN "queued" ELSE "running"
    BY <1>5 DEF JobState, TerminalState, Queued, Running, InState
  <2>2. /\ jobs' \in Seq(Job)
        /\ Len(jobs') = Len(jobs)
        /\ \A j \in Id : /\ jobs'[j].kind = jobs[j].kind
                         /\ jobs'[j].candidate_id = jobs[j].candidate_id
                         /\ jobs'[j].state = IF j = i THEN s ELSE jobs[j].state
    BY <1>1, <1>5, <2>1, SetStateRows
  <2>3. \A j \in Id : LegalMove(jobs[j], jobs'[j])
    BY <1>1, <1>5, <2>1, <2>2 DEF LegalMove, JobState, TerminalState
  <2>4. \A j \in Queued : jobs'[j].state \in {"queued", "cancelled"}
    BY <1>5, <2>1, <2>2 DEF Queued, InState
  <2> QED
    BY <2>2, <2>3, <2>4, MoveKeepsTable
<1>6. CASE RecoverRunningJobs
  <2>1. /\ jobs' \in Seq(Job)
        /\ Len(jobs') = Len(jobs)
        /\ \A j \in Id :
              /\ jobs'[j].kind = jobs[j].kind
              /\ jobs'[j].candidate_id = jobs[j].candidate_id
              /\ jobs'[j].state = IF j \in Running THEN "failed" ELSE jobs[j].state
    BY <1>1, <1>6, RecoverRows
  <2>2. \A j \in Id : LegalMove(jobs[j], jobs'[j])
    BY <1>1, <2>1 DEF LegalMove, JobState, TerminalState, Running, InState
  <2>3. \A j \in Queued : jobs'[j].state \in {"queued", "cancelled"}
    BY <2>1 DEF Queued, Running, InState
  <2> QED
    BY <2>1, <2>2, <2>3, MoveKeepsTable
<1>7. CASE \E i \in Queued : SetState(i, "cancelled")
  BY <1>5, <1>7 DEF Queued
<1>8. CASE \E i \in Running, s \in {"succeeded", "failed"} : SetState(i, s)
  BY <1>5, <1>8 DEF Running
<1> QED
  BY <1>2, <1>3, <1>4, <1>6, <1>7, <1>8 DEF TableStep

-----------------------------------------------------------------------------
(* Every way of touching the table is a step of the abstract queue.        *)

LEMMA StepRefinesSerial ==
    ASSUME TableInv, TableStep
    PROVE  [Serial!Next]_(Serial!vars)
<1> DEFINE ended == {i \in Id : InState(i, TerminalState)}
<1>1. jobs \in Seq(Job) /\ Len(jobs) \in Nat /\ \A j \in Id : jobs[j].state \in JobState
  BY ElementOfSeq, RowFields, LenProperties DEF TableInv, Id
<1>2. CASE UNCHANGED jobs
  BY <1>2 DEF Serial!vars, Queued, Running, Id, InState
<1>3. ASSUME NEW r \in Request, CreateJob(r)
      PROVE  Serial!Submit
  <2>1. /\ Len(jobs') = Len(jobs) + 1
        /\ \A j \in Id : jobs'[j] = jobs[j]
        /\ jobs'[Len(jobs) + 1].state = "queued"
    <3>1. NewJob(r).state = "queued"
      BY DEF NewJob
    <3> QED
      BY <1>1, <1>3, <3>1, CreateJobRows
  <2>2. Id' = Id \cup {Len(jobs) + 1}
    BY <1>1, <2>1 DEF Id
  <2>3. Queued' = Queued \cup {Len(jobs) + 1} /\ Running' = Running /\ ended' = ended
    BY <2>1, <2>2 DEF Queued, Running, InState, TerminalState
  <2> QED
    BY <2>1, <2>3 DEF Serial!Submit
<1>4. ASSUME NEW i \in Id, NEW s \in JobState, SetState(i, s)
      PROVE  /\ Len(jobs') = Len(jobs)
             /\ s = "running" => /\ Running' = Running \cup {i}
                                 /\ Queued' = Queued \ {i}
             /\ s = "running" /\ i \in Queued => ended' = ended
             /\ s \in TerminalState => /\ Running' = Running \ {i}
                                       /\ Queued' = Queued \ {i}
                                       /\ ended' = ended \cup {i}
  <2>1. /\ Len(jobs') = Len(jobs)
        /\ \A j \in Id : jobs'[j].state = IF j = i THEN s ELSE jobs[j].state
    BY <1>1, <1>4, SetStateRows
  <2>2. Id' = Id
    BY <2>1 DEF Id
  <2> QED
    BY <1>4, <2>1, <2>2 DEF Queued, Running, InState, TerminalState
<1>5. ASSUME NEW i \in Id, StartOldest(i)
      PROVE  i \in Queued /\ Serial!Begin(i)
  <2>1. /\ Len(jobs') = Len(jobs)
        /\ Running' = {i}
        /\ Queued' = Queued \ {i}
        /\ ended' = ended
    BY <1>4, <1>5 DEF StartOldest, JobState
  <2> QED
    BY <1>5, <2>1 DEF StartOldest, Serial!Begin
<1>6. ASSUME NEW i \in Queued, SetState(i, "cancelled")
      PROVE  Serial!Withdraw(i)
  <2>1. i \in Id /\ i \notin Running /\ "cancelled" \in JobState \cap TerminalState
    BY DEF Queued, Running, InState, JobState, TerminalState
  <2>2. /\ Len(jobs') = Len(jobs)
        /\ Running' = Running \ {i}
        /\ Queued' = Queued \ {i}
        /\ ended' = ended \cup {i}
    BY <1>4, <1>6, <2>1
  <2>3. Running \ {i} = Running
    BY <2>1
  <2> QED
    BY <2>2, <2>3 DEF Serial!Withdraw
<1>7. ASSUME NEW i \in Running, NEW s \in {"succeeded", "failed"}, SetState(i, s)
      PROVE  Serial!Settle(i)
  <2>1. i \in Id /\ i \notin Queued /\ s \in JobState /\ s \in TerminalState
    BY DEF Queued, Running, InState, JobState, TerminalState
  <2>2. /\ Len(jobs') = Len(jobs)
        /\ Running' = Running \ {i}
        /\ Queued' = Queued \ {i}
        /\ ended' = ended \cup {i}
    BY <1>4, <1>7, <2>1
  <2>3. Queued \ {i} = Queued
    BY <2>1
  <2> QED
    BY <2>2, <2>3 DEF Serial!Settle
<1>8. CASE RecoverRunningJobs
  <2>1. /\ Len(jobs') = Len(jobs)
        /\ Id' = Id
        /\ \A j \in Id : jobs'[j].state = IF j \in Running THEN "failed" ELSE jobs[j].state
    BY <1>1, <1>8, RecoverRows DEF Id
  <2>2. Running' = {} /\ Queued' = Queued /\ ended' = ended \cup Running
    BY <2>1 DEF Queued, Running, InState, TerminalState
  <2>3. CASE Running = {}
    BY <2>1, <2>2, <2>3 DEF Serial!vars
  <2>4. ASSUME NEW i \in Running
        PROVE  Serial!Settle(i)
    <3>1. Running = {i}
      BY DEF TableInv
    <3> QED
      BY <2>1, <2>2, <3>1 DEF Serial!Settle
  <2> QED
    BY <2>3, <2>4 DEF Serial!Next
<1> QED
  BY <1>2, <1>3, <1>5, <1>6, <1>7, <1>8 DEF TableStep, Serial!Next

-----------------------------------------------------------------------------
(* Every action is one of those ways of touching the table.                *)

LEMMA InvGivesTable ==
    ASSUME Inv
    PROVE  TableInv
BY DEF Inv, TypeOK, RunningIsCurrent, TableInv

(* While the worker works, the row it holds exists; a busy worker's row is *)
(* running, and a running row is the one it holds.                         *)
LEMMA HeldRowRuns ==
    ASSUME Inv
    PROVE  /\ phase \in {"busy", "epilogue"} => current \in Id
           /\ phase = "busy" => current \in Running
           /\ phase = "idle" => Running = {}
<1>1. Len(jobs) \in Nat
  BY LenProperties DEF Inv, TypeOK
<1> QED
  BY <1>1 DEF Inv, TypeOK, RunningIsCurrent, Running, Id

LEMMA NextIsTableStep ==
    ASSUME Inv, [Next]_vars
    PROVE  TableStep
<1>1. ASSUME NEW i \in Id, NEW s \in {"succeeded", "failed"}, FinishJob(i, s)
      PROVE  TableStep
  BY <1>1 DEF FinishJob, TableStep, SetState, Running
<1>2. CASE UNCHANGED vars
  BY <1>2 DEF vars, TableStep
<1>3. CASE Claim
  BY <1>3, HeldRowRuns DEF Claim, TableStep, StartOldest, SetState, Queued
<1>4. CASE FailJob
  BY <1>1, <1>4, HeldRowRuns DEF FailJob
<1>5. CASE SucceedJob
  BY <1>1, <1>5, HeldRowRuns DEF SucceedJob
<1>6. ASSUME NEW found \in SUBSET ScanFollowUp, FinishScanCommand(found)
      PROVE  TableStep
  BY <1>6 DEF FinishScanCommand, TableStep
<1>7. CASE FinishInspectCommand
  BY <1>1, <1>7, HeldRowRuns DEF FinishInspectCommand
<1>8. ASSUME NEW r \in ScanFollowUp, CreateFollowUp(r)
      PROVE  TableStep
  <2>1. r \in Request
    BY DEF ScanFollowUp, Request, CandidateKind
  <2> QED
    BY <1>8, <2>1 DEF CreateFollowUp, CreateOrDrop, TableStep
<1>9. CASE EndEpilogue
  BY <1>1, <1>9, HeldRowRuns DEF EndEpilogue, TableStep
<1>10. ASSUME NEW r \in Request, Submit(r)
       PROVE  TableStep
  BY <1>10 DEF Submit, TableStep
<1>11. ASSUME NEW i \in Id, CancelQueuedJob(i)
       PROVE  TableStep
  BY <1>11 DEF CancelQueuedJob, TableStep, SetState, Queued
<1>12. CASE FaultHandled
  BY <1>1, <1>12, HeldRowRuns DEF FaultHandled
<1>13. CASE Start
  BY <1>13 DEF Start, TableStep
<1>14. CASE Poll \/ FaultKillsWorker \/ RequestStop \/ ExitLoop \/ GraceExpired \/ Crash
  BY <1>14 DEF Poll, vars, FaultKillsWorker, RequestStop, ExitLoop, GraceExpired, Crash,
               TableStep
<1> QED
  BY <1>2, <1>3, <1>4, <1>5, <1>6, <1>7, <1>8, <1>9, <1>10, <1>11, <1>12, <1>13, <1>14
     DEF Next, Work, Handlers, Faults, Lifetime

-----------------------------------------------------------------------------
(* The invariant is inductive.                                             *)

LEMMA InitInv == Init => Inv
<1> SUFFICES ASSUME Init PROVE Inv
  OBVIOUS
<1>1. jobs = <<>> /\ Len(jobs) = 0 /\ Id = {} /\ Running = {}
  BY DEF Init, Id, Running
<1>2. TypeOK
  <2>1. jobs \in Seq(Job)
    BY <1>1, EmptySeq
  <2>2. stopping \in BOOLEAN /\ followups \in SUBSET ScanFollowUp
    BY DEF Init
  <2>3. phase = "down" /\ current = 0 /\ restarts = 0 /\ faults = 0 /\ Len(jobs) = 0
    BY <1>1 DEF Init
  <2> QED
    BY <2>1, <2>2, <2>3, BoundsAssumption DEF TypeOK, Phase
<1> QED
  BY <1>1, <1>2 DEF Init, Inv, RunningIsCurrent, UniqueActive, NeverOvertaken, HeldRow

(* The part of the invariant that is about the worker, given what the step *)
(* did to the table.                                                       *)
WorkerInv ==
    /\ phase \in Phase
    /\ current \in 0 .. Len(jobs)
    /\ current = 0 <=> phase \in {"down", "idle", "dead"}
    /\ stopping \in BOOLEAN
    /\ followups \in SUBSET ScanFollowUp
    /\ restarts \in 0 .. MaxRestarts
    /\ faults \in 0 .. MaxFaults
    /\ RunningIsCurrent
    /\ HeldRow

(* What finishing a running job leaves: no job runs, and no row moved.     *)
LEMMA FinishRows ==
    ASSUME TableInv, NEW i \in Id, NEW s \in {"succeeded", "failed"}, FinishJob(i, s)
    PROVE  /\ Len(jobs') = Len(jobs)
           /\ Running' = {}
           /\ jobs'[i].kind = jobs[i].kind
           /\ jobs'[i].candidate_id = jobs[i].candidate_id
           /\ jobs'[i].state = s
<1>1. jobs \in Seq(Job) /\ s \in JobState /\ SetState(i, s) /\ i \in Running
  BY DEF TableInv, JobState, TerminalState, FinishJob, SetState, Running
<1>2. /\ Len(jobs') = Len(jobs)
      /\ \A j \in Id : /\ jobs'[j].kind = jobs[j].kind
                       /\ jobs'[j].candidate_id = jobs[j].candidate_id
                       /\ jobs'[j].state = IF j = i THEN s ELSE jobs[j].state
  BY <1>1, SetStateRows
<1>3. \A j \in Id : jobs[j].state = "running" => j = i
  BY <1>1 DEF TableInv, Running, InState
<1> QED
  BY <1>2, <1>3 DEF Running, Id, InState

LEMMA WorkerStep ==
    ASSUME Inv, [Next]_vars, TableKept
    PROVE  WorkerInv'
<1> USE DEF WorkerInv, RunningIsCurrent, HeldRow, Phase
<1>1. /\ TableInv
      /\ jobs \in Seq(Job)
      /\ Len(jobs) \in Nat
      /\ WorkerInv
      /\ \A i \in Id : jobs[i] \in Job
  BY InvGivesTable, LenProperties, ElementOfSeq DEF Inv, TypeOK, Id
<1>2. /\ phase \in {"busy", "epilogue"} => current \in Id
      /\ phase = "busy" => current \in Running
      /\ phase = "idle" => Running = {}
  BY HeldRowRuns
<1>3. jobs' = jobs => Running' = Running /\ Len(jobs') = Len(jobs)
  BY DEF Running, Id, InState
<1>4. CASE UNCHANGED vars
  BY <1>1, <1>3, <1>4 DEF vars
<1>5. CASE Claim
  <2>1. PICK i \in Queued : /\ jobs' = [jobs EXCEPT ![i].state = "running"]
                            /\ current' = i
    BY <1>5 DEF Claim
  <2>2. i \in Id /\ i # 0
    BY <1>1 DEF Queued, Id
  <2>3. /\ Len(jobs') = Len(jobs)
        /\ \A j \in Id : jobs'[j].state = IF j = i THEN "running" ELSE jobs[j].state
    <3>1. SetState(i, "running") /\ "running" \in JobState
      BY <2>1 DEF SetState, JobState
    <3> QED
      BY <1>1, <2>2, <3>1, SetStateRows
  <2>4. Running' = {i}
    BY <1>2, <1>5, <2>2, <2>3 DEF Running, Id, InState, Claim
  <2> QED
    BY <1>1, <1>5, <2>1, <2>2, <2>3, <2>4 DEF Claim, Id
<1>6. ASSUME NEW s \in {"succeeded", "failed"}, FinishJob(current, s), current \in Id,
             phase' = "idle", current' = 0, followups' = {},
             stopping' \in BOOLEAN, restarts' \in 0 .. MaxRestarts, faults' \in 0 .. MaxFaults
      PROVE  WorkerInv'
  BY <1>1, <1>6, FinishRows
<1>7. CASE FailJob
  BY <1>1, <1>2, <1>6, <1>7 DEF FailJob, Release
<1>8. CASE SucceedJob
  BY <1>1, <1>2, <1>6, <1>8 DEF SucceedJob, Release
<1>9. ASSUME NEW found \in SUBSET ScanFollowUp, FinishScanCommand(found)
      PROVE  WorkerInv'
  BY <1>1, <1>2, <1>3, <1>9 DEF FinishScanCommand, Running, InState
<1>10. CASE FinishInspectCommand
  <2>1. /\ Len(jobs') = Len(jobs)
        /\ Running' = {}
        /\ jobs'[current].kind = "inspect"
        /\ jobs'[current].state = "succeeded"
    BY <1>1, <1>2, <1>10, FinishRows DEF FinishInspectCommand
  <2>2. jobs[current].candidate_id \in Candidates
    BY <1>1, <1>2, <1>10, RowFields DEF FinishInspectCommand, CandidateKind
  <2>3. followups' \in SUBSET ScanFollowUp
    BY <1>10, <2>2 DEF FinishInspectCommand, InspectFollowUp, ScanFollowUp
  <2> QED
    BY <1>1, <1>10, <2>1, <2>3 DEF FinishInspectCommand
<1>11. ASSUME NEW r \in Request, CreateJob(r)
       PROVE  /\ Running' = Running
              /\ Len(jobs') = Len(jobs) + 1
              /\ \A i \in Id : jobs'[i] = jobs[i]
  <2>1. /\ Len(jobs') = Len(jobs) + 1
        /\ \A i \in Id : jobs'[i] = jobs[i]
        /\ jobs'[Len(jobs) + 1].state = "queued"
    <3>1. NewJob(r).state = "queued"
      BY DEF NewJob
    <3> QED
      BY <1>1, <1>11, <3>1, CreateJobRows
  <2> QED
    BY <1>1, <2>1 DEF Running, Id, InState
<1>12. ASSUME NEW r \in ScanFollowUp, CreateFollowUp(r)
       PROVE  WorkerInv'
  <2>1. /\ phase = "epilogue" /\ UNCHANGED <<phase, current, stopping, restarts, faults>>
        /\ followups' \in SUBSET ScanFollowUp
    BY <1>1, <1>12 DEF CreateFollowUp
  <2>2. CASE UNCHANGED jobs
    BY <1>1, <1>3, <2>1, <2>2
  <2>3. CASE CreateJob(r)
    <3>1. r \in Request
      BY DEF ScanFollowUp, Request, CandidateKind
    <3> QED
      BY <1>1, <1>2, <1>11, <2>1, <2>3, <3>1
  <2> QED
    BY <1>12, <2>2, <2>3 DEF CreateFollowUp, CreateOrDrop
<1>13. CASE EndEpilogue
  <2>1. CASE jobs[current].kind = "scan"
    BY <1>1, <1>2, <1>6, <1>13, <2>1 DEF EndEpilogue, Release
  <2>2. CASE jobs[current].kind # "scan"
    <3>1. Running = {}
      BY <1>1, <1>13, <2>2 DEF EndEpilogue, Running, InState
    <3> QED
      BY <1>1, <1>3, <1>13, <2>2, <3>1 DEF EndEpilogue, Release
  <2> QED
    BY <2>1, <2>2
<1>14. ASSUME NEW r \in Request, Submit(r)
       PROVE  WorkerInv'
  BY <1>1, <1>2, <1>11, <1>14 DEF Submit, Serving
<1>15. ASSUME NEW i \in Id, CancelQueuedJob(i)
       PROVE  WorkerInv'
  <2>1. /\ Len(jobs') = Len(jobs)
        /\ \A j \in Id : jobs'[j].state = IF j = i THEN "cancelled" ELSE jobs[j].state
    <3>1. SetState(i, "cancelled") /\ "cancelled" \in JobState
      BY <1>15 DEF CancelQueuedJob, SetState, JobState, TerminalState
    <3> QED
      BY <1>1, <3>1, SetStateRows
  <2>2. Running' = Running
    BY <1>15, <2>1 DEF Running, Id, InState, CancelQueuedJob
  <2> QED
    BY <1>1, <1>15, <2>1, <2>2 DEF CancelQueuedJob, Serving
<1>16. CASE FaultHandled
  BY <1>1, <1>2, <1>6, <1>16, BoundsAssumption DEF FaultHandled, Release
<1>17. CASE FaultKillsWorker
  BY <1>1, <1>3, <1>17, BoundsAssumption DEF FaultKillsWorker
<1>18. CASE Start
  <2>1. Running' = {} /\ Len(jobs') = Len(jobs)
    BY <1>1, <1>18, RecoverRows DEF Start, Running, Id, InState
  <2> QED
    BY <1>1, <1>18, <2>1 DEF Start
<1>19. CASE RequestStop
  BY <1>1, <1>3, <1>19, BoundsAssumption DEF RequestStop, Serving
<1>20. CASE ExitLoop \/ GraceExpired \/ Crash
  <2>1. /\ phase' = "down" /\ current' = 0 /\ followups' = {}
        /\ stopping' \in BOOLEAN
        /\ jobs' = jobs
    BY <1>20 DEF ExitLoop, GraceExpired, Crash, Leave
  <2>2. restarts' \in 0 .. MaxRestarts /\ faults' \in 0 .. MaxFaults
    BY <1>1, <1>20, BoundsAssumption DEF ExitLoop, GraceExpired, Crash
  <2> QED
    BY <1>1, <1>3, <2>1, <2>2
<1> QED
  BY <1>1, <1>3, <1>4, <1>5, <1>7, <1>8, <1>9, <1>10, <1>12, <1>13, <1>14, <1>15, <1>16, <1>17,
     <1>18, <1>19, <1>20
     DEF Next, Work, Poll, Handlers, Faults, Lifetime

LEMMA InvStep == Inv /\ [Next]_vars => Inv'
<1> SUFFICES ASSUME Inv, [Next]_vars PROVE Inv'
  OBVIOUS
<1>1. TableKept
  BY InvGivesTable, NextIsTableStep, StepKeepsTable
<1>2. WorkerInv'
  BY <1>1, WorkerStep
<1> QED
  BY <1>1, <1>2 DEF TableKept, WorkerInv, Inv, TypeOK

LEMMA SpecInv == Spec => []Inv
BY InitInv, InvStep, PTL DEF Spec

-----------------------------------------------------------------------------
(* Theorems.                                                               *)

(* Every variable keeps its type, every job of a kind that concerns one    *)
(* candidate names one, and current_job_id is set exactly in run_once.     *)
THEOREM TypeCorrect == Spec => []TypeOK
BY SpecInv, PTL DEF Inv

(* create_job's duplicate check holds over every interleaving: at most one *)
(* unfinished scan, and one unfinished job of a kind for a candidate.      *)
THEOREM UniqueActiveHolds == Spec => []UniqueActive
BY SpecInv, PTL DEF Inv

(* At most one row is running, and it is the one the worker holds, unless  *)
(* the process is down or its worker died.                                 *)
THEOREM RunningIsCurrentHolds == Spec => []RunningIsCurrent
BY SpecInv, PTL DEF Inv

(* Jobs start in the order of their ids, follow-ups included.              *)
THEOREM NeverOvertakenHolds == Spec => []NeverOvertaken
BY SpecInv, PTL DEF Inv

(* No step, not a fault's or a restart's, moves a row backwards, rewrites  *)
(* its kind or candidate, or removes it.                                   *)
THEOREM LifecycleHolds == Spec => Lifecycle
<1>1. Inv /\ [Next]_vars => [LegalStep]_vars
  BY InvGivesTable, NextIsTableStep, StepKeepsTable DEF TableKept
<1> QED
  BY <1>1, SpecInv, PTL DEF Spec, Lifecycle

(* The job table implements the one-at-a-time queue of SerialQueue.        *)
THEOREM ImplementsSerialQueue == Spec => SerialSpec
<1>1. Init => Serial!Init
  BY DEF Init, Serial!Init, Queued, Running, Id
<1>2. Inv /\ [Next]_vars => [Serial!Next]_(Serial!vars)
  BY InvGivesTable, NextIsTableStep, StepRefinesSerial
<1> QED
  BY <1>1, <1>2, SpecInv, PTL DEF Spec, SerialSpec, Serial!Spec

=============================================================================

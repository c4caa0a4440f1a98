------------------------------ MODULE JobQueue ------------------------------
(***************************************************************************)
(* The job table and the single background worker of dovi-manager.         *)
(*                                                                         *)
(* The web handlers, the automation coordinator and the worker are         *)
(* coroutines of ONE asyncio event loop, and every job is a row of one     *)
(* SQLite table.  Code between two awaits runs without another coroutine,  *)
(* but each statement on the table is its own transaction, so a crash can  *)
(* fall between two statements of one such stretch.  The stretch that      *)
(* matters, the tail of a scan or an inspection that creates follow-up     *)
(* jobs, is the phase "epilogue": no handler acts in it, a crash may.      *)
(*                                                                         *)
(* A job's id is its index in jobs: ids are handed out by AUTOINCREMENT    *)
(* and no row is ever deleted.  What a job does to the media files is the  *)
(* subject of MovieFiles; here a job is its kind, its candidate and its    *)
(* state.                                                                  *)
(***************************************************************************)
EXTENDS Naturals, Sequences, FiniteSets

CONSTANTS
    Candidates,     \* rows of the candidates table
    NoCandidate,    \* the NULL of jobs.candidate_id
    MaxJobs,        \* bound: jobs ever created
    MaxRestarts,    \* bound: crashes and orderly shutdowns
    MaxFaults       \* bound: database errors raised inside the worker

ASSUME NoCandidateAssumption == NoCandidate \notin Candidates
ASSUME BoundsAssumption == MaxJobs \in Nat /\ MaxRestarts \in Nat /\ MaxFaults \in Nat

VARIABLES
    jobs,        \* the jobs table, in id order
    phase,       \* where the worker task is: see Phase
    current,     \* JobWorker.current_job_id, 0 for None
    stopping,    \* JobWorker._stopping
    followups,   \* jobs the running epilogue has still to create
    restarts,    \* crashes and shutdowns so far
    faults       \* database errors so far

vars == <<jobs, phase, current, stopping, followups, restarts, faults>>

CandidateKind == {"inspect", "convert", "recovery_backup"}
OtherKind == {"scan", "backup_delete", "recovery_restore"}
JobKind == CandidateKind \cup OtherKind

TerminalState == {"succeeded", "failed", "cancelled"}
JobState == {"queued", "running"} \cup TerminalState

(* What a caller of create_job asks for: a kind and, for the kinds that    *)
(* concern one candidate, the candidate.                                   *)
Request == [kind : CandidateKind, candidate_id : Candidates]
             \cup [kind : OtherKind, candidate_id : {NoCandidate}]

Job == [kind : CandidateKind, candidate_id : Candidates, state : JobState]
         \cup [kind : OtherKind, candidate_id : {NoCandidate}, state : JobState]

(* "down": no process, or a process that has not started the worker;       *)
(* "idle": the loop waits for work;  "busy": a job is at one of its        *)
(* awaits;  "epilogue": the synchronous tail of a scan or an inspection;   *)
(* "dead": the task ended by an exception that left run_once.              *)
Phase == {"down", "idle", "busy", "epilogue", "dead"}

Id == 1 .. Len(jobs)
InState(i, states) == jobs[i].state \in states
Queued == {i \in Id : InState(i, {"queued"})}
Running == {i \in Id : InState(i, {"running"})}
Active(i) == InState(i, {"queued", "running"})

Init ==
    /\ jobs = <<>>
    /\ phase = "down"
    /\ current = 0
    /\ stopping = FALSE
    /\ followups = {}
    /\ restarts = 0
    /\ faults = 0

-----------------------------------------------------------------------------
(* The table's operations.                                                 *)

(* Operators marked "mutant" are variants with a planted bug; no action    *)
(* uses them, and each one breaks a property below.                        *)

(* An active job that create_job takes for a duplicate of r: any scan for  *)
(* a scan, one of the same kind and candidate otherwise, and nothing for   *)
(* the kinds that carry no candidate.                                      *)
DuplicateQueuedOnly(r) ==   \* mutant: looks for queued jobs only
    \E i \in Queued :
        /\ jobs[i].kind = r.kind
        /\ r.kind = "scan" \/ jobs[i].candidate_id = r.candidate_id

Duplicate(r) ==
    \E i \in Id :
        /\ Active(i)
        /\ jobs[i].kind = r.kind
        /\ \/ r.kind = "scan"
           \/ /\ r.candidate_id # NoCandidate
              /\ jobs[i].candidate_id = r.candidate_id

NewJob(r) == [kind |-> r.kind, candidate_id |-> r.candidate_id, state |-> "queued"]

CreateJob(r) ==
    /\ ~Duplicate(r)
    /\ Len(jobs) < MaxJobs
    /\ jobs' = Append(jobs, NewJob(r))

(* create_job as the worker calls it: a duplicate raises ValueError, which *)
(* the caller drops.                                                       *)
CreateOrDrop(r) ==
    \/ CreateJob(r)
    \/ Duplicate(r) /\ UNCHANGED jobs

FinishJobAnyState(i, s) ==   \* mutant: UPDATE without AND state = 'running'
    jobs' = [jobs EXCEPT ![i].state = s]

FinishJob(i, s) ==
    /\ InState(i, {"running"})
    /\ jobs' = [jobs EXCEPT ![i].state = s]

RecoverNothing ==   \* mutant: start forgets recover_running_jobs
    UNCHANGED jobs

RecoverByRequeue ==   \* mutant: interrupted jobs are queued again
    jobs' = [i \in Id |-> IF InState(i, {"running"})
                          THEN [jobs[i] EXCEPT !.state = "queued"]
                          ELSE jobs[i]]

RecoverRunningJobs ==
    jobs' = [i \in Id |-> IF InState(i, {"running"})
                          THEN [jobs[i] EXCEPT !.state = "failed"]
                          ELSE jobs[i]]

-----------------------------------------------------------------------------
(* Web handlers and the automation coordinator.  They run only between     *)
(* startup and shutdown, and never inside the worker's epilogue.           *)

Serving == phase \in {"idle", "busy", "dead"} /\ ~stopping

Submit(r) ==
    /\ Serving
    /\ CreateJob(r)
    /\ UNCHANGED <<phase, current, stopping, followups, restarts, faults>>

CancelQueuedJob(i) ==
    /\ Serving
    /\ InState(i, {"queued"})
    /\ jobs' = [jobs EXCEPT ![i].state = "cancelled"]
    /\ UNCHANGED <<phase, current, stopping, followups, restarts, faults>>

-----------------------------------------------------------------------------
(* The worker.                                                             *)

ClaimNewest ==   \* mutant: ORDER BY id DESC
    /\ phase = "idle"
    /\ ~stopping
    /\ \E i \in Queued :
          /\ \A j \in Queued : j <= i
          /\ jobs' = [jobs EXCEPT ![i].state = "running"]
          /\ current' = i
    /\ phase' = "busy"
    /\ UNCHANGED <<stopping, followups, restarts, faults>>

(* run_once claims the queued job with the lowest id.                      *)
Claim ==
    /\ phase = "idle"
    /\ ~stopping
    /\ \E i \in Queued :
          /\ \A j \in Queued : i <= j
          /\ jobs' = [jobs EXCEPT ![i].state = "running"]
          /\ current' = i
    /\ phase' = "busy"
    /\ UNCHANGED <<stopping, followups, restarts, faults>>

(* Nothing is queued: the loop waits for a notification or one second.     *)
Poll ==
    /\ phase = "idle"
    /\ ~stopping
    /\ Queued = {}
    /\ UNCHANGED vars

ReleaseKeepsCurrent ==   \* mutant: no finally clause in run_once
    /\ phase' = "idle"
    /\ current' = current
    /\ followups' = {}

Release ==
    /\ phase' = "idle"
    /\ current' = 0
    /\ followups' = {}

(* The command failed, a safety check raised, or the shutdown interrupted  *)
(* the job: in every case the job ends as failed.                          *)
FailJob ==
    /\ phase = "busy"
    /\ FinishJob(current, "failed")
    /\ Release
    /\ UNCHANGED <<stopping, restarts, faults>>

(* Kinds whose last await is _run_command: once _stopping is set it raises *)
(* JobInterrupted, so these kinds do not succeed any more.                 *)
EndsWithCommand == {"convert", "inspect", "recovery_backup"}

MaySucceed(kind) == stopping => kind \notin EndsWithCommand

SucceedJob ==
    /\ phase = "busy"
    /\ jobs[current].kind \notin {"scan", "inspect"}
    /\ MaySucceed(jobs[current].kind)
    /\ FinishJob(current, "succeeded")
    /\ Release
    /\ UNCHANGED <<stopping, restarts, faults>>

(* A scan has reconciled what it found; the settings and the candidates    *)
(* decide which inspections and conversions it queues before it finishes.  *)
ScanFollowUp == [kind : {"inspect", "convert"}, candidate_id : Candidates]

FinishScanCommand(found) ==
    /\ phase = "busy"
    /\ jobs[current].kind = "scan"
    /\ MaySucceed("scan")
    /\ Len(jobs) + Cardinality(found) <= MaxJobs
    /\ followups' = found
    /\ phase' = "epilogue"
    /\ UNCHANGED <<jobs, current, stopping, restarts, faults>>

(* An inspection finishes its own job first and queues the conversion      *)
(* that was to follow it afterwards.                                       *)
InspectFollowUp(i) == [kind : {"convert"}, candidate_id : {jobs[i].candidate_id}]

FinishInspectCommand ==
    /\ phase = "busy"
    /\ jobs[current].kind = "inspect"
    /\ MaySucceed("inspect")
    /\ FinishJob(current, "succeeded")
    /\ \E wanted \in SUBSET InspectFollowUp(current) :
          /\ Len(jobs) + Cardinality(wanted) <= MaxJobs
          /\ followups' = wanted
    /\ phase' = "epilogue"
    /\ UNCHANGED <<current, stopping, restarts, faults>>

(* Results are visited one by one, and the inspection of a candidate is    *)
(* created before its conversion.                                          *)
CreateFollowUp(r) ==
    /\ phase = "epilogue"
    /\ r \in followups
    /\ r.kind = "convert" => [r EXCEPT !.kind = "inspect"] \notin followups
    /\ CreateOrDrop(r)
    /\ followups' = followups \ {r}
    /\ UNCHANGED <<phase, current, stopping, restarts, faults>>

EndEpilogue ==
    /\ phase = "epilogue"
    /\ followups = {}
    /\ IF jobs[current].kind = "scan"
       THEN FinishJob(current, "succeeded")
       ELSE UNCHANGED jobs
    /\ Release
    /\ UNCHANGED <<stopping, restarts, faults>>

-----------------------------------------------------------------------------
(* Database errors (a full or read-only /config) raised in the worker.     *)

(* run_once's handler records the failure: only a running job can be       *)
(* finished, so this needs the job to be unfinished and the database back. *)
FaultHandled ==
    /\ faults < MaxFaults
    /\ phase \in {"busy", "epilogue"}
    /\ FinishJob(current, "failed")
    /\ Release
    /\ faults' = faults + 1
    /\ UNCHANGED <<stopping, restarts>>

(* claim_next_job raised, or the handler itself did: the exception leaves  *)
(* run_once and _run_loop, and the task is over.                           *)
FaultKillsWorker ==
    /\ faults < MaxFaults
    /\ phase \in {"idle", "busy", "epilogue"}
    /\ phase' = "dead"
    /\ current' = 0
    /\ followups' = {}
    /\ faults' = faults + 1
    /\ UNCHANGED <<jobs, stopping, restarts>>

-----------------------------------------------------------------------------
(* Process lifetime.                                                       *)

Leave ==
    /\ phase' = "down"
    /\ current' = 0
    /\ stopping' = FALSE
    /\ followups' = {}

Start ==
    /\ phase = "down"
    /\ RecoverRunningJobs
    /\ phase' = "idle"
    /\ UNCHANGED <<current, stopping, followups, restarts, faults>>

RequestStop ==
    /\ Serving
    /\ restarts < MaxRestarts
    /\ restarts' = restarts + 1
    /\ stopping' = TRUE
    /\ UNCHANGED <<jobs, phase, current, followups, faults>>

(* _run_loop sees _stopping, or stop awaits a task that is already over.   *)
ExitLoop ==
    /\ stopping
    /\ phase \in {"idle", "dead"}
    /\ Leave
    /\ UNCHANGED <<jobs, restarts, faults>>

(* The grace period is over: the task is cancelled.  CancelledError is no  *)
(* Exception, so run_once leaves the job running in the table.             *)
GraceExpired ==
    /\ stopping
    /\ phase = "busy"
    /\ Leave
    /\ UNCHANGED <<jobs, restarts, faults>>

Crash ==
    /\ phase # "down"
    /\ restarts < MaxRestarts
    /\ restarts' = restarts + 1
    /\ Leave
    /\ UNCHANGED <<jobs, faults>>

-----------------------------------------------------------------------------

Work ==
    \/ Claim
    \/ FailJob
    \/ SucceedJob
    \/ \E found \in SUBSET ScanFollowUp : FinishScanCommand(found)
    \/ FinishInspectCommand
    \/ \E r \in ScanFollowUp : CreateFollowUp(r)
    \/ EndEpilogue

Handlers ==
    \/ \E r \in Request : Submit(r)
    \/ \E i \in Id : CancelQueuedJob(i)

Faults == FaultHandled \/ FaultKillsWorker

Lifetime == Start \/ RequestStop \/ ExitLoop \/ GraceExpired \/ Crash

Next == Work \/ Poll \/ Handlers \/ Faults \/ Lifetime

Spec == Init /\ [][Next]_vars

(* The event loop runs every ready task, dovi_convert terminates, and the  *)
(* supervisor restarts the container.  Users, faults and shutdowns get no  *)
(* fairness.                                                               *)
Fairness == WF_vars(Work) /\ WF_vars(Start) /\ WF_vars(ExitLoop)

FairSpec == Spec /\ Fairness

-----------------------------------------------------------------------------
(* Correctness.                                                            *)

(* Every variable holds a value of its type; the worker holds a job        *)
(* exactly while it is inside run_once.                                    *)
TypeOK ==
    /\ jobs \in Seq(Job)
    /\ phase \in Phase
    /\ current \in 0 .. Len(jobs)
    /\ current = 0 <=> phase \in {"down", "idle", "dead"}
    /\ stopping \in BOOLEAN
    /\ followups \in SUBSET ScanFollowUp
    /\ restarts \in 0 .. MaxRestarts
    /\ faults \in 0 .. MaxFaults

(* create_job's promise over every interleaving of handlers, coordinator,  *)
(* worker follow-ups, crashes and recoveries: at most one unfinished scan, *)
(* and at most one unfinished job of a kind for a candidate.               *)
UniqueActive ==
    \A i, j \in Id :
        /\ i # j
        /\ Active(i) /\ Active(j)
        /\ jobs[i].kind = jobs[j].kind
        => /\ jobs[i].kind # "scan"
           /\ jobs[i].kind \in CandidateKind => jobs[i].candidate_id # jobs[j].candidate_id

(* A job marked running is the one job the worker holds, whatever crashes  *)
(* and cancelled shutdowns left behind: rows from an earlier process are   *)
(* settled before the worker claims anything.  Only a process that is down *)
(* or a worker that died can leave a running row nobody works on, and then *)
(* only one.                                                               *)
RunningIsCurrent ==
    /\ \A i, j \in Running : i = j
    /\ phase \in {"idle", "busy", "epilogue"} => Running \subseteq {current}
    /\ phase = "busy" => Running = {current}

(* First come, first served by id, follow-ups included: when a job has     *)
(* been started, no job with a lower id is still waiting.                  *)
NeverOvertaken ==
    \A i, j \in Id : i < j /\ i \in Queued => InState(j, {"queued", "cancelled"})

(* What a step may never do to a row: a terminal job keeps its state       *)
(* (retries, faults after the terminal write and restarts included), a     *)
(* running job is never queued again, a queued job is never finished       *)
(* unseen, no row disappears and none changes kind or candidate.           *)
LegalMove(old, new) ==
    /\ old.kind = new.kind
    /\ old.candidate_id = new.candidate_id
    /\ old.state = "queued" => new.state \in {"queued", "running", "cancelled"}
    /\ old.state = "running" => new.state \in {"running", "succeeded", "failed"}
    /\ old.state \in TerminalState => new.state = old.state

LegalStep ==
    /\ Len(jobs) <= Len(jobs')
    /\ \A i \in Id : LegalMove(jobs[i], jobs'[i])
    /\ \A i \in Len(jobs) + 1 .. Len(jobs') : jobs'[i].state = "queued"

Lifecycle == [][LegalStep]_vars

(* The table read as an abstract one-at-a-time queue: JobQueue implements  *)
(* SerialQueue, so every job runs at most once, one at a time, in order.   *)
Serial == INSTANCE SerialQueue WITH
    submitted <- Len(jobs),
    waiting <- Queued,
    active <- Running,
    over <- {i \in Id : InState(i, TerminalState)}

SerialSpec == Serial!Spec

(* Every job that is accepted is eventually settled, across crashes and    *)
(* shutdowns, unless a database fault killed the worker task for good.     *)
EveryJobSettles ==
    \A i \in 1 .. MaxJobs :
        (i \in Id /\ Active(i))
            ~> ((i \in Id /\ InState(i, TerminalState)) \/ phase = "dead")

=============================================================================

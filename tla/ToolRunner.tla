----------------------------- MODULE ToolRunner -----------------------------
(***************************************************************************)
(* How the worker runs dovi_convert and how a shutdown stops it: the slot  *)
(* active_process of SubprocessRunner, the output that goes to the job log *)
(* and into a capture of limited size, and the escalation of stop().       *)
(*                                                                         *)
(* The worker's task and the shutdown are coroutines of one event loop and *)
(* alternate at every await; dovi_convert is a process of its own that     *)
(* prints, closes its output, ends and ignores signals as it likes.  What  *)
(* the jobs do with the files is the subject of MovieFiles and Discovery,  *)
(* the table of jobs that of JobQueue.                                     *)
(***************************************************************************)
EXTENDS Naturals, Sequences, FiniteSetsExt

CONSTANTS
    CaptureLimit,  \* scan_output_limit_bytes
    LogLimit,      \* job_log_limit
    ChunkSizes,    \* what a read of the pipe can return
    MaxOutput,     \* bound: what a command prints
    MaxCommands,   \* bound: commands of a job
    MaxJobs,       \* bound: jobs
    MaxFaults      \* bound: outages of the database

ASSUME ToolAssumption ==
    /\ CaptureLimit \in Nat \ {0}
    /\ LogLimit \in Nat \ {0}
    /\ ChunkSizes \subseteq Nat \ {0}
    /\ {MaxOutput, MaxCommands, MaxJobs, MaxFaults} \subseteq Nat

VARIABLES
    worker,     \* where the worker's task is
    slot,       \* active_process: the number of a tool, 0 for None
    tools,      \* every process created so far
    jobs,       \* jobs claimed so far
    row,        \* state of the last one
    commands,   \* commands it has begun
    limited,    \* its output is captured for parsing, up to the limit
    output,     \* bytes read from the command so far
    captured,   \* of these in output_parts
    exceeded,   \* output_limit_exceeded
    received,   \* bytes of all commands of the job
    pending,    \* of these not in the log yet
    log,        \* length of log_text
    truncated,  \* log_truncated
    stop,       \* where JobWorker.stop is
    target,     \* the tool it stops
    faults,     \* outages so far
    left,       \* ghost: tools that outlived their command
    lost        \* ghost: the job's log misses output

bytes == <<output, captured, exceeded>>
logging == <<received, pending, log, truncated, lost>>
stopping == <<stop, target>>
vars == <<worker, slot, tools, jobs, row, commands, limited, bytes, logging, stopping, faults,
          left>>

(* between: at an await of the job that is no tool, a thread or a sleep;   *)
(* launching: in create_subprocess_exec; reading: at stdout.read; exiting: *)
(* at process.wait.                                                        *)
WorkerPlace == {"idle", "between", "launching", "reading", "exiting", "ended"}

(* interrupt, terminate, kill: waiting for the tool after that signal;     *)
(* task: waiting for the worker's task.                                    *)
StopPlace == {"none", "interrupt", "terminate", "kill", "task", "stopped"}

Tool == [open : BOOLEAN, alive : BOOLEAN, code : {0, 1}, killed : BOOLEAN]
NewTool == [open |-> TRUE, alive |-> TRUE, code |-> 0, killed |-> FALSE]

Tools == DOMAIN tools
Alive == {t \in Tools : tools[t].alive}
Newest == Len(tools)
Smaller(m, n) == IF m < n THEN m ELSE n

Init ==
    /\ worker = "idle"
    /\ slot = 0
    /\ tools = <<>>
    /\ jobs = 0
    /\ row = "none"
    /\ commands = 0
    /\ limited = FALSE
    /\ output = 0
    /\ captured = 0
    /\ exceeded = FALSE
    /\ received = 0
    /\ pending = 0
    /\ log = 0
    /\ truncated = FALSE
    /\ stop = "none"
    /\ target = 0
    /\ faults = 0
    /\ left = {}
    /\ lost = FALSE

-----------------------------------------------------------------------------
(* dovi_convert.  A killed process ends; nothing else makes one end.       *)

CloseOutput(t) ==
    /\ tools[t].alive
    /\ tools[t].open
    /\ tools' = [tools EXCEPT ![t].open = FALSE]
    /\ UNCHANGED <<worker, slot, jobs, row, commands, limited, bytes, logging, stopping, faults,
                   left>>

End(t) ==
    /\ tools[t].alive
    /\ \E code \in {0, 1} :
          tools' = [tools EXCEPT ![t] = [@ EXCEPT !.open = FALSE, !.alive = FALSE, !.code = code]]
    /\ UNCHANGED <<worker, slot, jobs, row, commands, limited, bytes, logging, stopping, faults,
                   left>>

-----------------------------------------------------------------------------
(* Operators marked "mutant" are variants with a planted bug; no action    *)
(* uses them, and each one breaks a property below.                        *)

AppendEverything(text) ==   \* mutant: job_log_limit is only noted
    /\ log' = log + text
    /\ truncated' = (truncated \/ log + text > LogLimit)

(* append_job_log keeps the last LogLimit characters.  The worker's own    *)
(* notes are left out, and so are carriage returns and escape sequences,   *)
(* which are removed before the characters are counted.                    *)
AppendLog(text) ==
    /\ log' = Smaller(log + text, LogLimit)
    /\ truncated' = (truncated \/ log + text > LogLimit)

DropPending ==   \* mutant: what waits for the next flush is not written at the end
    pending' = 0 /\ UNCHANGED <<log, truncated>>

FlushLog == pending' = 0 /\ AppendLog(pending)

-----------------------------------------------------------------------------
(* The worker's task.                                                      *)

BeginJob ==
    /\ worker = "idle"
    /\ stop = "none"
    /\ jobs < MaxJobs
    /\ worker' = "between"
    /\ jobs' = jobs + 1
    /\ row' = "running"
    /\ commands' = 0
    /\ limited' \in BOOLEAN
    /\ received' = 0
    /\ pending' = 0
    /\ log' = 0
    /\ truncated' = FALSE
    /\ lost' = FALSE
    /\ UNCHANGED <<slot, tools, bytes, stopping, faults, left>>

LeaveLoop ==
    /\ worker = "idle"
    /\ stop # "none"
    /\ worker' = "ended"
    /\ UNCHANGED <<slot, tools, jobs, row, commands, limited, bytes, logging, stopping, faults,
                   left>>

(* The process exists before the event loop hands it over.                 *)
Launch ==
    /\ worker = "between"
    /\ slot = 0
    /\ commands < MaxCommands
    /\ worker' = "launching"
    /\ tools' = Append(tools, NewTool)
    /\ commands' = commands + 1
    /\ output' = 0
    /\ captured' = 0
    /\ exceeded' = FALSE
    /\ UNCHANGED <<slot, jobs, row, limited, logging, stopping, faults, left>>

(* A tool that is handed over after the shutdown has looked at the slot is *)
(* not stopped by it.                                                      *)
HandOver ==
    /\ worker = "launching"
    /\ worker' = "reading"
    /\ slot' = Newest
    /\ left' = IF stop = "none" THEN left ELSE left \cup {Newest}
    /\ UNCHANGED <<tools, jobs, row, commands, limited, bytes, logging, stopping, faults>>

CaptureSilently(n) ==   \* mutant: the chunk at the limit is cut and nobody told
    LET remaining == CaptureLimit - captured IN
    /\ captured' = captured + Smaller(n, remaining)
    /\ exceeded' = (exceeded \/ remaining = 0)

Capture(n) ==
    LET remaining == CaptureLimit - captured IN
    /\ captured' = captured + Smaller(n, remaining)
    /\ exceeded' = (exceeded \/ n > remaining)

(* A flush every 64 KiB or 0.25 s.                                         *)
ReadChunk(n) ==
    /\ worker = "reading"
    /\ output + n <= MaxOutput
    /\ output' = output + n
    /\ received' = received + n
    /\ IF limited THEN Capture(n) ELSE UNCHANGED <<captured, exceeded>>
    /\ \/ pending' = pending + n /\ UNCHANGED <<log, truncated>>
       \/ pending' = 0 /\ AppendLog(pending + n)
    /\ UNCHANGED <<worker, slot, tools, jobs, row, commands, limited, stopping, faults, left,
                   lost>>

ReadEof ==
    /\ worker = "reading"
    /\ ~tools[slot].open
    /\ worker' = "exiting"
    /\ UNCHANGED <<slot, tools, jobs, row, commands, limited, bytes, logging, stopping, faults,
                   left>>

Usable == tools[slot].code = 0 /\ ~exceeded

ToolClosed == worker = "exiting"   \* mutant: end of output taken for the end of the process

ToolEnded == worker = "exiting" /\ ~tools[slot].alive

(* run returns, _run_command writes the rest of the log, and the job goes  *)
(* on if the output can be used; otherwise, or when the application is     *)
(* stopping, it has failed.                                                *)
ReturnResult ==
    /\ ToolEnded
    /\ FlushLog
    /\ IF Usable /\ stop = "none"
       THEN worker' = "between" /\ UNCHANGED row
       ELSE worker' = "idle" /\ row' = "failed"
    /\ slot' = 0
    /\ UNCHANGED <<tools, jobs, commands, limited, bytes, received, lost, stopping, faults, left>>

(* What the job does around its commands: it may fail on a file, on what   *)
(* dovi_convert printed, or because create_subprocess_exec finds no tool.  *)
EndJob ==
    /\ worker = "between"
    /\ row' \in {"succeeded", "failed"}
    /\ worker' = "idle"
    /\ UNCHANGED <<slot, tools, jobs, commands, limited, bytes, logging, stopping, faults, left>>

(* A write of the job log fails: on_output raises out of run, whose        *)
(* finally clears the slot and leaves the process alone; _run_command's    *)
(* finally tries the log again, and run_once the row.  If that fails too,  *)
(* the worker's task is dead.                                              *)
LogWriteFails(n) ==
    /\ faults < MaxFaults
    /\ \/ worker = "reading" /\ output + n <= MaxOutput
       \/ ToolEnded /\ n = 0 /\ pending > 0
    /\ faults' = faults + 1
    /\ received' = received + n
    /\ pending' = 0
    /\ \/ lost' = TRUE /\ UNCHANGED <<log, truncated>>
       \/ worker = "reading" /\ AppendLog(pending + n) /\ UNCHANGED lost
    /\ \/ worker' = "idle" /\ row' = "failed"
       \/ worker' = "ended" /\ UNCHANGED row
    /\ slot' = 0
    /\ left' = left \cup ({slot} \cap Alive)
    /\ UNCHANGED <<tools, jobs, commands, limited, bytes, stopping>>

-----------------------------------------------------------------------------
(* JobWorker.stop.                                                         *)

BeginStop ==
    /\ stop = "none"
    /\ target' = IF slot \in Alive THEN slot ELSE 0
    /\ stop' = IF target' = 0 THEN "task" ELSE "interrupt"
    /\ UNCHANGED <<worker, slot, tools, jobs, row, commands, limited, bytes, logging, faults, left>>

StopWaits == stop \in {"interrupt", "terminate", "kill"}

TargetEnded ==
    /\ StopWaits
    /\ target \notin Alive
    /\ stop' = "task"
    /\ UNCHANGED <<worker, slot, tools, jobs, row, commands, limited, bytes, logging, target,
                   faults, left>>

EscalateOnce ==   \* mutant: SIGTERM, and then wait without a limit
    /\ stop = "interrupt"
    /\ target \in Alive
    /\ stop' = "terminate"
    /\ UNCHANGED <<worker, slot, tools, jobs, row, commands, limited, bytes, logging, target,
                   faults, left>>

EscalateWithoutKill ==   \* mutant: SIGTERM, and then return
    /\ stop \in {"interrupt", "terminate"}
    /\ target \in Alive
    /\ stop' = IF stop = "interrupt" THEN "terminate" ELSE "task"
    /\ UNCHANGED <<worker, slot, tools, jobs, row, commands, limited, bytes, logging, target,
                   faults, left>>

(* The grace period is over, then five seconds more.                       *)
Escalate ==
    /\ stop \in {"interrupt", "terminate"}
    /\ target \in Alive
    /\ stop' = IF stop = "interrupt" THEN "terminate" ELSE "kill"
    /\ tools' = [tools EXCEPT ![target].killed = (stop = "terminate")]
    /\ UNCHANGED <<worker, slot, jobs, row, commands, limited, bytes, logging, target, faults, left>>

TaskJoined ==
    /\ stop = "task"
    /\ worker = "ended"
    /\ stop' = "stopped"
    /\ UNCHANGED <<worker, slot, tools, jobs, row, commands, limited, bytes, logging, target,
                   faults, left>>

(* The second grace period is over and the task is cancelled where it is.  *)
(* Its row stays running until the next start; a process that was not      *)
(* handed over yet is killed by asyncio.                                   *)
TaskCancelled ==
    /\ stop = "task"
    /\ worker # "ended"
    /\ stop' = "stopped"
    /\ worker' = "ended"
    /\ slot' = 0
    /\ FlushLog
    /\ tools' = [t \in Tools |->
                   IF worker = "launching" /\ t = Newest
                   THEN [tools[t] EXCEPT !.open = FALSE, !.alive = FALSE]
                   ELSE tools[t]]
    /\ UNCHANGED <<jobs, row, commands, limited, bytes, received, lost, target, faults, left>>

-----------------------------------------------------------------------------
Process == \E t \in Tools : CloseOutput(t) \/ End(t)

Worker ==
    \/ BeginJob
    \/ LeaveLoop
    \/ Launch
    \/ HandOver
    \/ \E n \in ChunkSizes : ReadChunk(n)
    \/ ReadEof
    \/ ReturnResult
    \/ EndJob
    \/ \E n \in ChunkSizes \cup {0} : LogWriteFails(n)

Stop == TargetEnded \/ Escalate \/ TaskJoined \/ TaskCancelled

Next == Process \/ Worker \/ BeginStop \/ Stop

(* Timeouts elapse, and SIGKILL works.                                     *)
Fairness ==
    /\ WF_vars(Stop)
    /\ WF_vars(\E t \in Tools : tools[t].killed /\ End(t))

Spec == Init /\ [][Next]_vars
FairSpec == Spec /\ Fairness

-----------------------------------------------------------------------------
(* Values in range; the slot is taken exactly while the worker reads from  *)
(* its tool or waits for it, and it is that of the newest process.         *)
TypeOK ==
    /\ worker \in WorkerPlace
    /\ tools \in Seq(Tool)
    /\ slot = IF worker \in {"reading", "exiting"} THEN Newest ELSE 0
    /\ jobs \in 0 .. MaxJobs
    /\ row \in {"none", "running", "succeeded", "failed"}
    /\ commands \in 0 .. MaxCommands
    /\ {limited, exceeded, truncated, lost} \subseteq BOOLEAN
    /\ output \in 0 .. MaxOutput
    /\ captured \in 0 .. CaptureLimit
    /\ {received, pending} \subseteq 0 .. MaxCommands * MaxOutput
    /\ log \in 0 .. LogLimit
    /\ stop \in StopPlace
    /\ target \in Tools \cup {0}
    /\ faults \in 0 .. MaxFaults
    /\ left \subseteq Tools

(* "Runs one background job at a time" (README.md:25): of the tools that   *)
(* no outage and no shutdown has left behind, at most one is alive, from   *)
(* one command to the next and from one job to the next.                   *)
OneTool == Cardinality(Alive \ left) <= 1

(* When stop has returned, the tool it found in the slot is gone, however  *)
(* many signals that tool ignores, and what else still lives was left by   *)
(* an outage or launched after stop had looked.                            *)
ShutdownClears == stop = "stopped" => Alive \subseteq left

(* The log of a job that is over holds what its tools printed, each byte   *)
(* once and the newest LogLimit of them, and says so if that is not all,   *)
(* although output is written in portions and errors end a command at any  *)
(* of them.                                                                *)
LogComplete ==
    row \in {"succeeded", "failed"} /\ ~lost =>
        /\ log = Smaller(received, LogLimit)
        /\ truncated <=> received > LogLimit

(* A job goes on only with what a tool that ended well printed, all of it, *)
(* and never with a tool that a shutdown has interrupted, whatever that    *)
(* tool's exit code is.                                                    *)
TrustsWholeOutput ==
    [][worker = "exiting" /\ worker' = "between" =>
          /\ tools[slot].code = 0
          /\ limited => captured = output
          /\ target # slot]_vars

(* A shutdown ends, though dovi_convert may ignore what it is asked.       *)
StopReturns == stop # "none" ~> stop = "stopped"

=============================================================================

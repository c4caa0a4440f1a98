-------------------------- MODULE ToolRunnerProofs --------------------------
(***************************************************************************)
(* One tool at a time, a shutdown that leaves none behind, a complete log  *)
(* and a job that trusts only whole output, for every limit, every number  *)
(* of jobs and commands and every way of reading the pipe.                 *)
(***************************************************************************)
EXTENDS ToolRunner, FiniteSetTheorems, TLAPS

(* A command of the job has a process.                                     *)
Running == worker \in {"launching", "reading", "exiting"}

(* What is in the log is what was received and is not pending.             *)
LogOK ==
    /\ pending <= received
    /\ ~lost => log = Smaller(received - pending, LogLimit)
    /\ ~lost => (truncated <=> received - pending > LogLimit)
    /\ pending # 0 => worker \in {"reading", "exiting"}
    /\ Running \/ worker = "between" => row = "running"

(* Each command prints at most MaxOutput.                                  *)
BudgetOK ==
    /\ ~Running => received <= commands * MaxOutput
    /\ Running => commands >= 1 /\ received <= (commands - 1) * MaxOutput + output

(* The capture is whole unless it says otherwise.                          *)
CaptureOK == Running /\ limited /\ ~exceeded => captured = output

(* Nobody but the worker and the shutdown know of a tool that is alive.    *)
SlotOK ==
    /\ Running => Newest >= 1
    /\ ~Running => Alive \subseteq left
    /\ Alive \ left \subseteq {Newest}
    /\ stop = "none" => target = 0
    /\ stop = "stopped" => worker = "ended"
    /\ stop # "none" /\ worker \in {"reading", "exiting"} /\ Newest \in Alive \ left
          => target = Newest /\ StopWaits

Inv == TypeOK /\ LogOK /\ BudgetOK /\ CaptureOK /\ SlotOK

-----------------------------------------------------------------------------
(* The processes: TypeOK says of them that they are a sequence.            *)

LEMMA ToolsType ==
    ASSUME TypeOK
    PROVE  /\ Newest \in Nat
           /\ Tools = 1 .. Newest
           /\ \A t \in Tools : tools[t] \in Tool
BY DEF TypeOK, Tools, Newest

LEMMA AppendTool ==
    ASSUME TypeOK, tools' = Append(tools, NewTool)
    PROVE  /\ tools' \in Seq(Tool)
           /\ Newest' = Newest + 1
           /\ Tools' = Tools \cup {Newest + 1}
           /\ Alive' = Alive \cup {Newest + 1}
<1>1. NewTool \in Tool /\ NewTool.alive
  BY DEF NewTool, Tool
<1>2. tools \in Seq(Tool)
  BY DEF TypeOK
<1>3. /\ tools' \in Seq(Tool)
      /\ Newest' = Newest + 1
      /\ Tools' = 1 .. Newest + 1
      /\ \A t \in Tools : tools'[t] = tools[t]
      /\ tools'[Newest + 1] = NewTool
  BY <1>1, <1>2 DEF Newest, Tools
<1>4. Newest \in Nat /\ Tools = 1 .. Newest
  BY ToolsType
<1>5. Tools' = Tools \cup {Newest + 1}
  BY <1>3, <1>4
<1>6. Alive' = Alive \cup {Newest + 1}
  BY <1>1, <1>3, <1>5 DEF Alive
<1>. QED BY <1>3, <1>5, <1>6

(* Any other step changes entries of the sequence, and revives none.       *)
LEMMA ChangeTools ==
    ASSUME TypeOK, NEW f, f \in [Tools -> Tool], tools' = f,
           \A t \in Tools : f[t].alive => tools[t].alive
    PROVE  /\ tools' \in Seq(Tool)
           /\ Newest' = Newest
           /\ Tools' = Tools
           /\ Alive' \subseteq Alive
<1>1. Newest \in Nat /\ Tools = 1 .. Newest
  BY ToolsType
<1>2. f \in Seq(Tool) /\ Len(f) = Newest /\ DOMAIN f = Tools
  BY <1>1
<1>. QED BY <1>2 DEF Newest, Tools, Alive

LEMMA CloseOutputTools ==
    ASSUME TypeOK, NEW t \in Tools, CloseOutput(t)
    PROVE  /\ tools' \in Seq(Tool) /\ Newest' = Newest /\ Tools' = Tools
           /\ Alive' \subseteq Alive
<1>1. tools[t] \in Tool
  BY ToolsType
<1>2. [tools[t] EXCEPT !.open = FALSE] \in Tool
  BY <1>1 DEF Tool
<1>3. [tools[t] EXCEPT !.open = FALSE].alive = tools[t].alive
  BY <1>1 DEF Tool
<1>. DEFINE f == [tools EXCEPT ![t].open = FALSE]
<1>4. f \in [Tools -> Tool]
  BY <1>2, ToolsType DEF Tools
<1>5. \A u \in Tools : f[u].alive => tools[u].alive
  BY <1>3 DEF Tools
<1>6. tools' = f
  BY DEF CloseOutput
<1>. HIDE DEF f
<1>. QED BY <1>4, <1>5, <1>6, ChangeTools

LEMMA EndTools ==
    ASSUME TypeOK, NEW t \in Tools, End(t)
    PROVE  /\ tools' \in Seq(Tool) /\ Newest' = Newest /\ Tools' = Tools
           /\ Alive' \subseteq Alive
<1>1. PICK code \in {0, 1} :
        tools' = [tools EXCEPT ![t] = [@ EXCEPT !.open = FALSE, !.alive = FALSE, !.code = code]]
  BY DEF End
<1>. DEFINE ended == [tools[t] EXCEPT !.open = FALSE, !.alive = FALSE, !.code = code]
            f == [tools EXCEPT ![t] = ended]
<1>2. tools[t] \in Tool
  BY ToolsType
<1>3. ended \in Tool /\ ~ended.alive
  BY <1>2 DEF Tool
<1>4. tools' = f
  BY <1>1
<1>. HIDE DEF ended
<1>5. f \in [Tools -> Tool]
  BY <1>3, ToolsType DEF Tools
<1>6. \A u \in Tools : f[u].alive => tools[u].alive
  BY <1>3 DEF Tools
<1>. HIDE DEF f
<1>. QED BY <1>4, <1>5, <1>6, ChangeTools

LEMMA EscalateTools ==
    ASSUME TypeOK, Escalate
    PROVE  /\ tools' \in Seq(Tool) /\ Newest' = Newest /\ Tools' = Tools
           /\ Alive' \subseteq Alive
<1>1. target \in Tools
  BY DEF Escalate, Alive
<1>. DEFINE killed == (stop = "terminate")
            signalled == [tools[target] EXCEPT !.killed = killed]
            f == [tools EXCEPT ![target] = signalled]
<1>2. tools[target] \in Tool
  BY <1>1, ToolsType
<1>3. killed \in BOOLEAN
  OBVIOUS
<1>4. tools' = f
  BY DEF Escalate
<1>. HIDE DEF killed
<1>5. signalled \in Tool /\ signalled.alive = tools[target].alive
  BY <1>2, <1>3 DEF Tool
<1>. HIDE DEF signalled
<1>6. f \in [Tools -> Tool]
  BY <1>1, <1>5, ToolsType DEF Tools
<1>7. \A u \in Tools : f[u].alive => tools[u].alive
  BY <1>1, <1>5 DEF Tools
<1>. HIDE DEF f
<1>. QED BY <1>4, <1>6, <1>7, ChangeTools

LEMMA CancelTools ==
    ASSUME TypeOK, TaskCancelled
    PROVE  /\ tools' \in Seq(Tool) /\ Newest' = Newest /\ Tools' = Tools
           /\ Alive' \subseteq Alive
           /\ worker = "launching" => Newest \notin Alive'
<1>. DEFINE dead(t) == [tools[t] EXCEPT !.open = FALSE, !.alive = FALSE]
            f == [t \in Tools |-> IF worker = "launching" /\ t = Newest THEN dead(t) ELSE tools[t]]
<1>1. \A t \in Tools : tools[t] \in Tool
  BY ToolsType
<1>2. \A t \in Tools : dead(t) \in Tool /\ ~dead(t).alive
  BY <1>1 DEF Tool
<1>3. tools' = f
  BY DEF TaskCancelled
<1>. HIDE DEF dead
<1>4. f \in [Tools -> Tool]
  BY <1>1, <1>2
<1>5. \A t \in Tools : f[t].alive => tools[t].alive
  BY <1>2
<1>6. worker = "launching" /\ Newest \in Tools => ~f[Newest].alive
  BY <1>2
<1>. HIDE DEF f
<1>7. /\ tools' \in Seq(Tool) /\ Newest' = Newest /\ Tools' = Tools
      /\ Alive' \subseteq Alive
  BY <1>3, <1>4, <1>5, ChangeTools
<1>8. worker = "launching" => Newest \notin Alive'
  BY <1>3, <1>6, <1>7 DEF Alive
<1>. QED BY <1>7, <1>8

-----------------------------------------------------------------------------
(* The log and the budget.                                                 *)

LEMMA Appended ==
    ASSUME TypeOK, NEW text \in Nat, AppendLog(text)
    PROVE  log' \in 0 .. LogLimit /\ truncated' \in BOOLEAN
<1>1. LogLimit \in Nat /\ log \in Nat /\ log <= LogLimit
  BY ToolAssumption DEF TypeOK
<1>2. log' \in 0 .. LogLimit
  BY <1>1 DEF AppendLog, Smaller
<1>3. truncated' \in BOOLEAN
  BY DEF AppendLog
<1>. QED BY <1>2, <1>3

(* Writing n bytes of what is received and not yet in the log.             *)
LEMMA AppendedWhole ==
    ASSUME TypeOK, LogOK, NEW n \in Nat, AppendLog(pending + n), ~lost
    PROVE  /\ log' = Smaller(received + n, LogLimit)
           /\ truncated' <=> received + n > LogLimit
<1>1. /\ LogLimit \in Nat /\ log \in Nat /\ received \in Nat /\ pending \in Nat
      /\ pending <= received
      /\ log = Smaller(received - pending, LogLimit)
      /\ truncated <=> received - pending > LogLimit
  BY ToolAssumption DEF TypeOK, LogOK
<1>2. /\ log' = Smaller(log + (pending + n), LogLimit)
      /\ truncated' <=> (truncated \/ log + (pending + n) > LogLimit)
  BY DEF AppendLog
<1>. QED BY <1>1, <1>2 DEF Smaller

LEMMA Budget ==
    ASSUME NEW c \in 0 .. MaxCommands
    PROVE  c * MaxOutput \in 0 .. MaxCommands * MaxOutput
<1>1. MaxCommands \in Nat /\ MaxOutput \in Nat /\ c \in Nat
  BY ToolAssumption
<1>2. PICK d \in Nat : MaxCommands = c + d
  BY <1>1
<1>3. MaxCommands * MaxOutput = c * MaxOutput + d * MaxOutput
  BY <1>1, <1>2
<1>4. c * MaxOutput \in Nat /\ d * MaxOutput \in Nat
  BY <1>1, <1>2
<1>. QED BY <1>1, <1>2, <1>3, <1>4

LEMMA NextBudget ==
    ASSUME NEW c \in Nat \ {0}
    PROVE  (c - 1) * MaxOutput + MaxOutput = c * MaxOutput
BY ToolAssumption

(* What a job has received while its c-th command runs, or after it.       *)
LEMMA WithinBudget ==
    ASSUME NEW c \in 0 .. MaxCommands, NEW o \in 0 .. MaxOutput, NEW r \in Nat,
           \/ r <= c * MaxOutput
           \/ c >= 1 /\ r <= (c - 1) * MaxOutput + o
    PROVE  r \in 0 .. MaxCommands * MaxOutput
<1>. DEFINE total == MaxCommands * MaxOutput
            spent == c * MaxOutput
            before == (c - 1) * MaxOutput
<1>1. MaxOutput \in Nat /\ c \in Nat /\ MaxCommands \in Nat
  BY ToolAssumption
<1>2. spent \in 0 .. total
  BY Budget
<1>3. c >= 1 => before + MaxOutput = spent
  BY <1>1, NextBudget
<1>4. before \in Int /\ total \in Int /\ spent \in Int
  BY <1>1
<1>5. r <= spent \/ (c >= 1 /\ r <= before + o)
  OBVIOUS
<1>. HIDE DEF total, spent, before
<1>6. o \in Nat /\ o <= MaxOutput
  BY <1>1
<1>7. r <= spent
  BY <1>1, <1>3, <1>4, <1>5, <1>6
<1>8. r \in 0 .. total
  BY <1>2, <1>4, <1>7
<1>. QED BY <1>8 DEF total

LEMMA LogStep ==
    ASSUME Inv, [Next]_vars
    PROVE  LogOK'
<1>1. TypeOK /\ LogOK
  BY DEF Inv
<1>2. /\ received \in Nat /\ pending \in Nat /\ log \in Nat /\ LogLimit \in Nat
      /\ ChunkSizes \subseteq Nat
  BY <1>1, ToolAssumption DEF TypeOK
<1>3. CASE UNCHANGED vars
  BY <1>3, <1>1 DEF vars, logging, LogOK, Running
<1>4. CASE BeginJob
  BY <1>4, <1>2 DEF BeginJob, LogOK, Running, Smaller
<1>5. CASE LeaveLoop
  BY <1>5, <1>1 DEF LeaveLoop, logging, LogOK, Running
<1>6. CASE Launch
  BY <1>6, <1>1 DEF Launch, logging, LogOK, Running
<1>7. CASE HandOver
  BY <1>7, <1>1 DEF HandOver, logging, LogOK, Running
<1>8. ASSUME NEW n \in ChunkSizes, ReadChunk(n)
      PROVE  LogOK'
  <2>1. /\ received' = received + n
        /\ UNCHANGED <<worker, row, lost>> /\ worker = "reading" /\ row = "running"
    BY <1>8, <1>1 DEF ReadChunk, LogOK, Running
  <2>2. CASE pending' = pending + n /\ UNCHANGED <<log, truncated>>
    BY <2>1, <2>2, <1>1, <1>2 DEF LogOK, Running
  <2>3. CASE pending' = 0 /\ AppendLog(pending + n)
    BY <2>1, <2>3, <1>1, <1>2, AppendedWhole DEF LogOK, Running
  <2>. QED BY <1>8, <2>2, <2>3 DEF ReadChunk
<1>9. CASE ReadEof
  BY <1>9, <1>1 DEF ReadEof, logging, LogOK, Running
<1>10. ASSUME FlushLog, UNCHANGED <<received, lost>>
       PROVE  /\ pending' = 0 /\ pending' <= received'
              /\ ~lost' => log' = Smaller(received' - pending', LogLimit)
              /\ ~lost' => (truncated' <=> received' - pending' > LogLimit)
  <2>1. pending' = 0 /\ AppendLog(pending)
    BY <1>10 DEF FlushLog
  <2>2. pending + 0 = pending /\ received + 0 = received /\ received - 0 = received
    BY <1>2
  <2>. QED BY <2>1, <2>2, <1>10, <1>1, <1>2, AppendedWhole
<1>11. CASE ReturnResult
  <2>1. FlushLog /\ UNCHANGED <<received, lost>> /\ row = "running"
    BY <1>11, <1>1 DEF ReturnResult, ToolEnded, LogOK, Running
  <2>2. \/ worker' = "between" /\ row' = row
        \/ worker' = "idle" /\ row' = "failed"
    BY <1>11 DEF ReturnResult
  <2>. QED BY <2>1, <2>2, <1>10 DEF LogOK, Running
<1>12. CASE EndJob
  BY <1>12, <1>1 DEF EndJob, logging, LogOK, Running
<1>13. ASSUME NEW n \in ChunkSizes \cup {0}, LogWriteFails(n)
       PROVE  LogOK'
  <2>1. /\ received' = received + n /\ pending' = 0
        /\ worker' \in {"idle", "ended"}
    BY <1>13 DEF LogWriteFails
  <2>2. CASE lost' = TRUE
    BY <2>1, <2>2, <1>2 DEF LogOK, Running
  <2>3. CASE AppendLog(pending + n) /\ UNCHANGED lost
    BY <2>1, <2>3, <1>1, <1>2, AppendedWhole DEF LogOK, Running
  <2>. QED BY <1>13, <2>2, <2>3 DEF LogWriteFails
<1>14. CASE TaskCancelled
  <2>1. FlushLog /\ UNCHANGED <<received, lost>> /\ worker' = "ended"
    BY <1>14 DEF TaskCancelled
  <2>. QED BY <2>1, <1>10 DEF LogOK, Running
<1>15. CASE Process
  BY <1>15, <1>1 DEF Process, CloseOutput, End, logging, LogOK, Running
<1>16. CASE BeginStop
  BY <1>16, <1>1 DEF BeginStop, logging, LogOK, Running
<1>17. CASE TargetEnded \/ Escalate \/ TaskJoined
  BY <1>17, <1>1 DEF TargetEnded, Escalate, TaskJoined, logging, LogOK, Running
<1>. QED
  BY <1>3, <1>4, <1>5, <1>6, <1>7, <1>8, <1>9, <1>11, <1>12, <1>13, <1>14, <1>15, <1>16, <1>17
  DEF Next, Worker, Stop

LEMMA BudgetStep ==
    ASSUME Inv, [Next]_vars
    PROVE  BudgetOK' /\ CaptureOK'
<1>1. TypeOK /\ BudgetOK /\ CaptureOK
  BY DEF Inv
<1>2. /\ commands \in Nat /\ received \in Nat /\ output \in Nat /\ MaxOutput \in Nat
      /\ output <= MaxOutput /\ captured \in Nat /\ CaptureLimit \in Nat
      /\ captured <= CaptureLimit /\ ChunkSizes \subseteq Nat
  BY <1>1, ToolAssumption DEF TypeOK
<1>. DEFINE spent == commands * MaxOutput
            before == (commands - 1) * MaxOutput
<1>3. spent \in Int /\ before \in Int
  BY <1>2
<1>4. commands >= 1 => before + MaxOutput = spent
  BY <1>2, NextBudget
<1>5. ASSUME UNCHANGED <<worker, commands, limited, output, captured, exceeded, received>>
      PROVE  BudgetOK' /\ CaptureOK'
  BY <1>5, <1>1 DEF BudgetOK, CaptureOK, Running
<1>6. ASSUME UNCHANGED <<commands, limited, output, captured, exceeded, received>>,
             Running' <=> Running
      PROVE  BudgetOK' /\ CaptureOK'
  BY <1>6, <1>1 DEF BudgetOK, CaptureOK
<1>7. ASSUME UNCHANGED commands, ~Running', Running,
             NEW n \in Nat, received' = received + n, output + n <= MaxOutput
      PROVE  BudgetOK' /\ CaptureOK'
  <2>1. commands >= 1 /\ received <= before + output
    BY <1>7, <1>1 DEF BudgetOK
  <2>2. received' <= spent
    BY <2>1, <1>2, <1>3, <1>4, <1>7
  <2>. QED BY <2>2, <1>7 DEF BudgetOK, CaptureOK
<1>8. CASE UNCHANGED vars
  BY <1>8, <1>5 DEF vars, bytes, logging
<1>9. CASE BeginJob
  <2>1. received' = 0 /\ commands' = 0 /\ worker' = "between" /\ 0 * MaxOutput = 0
    BY <1>9, <1>2 DEF BeginJob
  <2>. QED BY <2>1 DEF BudgetOK, CaptureOK, Running
<1>10. CASE LeaveLoop \/ HandOver \/ ReadEof \/ EndJob
  BY <1>10, <1>6 DEF LeaveLoop, HandOver, ReadEof, EndJob, Running, bytes, logging
<1>11. CASE Launch
  <2>1. /\ received <= spent /\ received' = received /\ commands' = commands + 1
        /\ output' = 0 /\ captured' = 0 /\ worker' = "launching"
    BY <1>11, <1>1 DEF Launch, BudgetOK, Running, logging
  <2>2. (commands' - 1) * MaxOutput = spent
    BY <2>1, <1>2
  <2>3. commands' >= 1 /\ received' <= (commands' - 1) * MaxOutput + output'
    BY <2>1, <2>2, <1>2, <1>3
  <2>. QED BY <2>1, <2>3 DEF BudgetOK, CaptureOK, Running
<1>12. ASSUME NEW n \in ChunkSizes, ReadChunk(n)
       PROVE  BudgetOK' /\ CaptureOK'
  <2>1. /\ Running /\ Running' /\ commands' = commands /\ limited' = limited
        /\ received' = received + n /\ output' = output + n
    BY <1>12 DEF ReadChunk, Running
  <2>2. BudgetOK'
    <3>1. commands >= 1 /\ received <= before + output
      BY <2>1, <1>1 DEF BudgetOK
    <3>2. received' <= before + output'
      BY <3>1, <2>1, <1>2, <1>3
    <3>. QED BY <3>1, <3>2, <2>1 DEF BudgetOK
  <2>3. CASE limited
    <3>1. /\ captured' = captured + Smaller(n, CaptureLimit - captured)
          /\ exceeded' <=> (exceeded \/ n > CaptureLimit - captured)
      BY <1>12, <2>3 DEF ReadChunk, Capture
    <3>2. ~exceeded' => captured' = output'
      BY <3>1, <2>1, <2>3, <1>1, <1>2 DEF CaptureOK, Smaller
    <3>. QED BY <2>2, <3>2 DEF CaptureOK
  <2>4. CASE ~limited
    BY <2>1, <2>2, <2>4 DEF CaptureOK
  <2>. QED BY <2>3, <2>4
<1>13. CASE ReturnResult \/ TaskCancelled
  <2>1. /\ UNCHANGED <<commands, limited, output, captured, exceeded, received>>
        /\ worker' \in {"between", "idle", "ended"}
    BY <1>13, Zenon DEF ReturnResult, TaskCancelled, bytes
  <2>. ~Running'
    BY <2>1 DEF Running
  <2>2. CASE Running
    <3>1. received' = received + 0 /\ output + 0 <= MaxOutput
      BY <2>1, <1>2
    <3>. QED BY <2>1, <2>2, <3>1, <1>7
  <2>3. CASE ~Running
    BY <2>1, <2>3, <1>6
  <2>. QED BY <2>2, <2>3
<1>14. ASSUME NEW n \in ChunkSizes \cup {0}, LogWriteFails(n)
       PROVE  BudgetOK' /\ CaptureOK'
  <2>1. /\ commands' = commands /\ ~Running' /\ Running
        /\ received' = received + n
    BY <1>14 DEF LogWriteFails, ToolEnded, Running
  <2>2. n \in Nat /\ output + n <= MaxOutput
    BY <1>14, <1>2 DEF LogWriteFails
  <2>. QED BY <2>1, <2>2, <1>7
<1>15. CASE Process \/ BeginStop \/ TargetEnded \/ Escalate \/ TaskJoined
  BY <1>15, <1>5
  DEF Process, CloseOutput, End, BeginStop, TargetEnded, Escalate, TaskJoined, bytes, logging
<1>. QED
  BY <1>8, <1>9, <1>10, <1>11, <1>12, <1>13, <1>14, <1>15 DEF Next, Worker, Stop

-----------------------------------------------------------------------------
(* The slot and the shutdown.                                              *)

LEMMA SlotStep ==
    ASSUME Inv, [Next]_vars
    PROVE  SlotOK' /\ tools' \in Seq(Tool) /\ Tools \subseteq Tools'
<1>1. TypeOK /\ SlotOK
  BY DEF Inv
<1>2. Newest \in Nat /\ Tools = 1 .. Newest /\ Alive \subseteq Tools /\ tools \in Seq(Tool)
  BY <1>1, ToolsType DEF Alive, TypeOK
<1>3. slot = IF worker \in {"reading", "exiting"} THEN Newest ELSE 0
  BY <1>1 DEF TypeOK
<1>4. ASSUME UNCHANGED tools
      PROVE  Newest' = Newest /\ Tools' = Tools /\ Alive' = Alive /\ tools' \in Seq(Tool)
  BY <1>4, <1>2 DEF Newest, Tools, Alive
<1>5. ASSUME Newest' = Newest, Alive' \subseteq Alive, UNCHANGED <<worker, stop, target, left>>
      PROVE  SlotOK'
  BY <1>5, <1>1 DEF SlotOK, Running, StopWaits
<1>6. CASE UNCHANGED vars
  BY <1>6, <1>4, <1>5 DEF vars, stopping
<1>7. CASE Process
  <2>1. PICK t \in Tools : CloseOutput(t) \/ End(t)
    BY <1>7 DEF Process
  <2>2. /\ tools' \in Seq(Tool) /\ Newest' = Newest /\ Tools' = Tools
        /\ Alive' \subseteq Alive
    BY <2>1, <1>1, CloseOutputTools, EndTools
  <2>3. UNCHANGED <<worker, stop, target, left>>
    BY <2>1 DEF CloseOutput, End, stopping
  <2>. QED BY <2>2, <2>3, <1>5
<1>8. CASE BeginJob \/ EndJob \/ LeaveLoop
  <2>1. UNCHANGED <<tools, stop, target, left>> /\ ~Running /\ ~Running'
    BY <1>8 DEF BeginJob, EndJob, LeaveLoop, Running, stopping
  <2>2. stop = "stopped" => worker = "ended"
    BY <1>1 DEF SlotOK
  <2>3. worker # "ended"
    BY <1>8 DEF BeginJob, EndJob, LeaveLoop
  <2>. QED BY <2>1, <2>2, <2>3, <1>4, <1>1 DEF SlotOK, Running, StopWaits
<1>9. CASE Launch
  <2>1. /\ UNCHANGED <<stop, target, left>> /\ worker' = "launching" /\ worker = "between"
        /\ tools' = Append(tools, NewTool)
    BY <1>9 DEF Launch, stopping
  <2>2. /\ tools' \in Seq(Tool) /\ Newest' = Newest + 1 /\ Tools' = Tools \cup {Newest + 1}
        /\ Alive' = Alive \cup {Newest + 1}
    BY <2>1, <1>1, AppendTool
  <2>3. Alive \subseteq left /\ stop # "stopped"
    BY <2>1, <1>1 DEF SlotOK, Running
  <2>. QED BY <2>1, <2>2, <2>3, <1>1, <1>2 DEF SlotOK, Running
<1>10. CASE HandOver
  <2>1. /\ UNCHANGED <<tools, stop, target>> /\ worker = "launching" /\ worker' = "reading"
        /\ left' = IF stop = "none" THEN left ELSE left \cup {Newest}
    BY <1>10 DEF HandOver, stopping
  <2>. QED BY <2>1, <1>4, <1>1 DEF SlotOK, Running
<1>11. CASE \E n \in ChunkSizes : ReadChunk(n)
  BY <1>11, <1>4, <1>5 DEF ReadChunk, stopping
<1>12. CASE ReadEof
  <2>1. /\ UNCHANGED <<tools, stop, target, left>>
        /\ worker = "reading" /\ worker' = "exiting"
    BY <1>12 DEF ReadEof, stopping
  <2>. QED BY <2>1, <1>4, <1>1 DEF SlotOK, Running, StopWaits
<1>13. CASE ReturnResult
  <2>1. /\ UNCHANGED <<tools, stop, target, left>>
        /\ worker = "exiting" /\ worker' \in {"between", "idle"}
        /\ ~tools[slot].alive
    BY <1>13 DEF ReturnResult, ToolEnded, stopping
  <2>2. Newest \notin Alive
    BY <2>1, <1>3 DEF Alive
  <2>3. Alive \subseteq left /\ stop # "stopped"
    BY <2>1, <2>2, <1>1 DEF SlotOK
  <2>. QED BY <2>1, <2>3, <1>4, <1>1 DEF SlotOK, Running
<1>14. CASE \E n \in ChunkSizes \cup {0} : LogWriteFails(n)
  <2>1. /\ UNCHANGED <<tools, stop, target>>
        /\ worker \in {"reading", "exiting"} /\ worker' \in {"idle", "ended"}
        /\ left' = left \cup ({slot} \cap Alive)
    BY <1>14 DEF LogWriteFails, ToolEnded, stopping
  <2>2. Alive \subseteq left'
    BY <2>1, <1>3, <1>1 DEF SlotOK
  <2>3. stop # "stopped"
    BY <2>1, <1>1 DEF SlotOK
  <2>. QED BY <2>1, <2>2, <2>3, <1>4, <1>1 DEF SlotOK, Running
<1>15. CASE BeginStop
  <2>1. /\ UNCHANGED <<tools, worker, left>> /\ stop = "none"
        /\ target' = IF slot \in Alive THEN slot ELSE 0
        /\ stop' = IF target' = 0 THEN "task" ELSE "interrupt"
    BY <1>15 DEF BeginStop
  <2>2. worker \in {"reading", "exiting"} /\ Newest \in Alive
          => target' = Newest /\ stop' = "interrupt"
    BY <2>1, <1>2, <1>3, <1>1 DEF SlotOK, Running
  <2>. QED BY <2>1, <2>2, <1>4, <1>1 DEF SlotOK, Running, StopWaits
<1>16. CASE TargetEnded
  BY <1>16, <1>4, <1>1 DEF TargetEnded, SlotOK, Running, StopWaits
<1>17. CASE Escalate
  <2>1. /\ tools' \in Seq(Tool) /\ Newest' = Newest /\ Tools' = Tools
        /\ Alive' \subseteq Alive
    BY <1>17, <1>1, EscalateTools
  <2>2. UNCHANGED <<worker, target, left>> /\ StopWaits /\ StopWaits'
        /\ stop # "none" /\ stop' # "stopped" /\ stop' # "none"
    BY <1>17 DEF Escalate, StopWaits
  <2>. QED BY <2>1, <2>2, <1>1 DEF SlotOK, Running
<1>18. CASE TaskJoined
  <2>1. /\ UNCHANGED <<tools, worker, target, left>> /\ worker = "ended" /\ stop' = "stopped"
    BY <1>18 DEF TaskJoined
  <2>. QED BY <2>1, <1>4, <1>1 DEF SlotOK, Running
<1>19. CASE TaskCancelled
  <2>1. /\ tools' \in Seq(Tool) /\ Newest' = Newest /\ Tools' = Tools
        /\ Alive' \subseteq Alive
        /\ worker = "launching" => Newest \notin Alive'
    BY <1>19, <1>1, CancelTools
  <2>2. /\ UNCHANGED <<target, left>> /\ stop = "task" /\ stop' = "stopped" /\ worker' = "ended"
    BY <1>19 DEF TaskCancelled
  <2>3. Alive' \subseteq left
    BY <2>1, <2>2, <1>1 DEF SlotOK, Running, StopWaits
  <2>. QED BY <2>1, <2>2, <2>3, <1>1 DEF SlotOK, Running
<1>. QED
  BY <1>2, <1>4, <1>6, <1>7, <1>8, <1>9, <1>10, <1>11, <1>12, <1>13, <1>14, <1>15, <1>16,
     <1>17, <1>18, <1>19
  DEF Next, Worker, Stop

LEMMA TypeStep ==
    ASSUME Inv, [Next]_vars
    PROVE  TypeOK'
<1>1. TypeOK /\ LogOK /\ SlotOK
  BY DEF Inv
<1>2. /\ tools' \in Seq(Tool) /\ Newest \in Nat /\ Tools = 1 .. Newest
      /\ Tools \subseteq Tools'
      /\ target \in Tools \cup {0} /\ left \subseteq Tools
  BY <1>1, SlotStep, ToolsType DEF TypeOK
<1>3. /\ MaxJobs \in Nat /\ MaxCommands \in Nat /\ MaxOutput \in Nat /\ MaxFaults \in Nat
      /\ CaptureLimit \in Nat /\ LogLimit \in Nat /\ ChunkSizes \subseteq Nat
      /\ jobs \in Nat /\ commands \in Nat /\ output \in Nat /\ captured \in Nat
      /\ received \in Nat /\ pending \in Nat /\ log \in Nat /\ faults \in Nat
      /\ captured <= CaptureLimit /\ log <= LogLimit
  BY <1>1, ToolAssumption DEF TypeOK
<1>. DEFINE Bounded ==
              /\ jobs \in 0 .. MaxJobs
              /\ commands \in 0 .. MaxCommands
              /\ output \in 0 .. MaxOutput
              /\ captured \in 0 .. CaptureLimit
              /\ received \in Nat
              /\ pending \in Nat
              /\ log \in 0 .. LogLimit
              /\ faults \in 0 .. MaxFaults
            Flags == {limited, exceeded, truncated, lost} \subseteq BOOLEAN
            Places ==
              /\ worker \in WorkerPlace
              /\ row \in {"none", "running", "succeeded", "failed"}
              /\ stop \in StopPlace
<1>4. Bounded /\ Flags /\ Places
  BY <1>1 DEF TypeOK
<1>5. Flags <=> /\ limited \in BOOLEAN /\ exceeded \in BOOLEAN
                /\ truncated \in BOOLEAN /\ lost \in BOOLEAN
  OBVIOUS
<1>6. Flags' <=> /\ limited' \in BOOLEAN /\ exceeded' \in BOOLEAN
                 /\ truncated' \in BOOLEAN /\ lost' \in BOOLEAN
  OBVIOUS
<1>. HIDE DEF Flags
<1>7. ASSUME FlushLog
      PROVE  pending' = 0 /\ log' \in 0 .. LogLimit /\ truncated' \in BOOLEAN
  <2>1. pending' = 0 /\ AppendLog(pending)
    BY <1>7 DEF FlushLog
  <2>. QED BY <2>1, <1>1, <1>3, Appended
<1>8. Bounded' /\ Flags' /\ Places'
  <2>1. ASSUME UNCHANGED <<jobs, commands, output, captured, received, pending, log, faults,
                           limited, exceeded, truncated, lost>>
        PROVE  Bounded' /\ Flags'
    BY <2>1, <1>4, <1>5, <1>6
  <2>2. CASE UNCHANGED vars
    <3>1. UNCHANGED <<worker, row, stop>>
      BY <2>2 DEF vars, stopping
    <3>. QED BY <2>1, <2>2, <3>1, <1>4 DEF vars, bytes, logging
  <2>3. CASE Process \/ LeaveLoop \/ HandOver \/ ReadEof \/ EndJob
    <3>1. Bounded' /\ Flags'
      BY <2>1, <2>3
      DEF Process, CloseOutput, End, LeaveLoop, HandOver, ReadEof, EndJob, bytes, logging
    <3>2. Places'
      BY <2>3, <1>4
      DEF Process, CloseOutput, End, LeaveLoop, HandOver, ReadEof, EndJob, stopping, WorkerPlace
    <3>. QED BY <3>1, <3>2
  <2>4. CASE BeginStop \/ TargetEnded \/ Escalate \/ TaskJoined
    <3>1. Bounded' /\ Flags'
      BY <2>1, <2>4, Zenon DEF BeginStop, TargetEnded, Escalate, TaskJoined, bytes, logging
    <3>2. UNCHANGED <<worker, row>> /\ stop' \in StopPlace
      BY <2>4, Zenon DEF BeginStop, TargetEnded, Escalate, TaskJoined, StopPlace
    <3>. QED BY <3>1, <3>2, <1>4
  <2>5. CASE BeginJob
    <3>1. /\ jobs < MaxJobs /\ jobs' = jobs + 1 /\ commands' = 0 /\ received' = 0
          /\ pending' = 0 /\ log' = 0 /\ UNCHANGED <<output, captured, exceeded, faults, stop>>
          /\ worker' = "between" /\ row' = "running"
          /\ limited' \in BOOLEAN /\ truncated' = FALSE /\ lost' = FALSE
      BY <2>5 DEF BeginJob, bytes, stopping
    <3>2. Bounded'
      BY <3>1, <1>3, <1>4
    <3>3. Flags'
      BY <3>1, <1>4, <1>5, <1>6
    <3>. QED BY <3>1, <3>2, <3>3, <1>4 DEF WorkerPlace
  <2>6. CASE Launch
    <3>1. /\ commands < MaxCommands /\ commands' = commands + 1 /\ output' = 0 /\ captured' = 0
          /\ UNCHANGED <<jobs, received, pending, log, faults, limited, truncated, lost, stop, row>>
          /\ worker' = "launching" /\ exceeded' = FALSE
      BY <2>6 DEF Launch, logging, stopping
    <3>2. Bounded'
      BY <3>1, <1>3, <1>4
    <3>3. Flags'
      BY <3>1, <1>4, <1>5, <1>6
    <3>. QED BY <3>1, <3>2, <3>3, <1>4 DEF WorkerPlace
  <2>7. ASSUME NEW n \in ChunkSizes, ReadChunk(n)
        PROVE  Bounded' /\ Flags' /\ Places'
    <3>1. /\ output + n <= MaxOutput /\ output' = output + n /\ received' = received + n
          /\ UNCHANGED <<worker, jobs, row, commands, limited, stop, faults, lost>>
      BY <2>7 DEF ReadChunk, stopping
    <3>2. captured' \in 0 .. CaptureLimit /\ exceeded' \in BOOLEAN
      <4>1. CASE limited
        <5>1. captured' = captured + Smaller(n, CaptureLimit - captured)
          BY <2>7, <4>1 DEF ReadChunk, Capture
        <5>2. exceeded' \in BOOLEAN
          BY <2>7, <4>1 DEF ReadChunk, Capture
        <5>. QED BY <5>1, <5>2, <1>3 DEF Smaller
      <4>2. CASE ~limited
        BY <2>7, <4>2, <1>4, <1>5 DEF ReadChunk
      <4>. QED BY <4>1, <4>2
    <3>3. pending' \in Nat /\ log' \in 0 .. LogLimit /\ truncated' \in BOOLEAN
      <4>1. CASE pending' = pending + n /\ UNCHANGED <<log, truncated>>
        BY <4>1, <1>3, <1>4, <1>5
      <4>2. CASE pending' = 0 /\ AppendLog(pending + n)
        BY <4>2, <1>1, <1>3, Appended
      <4>. QED BY <2>7, <4>1, <4>2 DEF ReadChunk
    <3>4. Bounded'
      BY <3>1, <3>2, <3>3, <1>3, <1>4
    <3>5. Flags'
      BY <3>1, <3>2, <3>3, <1>4, <1>5, <1>6
    <3>. QED BY <3>1, <3>4, <3>5, <1>4
  <2>8. CASE ReturnResult
    <3>1. /\ FlushLog
          /\ UNCHANGED <<jobs, commands, output, captured, exceeded, received, faults, limited,
                         lost, stop>>
          /\ worker' \in {"between", "idle"} /\ row' \in {row, "failed"}
      BY <2>8 DEF ReturnResult, bytes, stopping
    <3>2. Bounded'
      BY <3>1, <1>4, <1>7
    <3>3. Flags'
      BY <3>1, <1>4, <1>5, <1>6, <1>7
    <3>. QED BY <3>1, <3>2, <3>3, <1>4 DEF WorkerPlace
  <2>9. ASSUME NEW n \in ChunkSizes \cup {0}, LogWriteFails(n)
        PROVE  Bounded' /\ Flags' /\ Places'
    <3>1. /\ faults < MaxFaults /\ faults' = faults + 1 /\ received' = received + n
          /\ pending' = 0 /\ worker' \in {"idle", "ended"} /\ row' \in {row, "failed"}
          /\ UNCHANGED <<jobs, commands, output, captured, exceeded, limited, stop>>
      BY <2>9 DEF LogWriteFails, bytes, stopping
    <3>2. n \in Nat
      BY <1>3
    <3>3. log' \in 0 .. LogLimit /\ truncated' \in BOOLEAN /\ lost' \in BOOLEAN
      <4>1. CASE lost' = TRUE /\ UNCHANGED <<log, truncated>>
        BY <4>1, <1>4, <1>5
      <4>2. CASE AppendLog(pending + n) /\ UNCHANGED lost
        BY <4>2, <3>2, <1>1, <1>3, <1>4, <1>5, Appended
      <4>. QED BY <2>9, <4>1, <4>2 DEF LogWriteFails
    <3>4. Bounded'
      BY <3>1, <3>2, <3>3, <1>3, <1>4
    <3>5. Flags'
      BY <3>1, <3>3, <1>4, <1>5, <1>6
    <3>. QED BY <3>1, <3>4, <3>5, <1>4 DEF WorkerPlace
  <2>10. CASE TaskCancelled
    <3>1. /\ FlushLog
          /\ UNCHANGED <<jobs, commands, output, captured, exceeded, received, faults, limited,
                         lost, row>>
          /\ worker' = "ended" /\ stop' = "stopped"
      BY <2>10, Zenon DEF TaskCancelled, bytes
    <3>2. Bounded'
      BY <3>1, <1>4, <1>7
    <3>3. Flags'
      BY <3>1, <1>4, <1>5, <1>6, <1>7
    <3>. QED BY <3>1, <3>2, <3>3, <1>4 DEF WorkerPlace, StopPlace
  <2>. QED
    BY <2>2, <2>3, <2>4, <2>5, <2>6, <2>7, <2>8, <2>9, <2>10 DEF Next, Worker, Stop
<1>9. slot' = IF worker' \in {"reading", "exiting"} THEN Newest' ELSE 0
  <2>. DEFINE Held == slot = IF worker \in {"reading", "exiting"} THEN Newest ELSE 0
  <2>1. Held
    BY <1>1 DEF TypeOK
  <2>2. CASE UNCHANGED vars
    BY <2>1, <2>2 DEF vars, Newest
  <2>3. ASSUME NEW t \in Tools, CloseOutput(t) \/ End(t)
        PROVE  Held'
    BY <2>1, <2>3, <1>1, CloseOutputTools, EndTools, Zenon DEF CloseOutput, End
  <2>4. CASE Escalate
    BY <2>1, <2>4, <1>1, EscalateTools, Zenon DEF Escalate
  <2>5. CASE TaskCancelled
    BY <2>5, Zenon DEF TaskCancelled
  <2>6. CASE BeginJob \/ LeaveLoop \/ Launch \/ EndJob \/ BeginStop \/ TargetEnded \/ TaskJoined
    BY <2>1, <2>6
    DEF BeginJob, LeaveLoop, Launch, EndJob, BeginStop, TargetEnded, TaskJoined, Newest
  <2>7. CASE HandOver \/ ReadEof \/ ReturnResult
    BY <2>1, <2>7 DEF HandOver, ReadEof, ReturnResult, Newest
  <2>8. ASSUME NEW n \in ChunkSizes, ReadChunk(n)
        PROVE  Held'
    BY <2>1, <2>8 DEF ReadChunk, Newest
  <2>9. ASSUME NEW n \in ChunkSizes \cup {0}, LogWriteFails(n)
        PROVE  Held'
    BY <2>9 DEF LogWriteFails
  <2>. QED
    BY <2>2, <2>3, <2>4, <2>5, <2>6, <2>7, <2>8, <2>9 DEF Next, Process, Worker, Stop
<1>10. target' \in Tools' \cup {0}
  <2>1. \/ target' = target
        \/ BeginStop /\ target' \in Alive \cup {0}
    BY Zenon
    DEF Next, Process, Worker, Stop, CloseOutput, End, BeginJob, LeaveLoop, Launch, HandOver,
        ReadChunk, ReadEof, ReturnResult, EndJob, LogWriteFails, BeginStop, TargetEnded,
        Escalate, TaskJoined, TaskCancelled, stopping, vars
  <2>. QED BY <2>1, <1>2 DEF Alive
<1>11. left' \subseteq Tools'
  <2>1. CASE left' = left
    BY <2>1, <1>2
  <2>2. CASE HandOver
    <3>1. /\ left' = IF stop = "none" THEN left ELSE left \cup {Newest}
          /\ worker = "launching"
      BY <2>2 DEF HandOver
    <3>2. Newest >= 1
      BY <3>1, <1>1 DEF SlotOK, Running
    <3>. QED BY <3>1, <3>2, <1>2
  <2>3. ASSUME NEW n \in ChunkSizes \cup {0}, LogWriteFails(n)
        PROVE  left' \subseteq Tools'
    BY <2>3, <1>2 DEF LogWriteFails, Alive
  <2>4. \/ left' = left
        \/ HandOver
        \/ \E n \in ChunkSizes \cup {0} : LogWriteFails(n)
    BY Zenon
    DEF Next, Process, Worker, Stop, CloseOutput, End, BeginJob, LeaveLoop, Launch,
        ReadChunk, ReadEof, ReturnResult, EndJob, BeginStop, TargetEnded,
        Escalate, TaskJoined, TaskCancelled, vars
  <2>. QED BY <2>1, <2>2, <2>3, <2>4
<1>12. {received', pending'} \subseteq 0 .. MaxCommands * MaxOutput
  <2>. DEFINE total == MaxCommands * MaxOutput
  <2>1. /\ commands' \in 0 .. MaxCommands /\ output' \in 0 .. MaxOutput
        /\ received' \in Nat /\ pending' \in Nat
    BY <1>8
  <2>2. BudgetOK' /\ LogOK'
    BY BudgetStep, LogStep
  <2>3. \/ received' <= commands' * MaxOutput
        \/ commands' >= 1 /\ received' <= (commands' - 1) * MaxOutput + output'
    BY <2>2 DEF BudgetOK
  <2>. HIDE DEF Bounded, Places
  <2>4. received' \in 0 .. total
    BY <2>1, <2>3, WithinBudget
  <2>5. pending' <= received'
    BY <2>2 DEF LogOK
  <2>6. total \in Int
    BY <1>3
  <2>. HIDE DEF total
  <2>7. pending' \in 0 .. total
    BY <2>1, <2>4, <2>5, <2>6
  <2>. QED BY <2>4, <2>7 DEF total
<1>. QED BY <1>2, <1>8, <1>9, <1>10, <1>11, <1>12 DEF TypeOK, Flags

-----------------------------------------------------------------------------
(* The theorems.                                                           *)

LEMMA InvInit == Init => Inv
<1>. SUFFICES ASSUME Init
              PROVE  Inv
  OBVIOUS
<1>1. /\ tools = <<>> /\ Newest = 0 /\ Tools = {} /\ Alive = {} /\ tools \in Seq(Tool)
  BY DEF Init, Newest, Tools, Alive
<1>2. /\ MaxJobs \in Nat /\ MaxCommands \in Nat /\ MaxOutput \in Nat /\ MaxFaults \in Nat
      /\ CaptureLimit \in Nat /\ LogLimit \in Nat
  BY ToolAssumption
<1>3. MaxCommands * MaxOutput \in Nat /\ 0 * MaxOutput = 0
  BY <1>2
<1>4. TypeOK
  <2>1. {received, pending} \subseteq 0 .. MaxCommands * MaxOutput
    BY <1>3 DEF Init
  <2>2. {limited, exceeded, truncated, lost} \subseteq BOOLEAN
    <3>1. limited \in BOOLEAN /\ exceeded \in BOOLEAN /\ truncated \in BOOLEAN /\ lost \in BOOLEAN
      BY DEF Init
    <3>. QED BY <3>1
  <2>. QED BY <1>1, <1>2, <2>1, <2>2 DEF Init, TypeOK, WorkerPlace, StopPlace
<1>5. LogOK
  BY <1>2 DEF Init, LogOK, Running, Smaller
<1>6. BudgetOK /\ CaptureOK
  BY <1>3 DEF Init, BudgetOK, CaptureOK, Running
<1>7. SlotOK
  BY <1>1 DEF Init, SlotOK, Running
<1>. QED BY <1>4, <1>5, <1>6, <1>7 DEF Inv

LEMMA InvInductive == Spec => []Inv
<1>1. Inv /\ [Next]_vars => Inv'
  BY TypeStep, LogStep, BudgetStep, SlotStep DEF Inv
<1>. QED BY InvInit, <1>1, PTL DEF Spec

(* The variables keep their types; the slot active_process holds a tool    *)
(* exactly while the worker reads from it or waits for it.                 *)
THEOREM ToolTypes == Spec => []TypeOK
BY InvInductive, PTL DEF Inv

(* Of the tools no outage and no shutdown has left, one lives at most.     *)
THEOREM OneToolHolds == Spec => []OneTool
<1>1. Inv => OneTool
  <2>. SUFFICES ASSUME Inv
                PROVE  Cardinality(Alive \ left) <= 1
    BY DEF OneTool
  <2>1. Alive \ left \in SUBSET {Newest}
    BY DEF Inv, SlotOK
  <2>2. IsFiniteSet({Newest}) /\ Cardinality({Newest}) = 1
    BY FS_Singleton
  <2>3. Cardinality(Alive \ left) <= Cardinality({Newest})
    BY <2>1, <2>2, FS_Subset
  <2>. QED BY <2>2, <2>3
<1>. QED BY InvInductive, <1>1, PTL

(* A shutdown that has returned leaves none but those behind.              *)
THEOREM ShutdownHolds == Spec => []ShutdownClears
<1>1. Inv => ShutdownClears
  BY DEF Inv, SlotOK, ShutdownClears, Running
<1>. QED BY InvInductive, <1>1, PTL

(* The log of a job that is over is complete up to its limit.              *)
THEOREM LogHolds == Spec => []LogComplete
<1>1. Inv => LogComplete
  <2>. SUFFICES ASSUME Inv, row \in {"succeeded", "failed"}, ~lost
                PROVE  /\ log = Smaller(received, LogLimit)
                       /\ truncated <=> received > LogLimit
    BY DEF LogComplete
  <2>1. pending = 0
    BY DEF Inv, LogOK, Running
  <2>2. received \in Nat /\ received - 0 = received
    BY ToolAssumption DEF Inv, TypeOK
  <2>. QED BY <2>1, <2>2 DEF Inv, LogOK
<1>. QED BY InvInductive, <1>1, PTL

(* A job goes on only with the whole output of a tool that ended well and  *)
(* that no shutdown has interrupted.                                       *)
THEOREM TrustHolds == Spec => TrustsWholeOutput
<1>1. Inv /\ [Next]_vars =>
        (worker = "exiting" /\ worker' = "between"
           => tools[slot].code = 0 /\ (limited => captured = output) /\ target # slot)
  <2>. SUFFICES ASSUME Inv, [Next]_vars, worker = "exiting", worker' = "between"
                PROVE  tools[slot].code = 0 /\ (limited => captured = output) /\ target # slot
    OBVIOUS
  <2>1. ReturnResult
    BY Zenon
    DEF Next, Process, Worker, Stop, CloseOutput, End, BeginJob, LeaveLoop, Launch, HandOver,
        ReadChunk, ReadEof, EndJob, LogWriteFails, BeginStop, TargetEnded, Escalate,
        TaskJoined, TaskCancelled, vars
  <2>2. Usable /\ stop = "none"
    BY <2>1 DEF ReturnResult
  <2>3. target = 0 /\ slot = Newest /\ Newest >= 1
    BY <2>2 DEF Inv, SlotOK, TypeOK, Running
  <2>4. limited => captured = output
    BY <2>2 DEF Inv, CaptureOK, Running, Usable
  <2>. QED BY <2>2, <2>3, <2>4 DEF Usable
<1>. QED BY InvInductive, <1>1, PTL DEF Spec, TrustsWholeOutput

=============================================================================

------------------------------ MODULE Schedule ------------------------------
(***************************************************************************)
(* When the scheduled smart scan runs.  The coordinator polls: it derives  *)
(* the next run from the last scan the schedule started, requests a scan   *)
(* when that time has come, and turns a request into a scan job when no    *)
(* scan is active.                                                         *)
(*                                                                         *)
(* Time is a clock that ticks, and a tick is finer than the second between *)
(* two polls: datetime.now has microseconds.  The time of day wraps round. *)
(***************************************************************************)
EXTENDS Naturals

CONSTANTS
    Day,          \* ticks in a day
    StartTime,    \* schedule_start_time
    Cadences,     \* interval settings: ticks, and whether in days or weeks
    PollPeriod,   \* most ticks between two polls
    Window,       \* LIMIT 200: scans last_scan_for_trigger looks through
    MaxOthers,    \* bound: scans other triggers ask for between two scheduled ones
    MaxCrashes    \* bound: process deaths

ASSUME TimeAssumption ==
    /\ Day \in Nat \ {0}
    /\ StartTime \in 0 .. Day - 1
    /\ Cadences \subseteq [interval : 1 .. Day, aligned : BOOLEAN]
    /\ PollPeriod \in Nat \ {0}
ASSUME BoundsAssumption == Window \in Nat \ {0} /\ MaxOthers \in Nat /\ MaxCrashes \in Nat

VARIABLES
    now,         \* time of day
    unpolled,    \* ticks since the last poll
    cadence,     \* schedule_interval_minutes and its unit
    enabled,     \* schedule_enabled
    last,        \* newest scan the schedule started: never, unfinished or finished
    finishedAt,  \* the time of day it finished,
    age,         \* and how long ago, up to MaxAge
    newer,       \* scans created after it
    request,     \* trigger of the waiting request "smart:*:*"
    scan,        \* trigger of the active scan job
    crashes      \* process deaths so far

vars == <<now, unpolled, cadence, enabled, last, finishedAt, age, newer, request, scan, crashes>>

MaxAge == Day + Day
Trigger == {"schedule", "other"}
Plus(a, b) == IF a + b > MaxAge THEN MaxAge ELSE a + b

Init ==
    /\ now \in 0 .. Day - 1
    /\ unpolled = 0
    /\ cadence \in Cadences
    /\ enabled = FALSE
    /\ last = "never"
    /\ finishedAt = 0
    /\ age = 0
    /\ newer = 0
    /\ request = "none"
    /\ scan = "none"
    /\ crashes = 0

-----------------------------------------------------------------------------
(* Operators marked "mutant" are variants with a planted bug; no action    *)
(* uses them, and each one breaks a property below.                        *)

(* _next_at_or_after, as the distance from a time of day to the start time *)
Until(time) == (StartTime + Day - time) % Day

WaitUnaligned == cadence.interval   \* mutant: forgets to align to the start time

WaitForStart == Until(finishedAt)   \* mutant: forgets the interval

(* Ticks from the end of the last scheduled scan to the next one.          *)
Wait ==
    LET earliest == (finishedAt + cadence.interval) % Day
    IN cadence.interval + (IF cadence.aligned THEN Until(earliest) ELSE 0)

(* last_scan_for_trigger reads the newest scans only.                      *)
Remembered == last # "never" /\ newer < Window

DueExactly(delay) ==   \* mutant: a poll that comes late has missed its time
    IF Remembered
    THEN last = "finished" /\ Plus(age, delay) = Wait
    ELSE Until(now) <= delay

(* run_once reads the clock twice, "delay" apart: next_schedule_at reads   *)
(* it when there is no last scan, the comparison reads it again.           *)
Due(delay) ==
    IF Remembered
    THEN last = "finished" /\ Plus(age, delay) >= Wait
    ELSE Until(now) <= delay

Advance(ticks) ==
    /\ now' = (now + ticks) % Day
    /\ age' = IF last = "finished" THEN Plus(age, ticks) ELSE age

Tick ==
    /\ unpolled < PollPeriod
    /\ unpolled' = unpolled + 1
    /\ Advance(1)
    /\ UNCHANGED <<cadence, enabled, last, finishedAt, newer, request, scan, crashes>>

CreateScanAside(trigger) ==   \* mutant: counts from the last scan that has ended
    /\ scan' = trigger
    /\ newer' = newer + 1
    /\ UNCHANGED last

(* The newest scheduled scan becomes the one to count from.                *)
CreateScan(trigger) ==
    /\ scan' = trigger
    /\ IF trigger = "schedule"
       THEN /\ last' = "unfinished"
            /\ newer' = 0
       ELSE /\ newer' = newer + 1
            /\ UNCHANGED last

(* A second request of the same key is dropped, whatever its trigger.      *)
Requests(delay) ==
    IF enabled /\ Due(delay) /\ request = "none" THEN "schedule" ELSE request

Poll ==
    /\ unpolled' = 0
    /\ \E delay \in 0 .. 1 :
          /\ Advance(delay)
          /\ IF scan # "none" \/ Requests(delay) = "none"
             THEN request' = Requests(delay) /\ UNCHANGED <<last, newer, scan>>
             ELSE request' = "none" /\ CreateScan(Requests(delay))
    /\ UNCHANGED <<cadence, enabled, finishedAt, crashes>>

(* The process dies between create_job and complete_scan_request, and the  *)
(* claimed request is pending again when it has started.                   *)
PollCutShort ==
    /\ crashes < MaxCrashes
    /\ crashes' = crashes + 1
    /\ unpolled' = 0
    /\ Advance(0)
    /\ scan = "none"
    /\ Requests(0) # "none"
    /\ request' = Requests(0)
    /\ CreateScan(Requests(0))
    /\ UNCHANGED <<cadence, enabled, finishedAt>>

(* Scans other than the schedule's: a webhook's fallback has the key of    *)
(* the schedule's request, any other request or button has not.            *)
FallbackRequest ==
    /\ newer < MaxOthers
    /\ request = "none"
    /\ request' = "other"
    /\ UNCHANGED <<now, unpolled, cadence, enabled, last, finishedAt, age, newer, scan, crashes>>

OtherScan ==
    /\ newer < MaxOthers
    /\ scan = "none"
    /\ request # "other"
    /\ CreateScan("other")
    /\ UNCHANGED <<now, unpolled, cadence, enabled, finishedAt, age, request, crashes>>

(* However a scan ends, finished_at is set.                                *)
EndScan ==
    /\ scan # "none"
    /\ scan' = "none"
    /\ IF scan = "schedule"
       THEN /\ last' = "finished"
            /\ finishedAt' = now
            /\ age' = 0
       ELSE UNCHANGED <<last, finishedAt, age>>
    /\ UNCHANGED <<now, unpolled, cadence, enabled, newer, request, crashes>>

SaveSettings ==
    /\ enabled' = ~enabled
    /\ UNCHANGED <<now, unpolled, cadence, last, finishedAt, age, newer, request, scan, crashes>>

-----------------------------------------------------------------------------
Next ==
    \/ Tick \/ Poll \/ PollCutShort
    \/ FallbackRequest \/ OtherScan \/ EndScan \/ SaveSettings

(* Time passes, the coordinator's task polls in time, scans end.           *)
Fairness == WF_vars(Tick) /\ WF_vars(Poll) /\ WF_vars(EndScan)

Spec == Init /\ [][Next]_vars
FairSpec == Spec /\ Fairness

-----------------------------------------------------------------------------
(* Values in range, and the scan that runs for the schedule is its last.   *)
TypeOK ==
    /\ now \in 0 .. Day - 1
    /\ unpolled \in 0 .. PollPeriod
    /\ cadence \in Cadences
    /\ enabled \in BOOLEAN
    /\ last \in {"never", "unfinished", "finished"}
    /\ finishedAt \in 0 .. Day - 1
    /\ age \in 0 .. MaxAge
    /\ newer \in 0 .. MaxOthers + MaxCrashes
    /\ {request, scan} \subseteq Trigger \cup {"none"}
    /\ last = "unfinished" <=> scan = "schedule"
    /\ crashes \in 0 .. MaxCrashes

(* settings.html:104, "Controls how long the scheduler waits after a       *)
(* scheduled Smart Scan completes": however requests of the same key meet  *)
(* and the clock moves on, a scheduled scan starts an interval after the   *)
(* one before it has ended, and not sooner.  A death of the process may    *)
(* leave the request of a scan that exists, which then runs once more; and *)
(* after Window other scans the schedule no longer knows of its last one.  *)
IntervalRespected ==
    [][scan = "none" /\ scan' = "schedule" /\ Remembered /\ crashes = 0
          => age' >= cadence.interval]_vars

(* settings.html:108, "Daily and weekly schedules align to this time": a   *)
(* scheduled scan never starts before a start time has come round since    *)
(* its interval ran out, with the same exceptions.                         *)
StartsAligned ==
    [][scan = "none" /\ scan' = "schedule" /\ Remembered /\ crashes = 0 /\ cadence.aligned
          => age' >= cadence.interval + Until((finishedAt + cadence.interval) % Day)]_vars

(* settings.html:104, "Runs after the previous scheduled scan finishes":   *)
(* while the schedule stays enabled, a scheduled scan that has finished is *)
(* followed by another one, unless Window other scans come first: from     *)
(* then on the schedule is the one that never ran (EnablingQueuesScan).    *)
ScheduleKeepsPace ==
    last = "finished" /\ enabled ~> scan = "schedule" \/ ~enabled \/ newer >= Window

(* settings.html:100, "Enabling it queues an initial Smart Scan."          *)
EnablingQueuesScan == last = "never" /\ enabled ~> scan = "schedule" \/ ~enabled

=============================================================================

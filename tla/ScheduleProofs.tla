--------------------------- MODULE ScheduleProofs ---------------------------
(***************************************************************************)
(* Theorems about Schedule: the type invariant and the two promises of the *)
(* settings page, for every length of a day, interval, start time and poll *)
(* period.  A request of the schedule may wait while another scan runs, so *)
(* the promises rest on an invariant about the waiting request: it was due *)
(* when it was made, and has been due ever since.                          *)
(***************************************************************************)
EXTENDS Schedule, TLAPS

-----------------------------------------------------------------------------
(* The time of day.                                                        *)
LEMMA TimeOfDay ==
    ASSUME NEW n \in Nat
    PROVE  n % Day \in 0 .. Day - 1
BY TimeAssumption

LEMMA UntilRange ==
    ASSUME NEW t \in 0 .. Day - 1
    PROVE  Until(t) \in 0 .. Day - 1
<1>1. StartTime + Day - t \in Nat
  BY TimeAssumption
<1> QED
  BY <1>1, TimeOfDay DEF Until

LEMMA PlusRange ==
    ASSUME NEW a \in 0 .. MaxAge, NEW b \in Nat
    PROVE  Plus(a, b) \in 0 .. MaxAge /\ Plus(a, b) >= a
BY TimeAssumption DEF Plus, MaxAge

-----------------------------------------------------------------------------
(* The scans that others start are counted, and a request of theirs has    *)
(* left room for its scan.  A death of the process leaves the request of a *)
(* scan it has created, which then counts twice.                           *)
CountOK ==
    /\ newer <= MaxOthers + crashes
    /\ request = "other" => newer < MaxOthers + crashes

(* While no process has died and the last scheduled scan is among those    *)
(* looked through, a waiting request of the schedule is its first, or the  *)
(* interval has passed and the start time has come round.                  *)
RequestDue ==
    crashes = 0 /\ request = "schedule" /\ newer < Window
        => \/ last = "never"
           \/ last = "finished" /\ age >= Wait

Inv == TypeOK /\ CountOK

(* What the guard and the assignments of a poll make of the request.       *)
LEMMA RequestsRange ==
    ASSUME TypeOK, NEW delay \in 0 .. 1
    PROVE  /\ Requests(delay) \in {"schedule", "other", "none"}
           /\ Requests(delay) = "other" => request = "other"
BY DEF Requests, TypeOK, Trigger

LEMMA AdvanceRange ==
    ASSUME TypeOK, NEW delay \in 0 .. 1, Advance(delay)
    PROVE  /\ now' \in 0 .. Day - 1
           /\ age' \in 0 .. MaxAge
           /\ age' >= age
<1>1. now + delay \in Nat
  BY TimeAssumption DEF TypeOK
<1>2. (now + delay) % Day \in 0 .. Day - 1
  BY <1>1, TimeOfDay
<1>3. Plus(age, delay) \in 0 .. MaxAge /\ Plus(age, delay) >= age
  <2>1. age \in 0 .. MaxAge /\ delay \in Nat
    BY DEF TypeOK
  <2> QED
    BY <2>1, PlusRange
<1>4. age \in Nat
  BY DEF TypeOK, MaxAge
<1> QED
  BY <1>2, <1>3, <1>4 DEF Advance, TypeOK

LEMMA InitInv == Init => Inv
<1> SUFFICES ASSUME Init PROVE Inv
  OBVIOUS
<1>1. CountOK
  BY BoundsAssumption DEF Init, CountOK
<1>2. 0 \in 0 .. Day - 1 /\ 0 \in 0 .. PollPeriod /\ 0 \in 0 .. MaxAge
  BY TimeAssumption DEF MaxAge
<1>3. 0 \in 0 .. MaxOthers + MaxCrashes /\ 0 \in 0 .. MaxCrashes
  BY BoundsAssumption
<1>4. TypeOK
  BY <1>2, <1>3 DEF Init, TypeOK, Trigger
<1> QED
  BY <1>1, <1>4 DEF Inv

(* A new scan keeps the counts and is the last of its trigger.             *)
LEMMA CreateScanKeeps ==
    ASSUME Inv, scan = "none", NEW trigger \in Trigger, CreateScan(trigger),
           trigger = "other" => newer < MaxOthers + crashes
    PROVE  /\ scan' = trigger
           /\ last' \in {"never", "unfinished", "finished"}
           /\ last' = "unfinished" <=> scan' = "schedule"
           /\ newer' \in Nat
           /\ newer' <= MaxOthers + crashes
           /\ trigger = "other" => newer' = newer + 1
           /\ trigger = "schedule" => newer' = 0
<1>1. CASE trigger = "schedule"
  BY <1>1, BoundsAssumption DEF Inv, TypeOK, CountOK, CreateScan
<1>2. CASE trigger = "other"
  BY <1>2, BoundsAssumption DEF Inv, TypeOK, CountOK, CreateScan
<1> QED
  BY <1>1, <1>2 DEF Trigger

LEMMA PollKeepsInv == Inv /\ Poll => Inv'
<1> SUFFICES ASSUME Inv, Poll PROVE Inv'
  OBVIOUS
<1> PICK delay \in 0 .. 1 :
      /\ Advance(delay)
      /\ IF scan # "none" \/ Requests(delay) = "none"
         THEN request' = Requests(delay) /\ UNCHANGED <<last, newer, scan>>
         ELSE request' = "none" /\ CreateScan(Requests(delay))
  BY DEF Poll
<1>1. /\ now' \in 0 .. Day - 1
      /\ age' \in 0 .. MaxAge
  BY AdvanceRange DEF Inv
<1>2. /\ Requests(delay) \in {"schedule", "other", "none"}
      /\ Requests(delay) = "other" => request = "other"
  BY RequestsRange DEF Inv
<1>3. UNCHANGED <<cadence, enabled, finishedAt, crashes>> /\ unpolled' = 0
  BY DEF Poll
<1>4. unpolled' \in 0 .. PollPeriod
  BY <1>3, TimeAssumption
<1>5. CASE scan # "none" \/ Requests(delay) = "none"
  BY <1>1, <1>2, <1>3, <1>4, <1>5 DEF Inv, TypeOK, CountOK, Trigger
<1>6. CASE scan = "none" /\ Requests(delay) # "none"
  <2>1. Requests(delay) \in Trigger /\ CreateScan(Requests(delay)) /\ request' = "none"
    BY <1>2, <1>6 DEF Trigger
  <2>2. /\ scan' \in Trigger
        /\ last' \in {"never", "unfinished", "finished"}
        /\ last' = "unfinished" <=> scan' = "schedule"
        /\ newer' \in Nat
        /\ newer' <= MaxOthers + crashes
    BY <1>2, <1>6, <2>1, CreateScanKeeps DEF Inv, CountOK
  <2> QED
    BY <1>1, <1>3, <1>4, <2>1, <2>2, BoundsAssumption DEF Inv, TypeOK, CountOK, Trigger
<1> QED
  BY <1>5, <1>6

LEMMA PollCutShortKeepsInv == Inv /\ PollCutShort => Inv'
<1> SUFFICES ASSUME Inv, PollCutShort PROVE Inv'
  OBVIOUS
<1>1. /\ now' \in 0 .. Day - 1
      /\ age' \in 0 .. MaxAge
  BY AdvanceRange DEF Inv, PollCutShort
<1>2. /\ Requests(0) \in Trigger
      /\ Requests(0) = "other" => request = "other"
  BY RequestsRange DEF Inv, PollCutShort, Trigger
<1>3. /\ UNCHANGED <<cadence, enabled, finishedAt>>
      /\ unpolled' = 0 /\ crashes < MaxCrashes /\ crashes' = crashes + 1
      /\ scan = "none" /\ request' = Requests(0) /\ CreateScan(Requests(0))
  BY DEF PollCutShort
<1>4. unpolled' \in 0 .. PollPeriod /\ crashes' \in 0 .. MaxCrashes
  BY <1>3, TimeAssumption, BoundsAssumption DEF Inv, TypeOK
<1>5. Requests(0) = "other" => newer < MaxOthers + crashes
  BY <1>2 DEF Inv, CountOK
<1>6. /\ scan' = Requests(0)
      /\ last' \in {"never", "unfinished", "finished"}
      /\ last' = "unfinished" <=> scan' = "schedule"
      /\ newer' \in Nat
      /\ newer' <= MaxOthers + crashes
  BY <1>2, <1>3, <1>5, CreateScanKeeps
<1>7. CountOK'
  BY <1>3, <1>6, BoundsAssumption DEF Inv, TypeOK, CountOK
<1>8. newer' \in 0 .. MaxOthers + MaxCrashes
  BY <1>3, <1>4, <1>6, BoundsAssumption DEF Inv, TypeOK
<1>9. TypeOK'
  BY <1>1, <1>2, <1>3, <1>4, <1>6, <1>8 DEF Inv, TypeOK, Trigger
<1> QED
  BY <1>7, <1>9 DEF Inv

LEMMA NextKeepsInv == Inv /\ [Next]_vars => Inv'
<1> SUFFICES ASSUME Inv, [Next]_vars PROVE Inv'
  OBVIOUS
<1>1. CASE Tick
  <2>1. now' \in 0 .. Day - 1 /\ age' \in 0 .. MaxAge
    BY <1>1, AdvanceRange DEF Inv, Tick
  <2>2. unpolled' \in 0 .. PollPeriod
    BY <1>1, TimeAssumption DEF Inv, TypeOK, Tick
  <2> QED
    BY <1>1, <2>1, <2>2 DEF Tick, Inv, TypeOK, CountOK
<1>2. CASE Poll
  BY <1>2, PollKeepsInv
<1>3. CASE PollCutShort
  BY <1>3, PollCutShortKeepsInv
<1>4. CASE FallbackRequest
  BY <1>4, BoundsAssumption DEF FallbackRequest, Inv, TypeOK, CountOK, Trigger
<1>5. CASE OtherScan
  <2>1. newer < MaxOthers + crashes
    BY <1>5, BoundsAssumption DEF OtherScan, Inv, TypeOK
  <2>2. /\ scan' = "other"
        /\ last' \in {"never", "unfinished", "finished"}
        /\ last' = "unfinished" <=> scan' = "schedule"
        /\ newer' \in Nat
        /\ newer' <= MaxOthers + crashes
    BY <1>5, <2>1, CreateScanKeeps DEF OtherScan, Trigger
  <2> QED
    BY <1>5, <2>2, BoundsAssumption DEF OtherScan, Inv, TypeOK, CountOK, Trigger
<1>6. CASE EndScan
  <2>1. CASE scan = "schedule"
    BY <1>6, <2>1, TimeAssumption DEF EndScan, Inv, TypeOK, CountOK, Trigger, MaxAge
  <2>2. CASE scan # "schedule"
    BY <1>6, <2>2 DEF EndScan, Inv, TypeOK, CountOK, Trigger
  <2> QED
    BY <2>1, <2>2
<1>7. CASE SaveSettings
  BY <1>7 DEF SaveSettings, Inv, TypeOK, CountOK
<1>8. CASE UNCHANGED vars
  BY <1>8 DEF vars, Inv, TypeOK, CountOK
<1> QED
  BY <1>1, <1>2, <1>3, <1>4, <1>5, <1>6, <1>7, <1>8 DEF Next

(* Every reachable state of the schedule is well typed, and the scan that  *)
(* runs for it is the last scan it counts from.                            *)
THEOREM ScheduleTypes == Spec => []TypeOK
<1>1. Inv => TypeOK
  BY DEF Inv
<1> QED
  BY InitInv, NextKeepsInv, <1>1, PTL DEF Spec

(* The parts of a wait.                                                    *)
LEMMA WaitParts ==
    ASSUME Inv
    PROVE  /\ Wait >= cadence.interval
           /\ cadence.aligned => Wait = cadence.interval
                                       + Until((finishedAt + cadence.interval) % Day)
           /\ Wait \in Nat
           /\ cadence.interval \in Nat
<1>1. cadence.interval \in 1 .. Day /\ finishedAt \in 0 .. Day - 1
  BY TimeAssumption DEF Inv, TypeOK
<1>2. (finishedAt + cadence.interval) % Day \in 0 .. Day - 1
  BY <1>1, TimeOfDay, TimeAssumption
<1>3. Until((finishedAt + cadence.interval) % Day) \in Nat
  BY <1>2, UntilRange
<1> QED
  BY <1>1, <1>3 DEF Wait

-----------------------------------------------------------------------------
(* While fewer than Window scans of others have come after it, the last    *)
(* scheduled scan is remembered, so that a request of the schedule is due  *)
(* when it is made.                                                        *)
LEMMA DueWhenRequested ==
    ASSUME newer < Window, Inv, RequestDue, crashes = 0,
           NEW delay \in 0 .. 1, Advance(delay), Requests(delay) = "schedule"
    PROVE  \/ last = "never"
           \/ last = "finished" /\ age' >= Wait
<1>1. age' >= age /\ age \in Nat /\ age' \in Nat
  BY AdvanceRange DEF Inv, TypeOK, MaxAge
<1>2. Wait \in Nat
  BY WaitParts
<1>3. CASE request = "schedule"
  BY <1>1, <1>2, <1>3 DEF RequestDue
<1>4. CASE request # "schedule"
  <2>1. Due(delay)
    BY <1>4 DEF Requests
  <2> QED
    BY <2>1 DEF Due, Remembered, Advance
<1> QED
  BY <1>3, <1>4

(* A request that waits stays due: the clock goes on, and what it counts   *)
(* from does not change before its scan begins.                            *)
LEMMA NextKeepsRequestDue ==
    ASSUME Inv, RequestDue, [Next]_vars
    PROVE  RequestDue'
<1> SUFFICES ASSUME crashes' = 0, request' = "schedule", newer' < Window
             PROVE  \/ last' = "never"
                    \/ last' = "finished" /\ age' >= Wait'
  BY DEF RequestDue
<1>1. ASSUME UNCHANGED <<finishedAt, cadence>>
      PROVE  Wait' = Wait
  BY <1>1 DEF Wait, Until
<1>2. /\ age \in Nat
      /\ scan = "schedule" <=> last = "unfinished"
      /\ crashes \in Nat /\ newer \in Nat
  BY BoundsAssumption DEF Inv, TypeOK, MaxAge
<1>3. CASE Tick
  <2>1. age' >= age /\ age' \in Nat
    BY <1>3, AdvanceRange DEF Inv, Tick, MaxAge
  <2>2. Wait' = Wait
    BY <1>1, <1>3 DEF Tick
  <2>3. UNCHANGED <<crashes, request, newer, last>>
    BY <1>3 DEF Tick
  <2>4. last = "finished" => age' >= Wait
    <3>1. CASE last = "finished"
      <4>1. age >= Wait
        BY <2>3, <3>1 DEF RequestDue
      <4>2. Wait \in Nat
        BY WaitParts
      <4> QED
        BY <1>2, <2>1, <4>1, <4>2
    <3> QED
      BY <3>1
  <2> QED
    BY <2>2, <2>3, <2>4 DEF RequestDue
<1>4. CASE Poll
  <2> PICK delay \in 0 .. 1 :
        /\ Advance(delay)
        /\ IF scan # "none" \/ Requests(delay) = "none"
           THEN request' = Requests(delay) /\ UNCHANGED <<last, newer, scan>>
           ELSE request' = "none" /\ CreateScan(Requests(delay))
    BY <1>4 DEF Poll
  <2>1. crashes = 0 /\ Wait' = Wait
    BY <1>1, <1>4 DEF Poll
  <2>2. request' = Requests(delay) /\ last' = last /\ newer' = newer
    OBVIOUS
  <2> QED
    BY <2>1, <2>2, DueWhenRequested
<1>5. CASE PollCutShort
  BY <1>2, <1>5 DEF PollCutShort
<1>6. CASE FallbackRequest
  BY <1>6 DEF FallbackRequest
<1>7. CASE OtherScan
  <2>1. Wait' = Wait
    BY <1>1, <1>7 DEF OtherScan
  <2> QED
    BY <1>2, <1>7, <2>1, BoundsAssumption DEF OtherScan, CreateScan, RequestDue
<1>8. CASE EndScan
  <2>1. crashes = 0 /\ request = "schedule" /\ newer < Window
    BY <1>8 DEF EndScan
  <2>2. last # "unfinished"
    BY <2>1 DEF RequestDue
  <2>3. UNCHANGED <<last, finishedAt, age, cadence>>
    BY <1>2, <1>8, <2>2 DEF EndScan
  <2> QED
    BY <1>1, <2>1, <2>3 DEF RequestDue
<1>9. CASE SaveSettings
  <2>1. Wait' = Wait
    BY <1>1, <1>9 DEF SaveSettings
  <2> QED
    BY <1>9, <2>1 DEF SaveSettings, RequestDue
<1>10. CASE UNCHANGED vars
  <2>1. Wait' = Wait
    BY <1>1, <1>10 DEF vars
  <2> QED
    BY <1>10, <2>1 DEF vars, RequestDue
<1> QED
  BY <1>3, <1>4, <1>5, <1>6, <1>7, <1>8, <1>9, <1>10 DEF Next

(* What a step that starts a scan for the schedule knows.                  *)
LEMMA StartIsDue ==
    ASSUME Inv, RequestDue, [Next]_vars,
           scan = "none", scan' = "schedule", Remembered, crashes = 0
    PROVE  last = "finished" /\ age' >= Wait
<1>1. Poll \/ PollCutShort
  BY DEF Next, vars, Tick, FallbackRequest, OtherScan, CreateScan, EndScan, SaveSettings
<1>2. PICK delay \in 0 .. 1 : Advance(delay) /\ Requests(delay) = "schedule"
  BY <1>1 DEF Poll, PollCutShort, CreateScan
<1> QED
  BY <1>2, DueWhenRequested DEF Remembered

LEMMA InvHolds == Spec => [](Inv /\ RequestDue)
<1>1. Init => Inv /\ RequestDue
  BY InitInv DEF Init, RequestDue
<1>2. Inv /\ RequestDue /\ [Next]_vars => (Inv /\ RequestDue)'
  BY NextKeepsInv, NextKeepsRequestDue
<1> QED
  BY <1>1, <1>2, PTL DEF Spec

(* A scheduled scan starts an interval after the one before it has ended   *)
(* and no sooner, however requests, other scans, polls and switches of the *)
(* setting meet, if the others started fewer scans than the window holds   *)
(* since then and the process has not died.                                *)
THEOREM IntervalHolds == Spec => IntervalRespected
<1>1. Inv /\ RequestDue /\ [Next]_vars
        => [scan = "none" /\ scan' = "schedule" /\ Remembered /\ crashes = 0
               => age' >= cadence.interval]_vars
  <2> SUFFICES ASSUME Inv, RequestDue, [Next]_vars,
                      scan = "none", scan' = "schedule", Remembered, crashes = 0
               PROVE  age' >= cadence.interval
    OBVIOUS
  <2>1. age' >= Wait
    BY StartIsDue
  <2>2. age' \in Nat
    BY NextKeepsInv DEF Inv, TypeOK, MaxAge
  <2> QED
    BY <2>1, <2>2, WaitParts
<1> QED
  BY <1>1, InvHolds, PTL DEF Spec, IntervalRespected

(* A scheduled scan of an aligned schedule starts no sooner than a start   *)
(* time has come round after its interval, under the same conditions.      *)
THEOREM AlignmentHolds == Spec => StartsAligned
<1>1. Inv /\ RequestDue /\ [Next]_vars
        => [scan = "none" /\ scan' = "schedule" /\ Remembered /\ crashes = 0 /\ cadence.aligned
               => age' >= cadence.interval + Until((finishedAt + cadence.interval) % Day)]_vars
  <2> SUFFICES ASSUME Inv, RequestDue, [Next]_vars,
                      scan = "none", scan' = "schedule", Remembered, crashes = 0,
                      cadence.aligned
               PROVE  age' >= cadence.interval + Until((finishedAt + cadence.interval) % Day)
    OBVIOUS
  <2>1. age' >= Wait
    BY StartIsDue
  <2> QED
    BY <2>1, WaitParts
<1> QED
  BY <1>1, InvHolds, PTL DEF Spec, StartsAligned

=============================================================================

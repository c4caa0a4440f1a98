-------------------------- MODULE RetentionProofs --------------------------
(***************************************************************************)
(* What is saved is what is read, for every form and every earlier store;  *)
(* and a backup is kept until it is due, for every number of files and     *)
(* deletions, every length of a day and every clock.                       *)
(***************************************************************************)
EXTENDS Retention, TLAPS

LEMMA FactorWithin ==
    ASSUME NEW value \in Int, NEW unit \in {1, 60, 1440, 10080}, NEW most \in Nat,
           value * unit \in 5 .. most
    PROVE  value \in 1 .. most
<1>1. CASE unit = 1
  BY <1>1
<1>2. CASE unit = 60
  BY <1>2
<1>3. CASE unit = 1440
  BY <1>3
<1>4. CASE unit = 10080
  BY <1>4
<1>. QED BY <1>1, <1>2, <1>3, <1>4

(* A form that is accepted is read back as it was written: its interval,   *)
(* its start and its numbers pass the limits of load.                      *)
LEMMA IntervalOfForm ==
    ASSUME NEW current, NEW form \in Forms, Accepts(current, form)
    PROVE  Interval(Written(form)) =
              [value |-> form.value, unit |-> form.unit,
               minutes |-> form.value * UnitMinutes[form.unit]]
<1>. DEFINE s == Written(form)
<1>1. /\ "value" \in DOMAIN s /\ s["value"] = form.value
      /\ "unit" \in DOMAIN s /\ s["unit"] = form.unit
  BY DEF Written
<1>2. /\ form.value \in Int
      /\ form.unit \in Unit
      /\ form.value * UnitMinutes[form.unit] \in 5 .. MaxScheduleMinutes
  BY FormsAssumption DEF Accepts
<1>3. /\ UnitMinutes[form.unit] \in {1, 60, 1440, 10080}
      /\ form.unit \in {"minutes", "hours", "days", "weeks"}
  BY <1>2 DEF Unit, UnitMinutes
<1>4. form.value \in 1 .. MaxScheduleMinutes
  <2>1. MaxScheduleMinutes \in Nat
    BY DEF MaxScheduleMinutes
  <2>. QED BY <1>2, <1>3, <2>1, FactorWithin
<1>5. StoredUnit(s) = form.unit
  BY <1>1, <1>2 DEF StoredUnit
<1>6. StoredInt(s, "value", LegacyMinutes(s), 1, MaxScheduleMinutes) = form.value
  BY <1>1, <1>4 DEF StoredInt
<1>. QED BY <1>2, <1>5, <1>6 DEF Interval

LEMMA SavedIsLoaded ==
    ASSUME NEW current, NEW form \in Forms, Accepts(current, form)
    PROVE  \A key \in DOMAIN Written(form) : Load(Written(form))[key] = Written(form)[key]
<1>. DEFINE s == Written(form)
            w == [value |-> form.value, unit |-> form.unit,
                  minutes |-> form.value * UnitMinutes[form.unit]]
<1>1. DOMAIN s = {"retention", "depth", "value", "unit", "minutes", "start", "archive",
                  "compactOnly", "autoQueue", "gate", "inspect", "override", "webhooks", "prefix"}
  BY DEF Written
<1>2. /\ Load(s).retention = s.retention
      /\ Load(s).depth = s.depth
  BY <1>1 DEF Load, StoredInt, Accepts, Written
<1>3. /\ Load(s).value = s.value
      /\ Load(s).unit = s.unit
      /\ Load(s).minutes = s.minutes
  <2>1. Interval(s) = w
    BY IntervalOfForm
  <2>2. Load(s).value = Interval(s).value /\ Load(s).unit = Interval(s).unit
           /\ Load(s).minutes = Interval(s).minutes
    BY DEF Load
  <2>3. s.value = form.value /\ s.unit = form.unit
           /\ s.minutes = form.value * UnitMinutes[form.unit]
    BY DEF Written
  <2>. QED BY <2>1, <2>2, <2>3
<1>4. Load(s).start = s.start
  BY <1>1 DEF Load, StoredStart, Accepts, Written
<1>5. \A key \in {"archive", "compactOnly", "autoQueue", "gate", "inspect", "override", "webhooks"} :
          Load(s)[key] = s[key]
  BY <1>1 DEF Load, StoredBool
<1>6. Load(s).prefix = s.prefix
  BY <1>1 DEF Load, StoredPrefix
<1>. QED BY <1>1, <1>2, <1>3, <1>4, <1>5, <1>6

(* No default takes the place of a saved value, whatever is submitted, in  *)
(* which order and between which other steps.                              *)
THEOREM SavedValuesAreRead == Spec => []NoFallback
<1>1. Init => NoFallback
  BY OldStoresAssumption DEF Init, ConfigurationInit, NoFallback
<1>2. NoFallback /\ [Next]_vars => NoFallback'
  <2>. SUFFICES ASSUME NoFallback, [Next]_vars
                PROVE  NoFallback'
    OBVIOUS
  <2>1. CASE UNCHANGED configuration
    BY <2>1 DEF configuration, NoFallback
  <2>2. ASSUME NEW form \in Forms, Submit(form)
        PROVE  NoFallback'
    <3>1. Accepts(Load(store), form) /\ store' = Written(form)
      BY <2>2 DEF Submit, SaveSettings
    <3>2. \A key \in DOMAIN Written(form) : Load(Written(form))[key] = Written(form)[key]
      BY <3>1, SavedIsLoaded
    <3>. QED BY <3>1, <3>2 DEF NoFallback
  <2>3. CASE UNCHANGED store
    BY <2>3 DEF NoFallback
  <2>. QED
    BY <2>1, <2>2, <2>3
    DEF Next, World, Tick, SetClockBack, Convert, MoveMovie, RemoveBackup, ReplaceBackup,
        BeginApproval, Approve, Refuse, BeginDeletion, LookAtDisk, FinishDeletion,
        CancelDeletion, Restart, MigrateLegacyMapping, vars
<1>. QED BY <1>1, <1>2, PTL DEF Spec


-----------------------------------------------------------------------------
(* Every setting that a deletion reads is within its limits.               *)
LEMMA LoadedLimits ==
    ASSUME store \in OldStores \cup {Written(form) : form \in Forms}
    PROVE  /\ Load(store).retention \in Nat \ {0}
           /\ Load(store).override \in BOOLEAN
<1>1. Load(store).retention = StoredInt(store, "retention", DefaultRetention, 1, 3650)
  BY DEF Load
<1>2. Load(store).retention \in Nat \ {0}
  <2>1. \A n \in 1 .. 3650 : n \in Nat \ {0}
    OBVIOUS
  <2>2. DefaultRetention \in Nat \ {0}
    BY DefaultsAssumption
  <2>3. CASE "retention" \in DOMAIN store /\ store["retention"] \in 1 .. 3650
    <3>1. Load(store).retention = store["retention"]
      BY <1>1, <2>3 DEF StoredInt
    <3>2. store["retention"] \in Nat \ {0}
      <4>. DEFINE n == store["retention"]
      <4>1. n \in 1 .. 3650
        BY <2>3
      <4>. HIDE DEF n
      <4>2. n \in Nat \ {0}
        BY <4>1
      <4>. QED BY <4>2 DEF n
    <3>. QED BY <3>1, <3>2
  <2>4. CASE ~("retention" \in DOMAIN store /\ store["retention"] \in 1 .. 3650)
    BY <1>1, <2>2, <2>4 DEF StoredInt
  <2>. QED BY <2>3, <2>4
<1>3. CASE store \in OldStores
  BY <1>2, <1>3, OldStoresAssumption
<1>4. ASSUME NEW form \in Forms, store = Written(form)
      PROVE  Load(store).override \in BOOLEAN
  <2>1. Load(store).override = StoredBool(store, "override", FALSE)
    BY DEF Load
  <2>2. "override" \in DOMAIN Written(form) /\ Written(form)["override"] = form.override
    BY DEF Written
  <2>. QED BY <1>4, <2>1, <2>2, FormsAssumption DEF StoredBool
<1>. QED BY <1>2, <1>3, <1>4

(* The deletion job reads no other retention.                              *)
LEMMA JobReadsLimits ==
    ASSUME store \in OldStores \cup {Written(form) : form \in Forms}, NoFallback
    PROVE  StoredRetention(store) \in Nat \ {0}
<1>1. CASE "retention" \in DOMAIN store
  <2>1. Load(store)["retention"] = store["retention"]
    BY <1>1 DEF NoFallback
  <2>2. StoredRetention(store) = store["retention"]
    BY <1>1 DEF StoredRetention
  <2>. QED BY <2>1, <2>2, LoadedLimits
<1>2. CASE "retention" \notin DOMAIN store
  BY <1>2, DefaultsAssumption DEF StoredRetention
<1>. QED BY <1>1, <1>2

LEMMA TypeOKInit == Init => TypeOK
<1>. SUFFICES ASSUME Init
              PROVE  TypeOK
  OBVIOUS
<1>. USE RetentionBounds DEF Init
<1>1. NoBackup \in [Kind -> File \cup {NoFile}] /\ \A kind \in Kind : NoBackup[kind].id = 0
  BY DEF NoBackup, NoFile
<1>2. /\ now \in 0 .. MaxTime /\ setBack \in 0 .. MaxBack
      /\ files \in 0 .. MaxFiles /\ asked \in 0 .. MaxDeletions
  OBVIOUS
<1>3. approving \in [kinds : SUBSET Kind, retention : Nat, override : BOOLEAN]
  BY DEF NotApproving
<1>4. look \in [time : 0 .. MaxTime, retention : Nat, movie : BOOLEAN,
              backup : [Kind -> File \cup {NoFile}], looked : BOOLEAN]
  BY <1>1, <1>2 DEF NoLook
<1>5. /\ queue \in Seq(SUBSET Item) /\ deleting \subseteq Item
      /\ \A n \in 1 .. Len(queue) : queue[n] # {} /\ OneFileEach(queue[n])
      /\ OneFileEach(deleting)
  BY DEF OneFileEach
<1>6. backup \in [Kind -> File \cup {NoFile}] /\ \A kind \in Kind : backup[kind].id <= files
  BY <1>1
<1>7. mappings \in {"none"} \cup Prefixes
  BY DEF ConfigurationInit, Prefixes
<1>. QED BY <1>2, <1>3, <1>4, <1>5, <1>6, <1>7 DEF ConfigurationInit, TypeOK

LEMMA TypeOKSettings ==
    ASSUME TypeOK, NEW form \in Forms, Submit(form)
    PROVE  TypeOK'
<1>1. mappings' \in {mappings, form.rows, form.prefix}
  BY DEF Submit, SaveSettings, Submitted
<1>2. token' \in BOOLEAN /\ store' = Written(form)
  BY DEF Submit, SaveSettings
<1>. QED BY <1>1, <1>2 DEF TypeOK, Submit, Prefixes, clock, disk, OneFileEach

LEMMA TypeOKRestart ==
    ASSUME TypeOK, Restart
    PROVE  TypeOK'
<1>1. NoBackup \in [Kind -> File \cup {NoFile}]
  BY DEF NoBackup
<1>2. /\ look' \in [time : 0 .. MaxTime, retention : Nat, movie : BOOLEAN,
                    backup : [Kind -> File \cup {NoFile}], looked : BOOLEAN]
      /\ approving' \in [kinds : SUBSET Kind, retention : Nat, override : BOOLEAN]
      /\ deleting' = {} /\ look' = NoLook
  BY <1>1, RetentionBounds DEF Restart, NoLook, NotApproving
<1>3. StoredPrefix(store) \in Prefixes
  <2>1. ASSUME NEW form \in Forms, store = Written(form)
        PROVE  StoredPrefix(store) = form.prefix
    BY <2>1 DEF StoredPrefix, Written
  <2>. QED BY <2>1 DEF TypeOK, Prefixes
<1>4. /\ mappings' \in {mappings, StoredPrefix(store)}
      /\ UNCHANGED <<store, token, now, setBack, movie, backup, files, queue, asked>>
  BY DEF Restart, MigrateLegacyMapping, clock, disk
<1>. QED BY <1>2, <1>3, <1>4 DEF TypeOK, OneFileEach

LEMMA TypeOKWorld ==
    ASSUME TypeOK, World
    PROVE  TypeOK'
<1>. USE RetentionBounds DEF configuration, clock, disk
<1>1. CASE Tick
  BY <1>1 DEF TypeOK, Tick, OneFileEach
<1>2. CASE SetClockBack
  BY <1>2 DEF TypeOK, SetClockBack, OneFileEach
<1>3. CASE MoveMovie
  BY <1>3 DEF TypeOK, MoveMovie, OneFileEach
<1>4. CASE Convert
  <2>1. PICK original \in {0, now} :
          backup' = [kind \in Kind |->
              IF kind \notin Kept THEN NoFile
              ELSE IF kind = "full" THEN [id |-> files + 1, modified |-> original]
              ELSE [id |-> files + Made, modified |-> now]]
    BY <1>4 DEF Convert
  <2>2. /\ Made \in {1, 2}
        /\ files \in 0 .. MaxFiles
        /\ files' \in 0 .. MaxFiles
        /\ files' = files + Made
        /\ now \in 0 .. MaxTime
        /\ original \in 0 .. MaxTime
    BY <1>4 DEF Convert, TypeOK, Made
  <2>3. /\ [id |-> files + 1, modified |-> original] \in File
        /\ [id |-> files + Made, modified |-> now] \in File
    BY <2>2 DEF File
  <2>4. \A kind \in Kind : backup'[kind] \in File \cup {NoFile} /\ backup'[kind].id <= files'
    BY <2>1, <2>2, <2>3 DEF NoFile
  <2>5. backup' \in [Kind -> File \cup {NoFile}]
    BY <2>1, <2>4
  <2>. QED BY <1>4, <2>2, <2>4, <2>5 DEF TypeOK, Convert, OneFileEach
<1>5. ASSUME NEW kind \in Kind, RemoveBackup(kind)
      PROVE  TypeOK'
  BY <1>5 DEF TypeOK, RemoveBackup, NoFile, OneFileEach
<1>6. ASSUME NEW kind \in Kind, ReplaceBackup(kind)
      PROVE  TypeOK'
  <2>1. [id |-> files + 1, modified |-> now] \in File /\ files' \in 0 .. MaxFiles
    BY <1>6 DEF TypeOK, ReplaceBackup, File
  <2>2. backup' \in [Kind -> File \cup {NoFile}]
    BY <1>6, <2>1 DEF TypeOK, ReplaceBackup
  <2>3. \A k \in Kind : backup'[k].id <= files'
    BY <1>6, <2>1, <2>2 DEF TypeOK, ReplaceBackup, File, NoFile
  <2>. QED BY <1>6, <2>1, <2>2, <2>3 DEF TypeOK, ReplaceBackup, OneFileEach
<1>. QED BY <1>1, <1>2, <1>3, <1>4, <1>5, <1>6 DEF World


LEMMA TypeOKApproval ==
    ASSUME TypeOK, (\E kinds \in (SUBSET Kind) \ {{}} : BeginApproval(kinds)) \/ Approve \/ Refuse
    PROVE  TypeOK'
<1>. USE RetentionBounds DEF configuration, clock, disk
<1>1. ASSUME NEW kinds \in (SUBSET Kind) \ {{}}, BeginApproval(kinds)
      PROVE  TypeOK'
  <2>1. Load(store).retention \in Nat \ {0} /\ Load(store).override \in BOOLEAN
    BY LoadedLimits DEF TypeOK
  <2>2. approving' \in [kinds : SUBSET Kind, retention : Nat, override : BOOLEAN]
    BY <1>1, <2>1 DEF BeginApproval
  <2>. QED BY <1>1, <2>2 DEF TypeOK, BeginApproval, OneFileEach
<1>2. CASE Approve
  <2>. DEFINE items == {ItemFor(kind) : kind \in Chosen}
  <2>1. \A kind \in Chosen : kind \in Kind /\ ItemFor(kind) \in Item /\ ItemFor(kind).kind = kind
    <3>1. \A kind \in Chosen : kind \in Kind /\ backup[kind] \in File
      BY DEF TypeOK, Chosen
    <3>2. \A kind \in Kind : Ripe(kind) \in BOOLEAN
      BY DEF TypeOK, Ripe, Eligible
    <3>. QED BY <3>1, <3>2 DEF ItemFor, Item
  <2>2. items \subseteq Item /\ OneFileEach(items) /\ items # {}
    BY <1>2, <2>1 DEF OneFileEach, Approve
  <2>3. queue' = Append(queue, items)
    BY <1>2 DEF Approve
  <2>4. /\ queue' \in Seq(SUBSET Item)
        /\ Len(queue') = Len(queue) + 1
        /\ \A n \in 1 .. Len(queue) : queue'[n] = queue[n]
        /\ queue'[Len(queue) + 1] = items
    BY <2>2, <2>3 DEF TypeOK
  <2>5. \A n \in 1 .. Len(queue') : queue'[n] # {} /\ OneFileEach(queue'[n])
    <3>. SUFFICES ASSUME NEW n \in 1 .. Len(queue')
                  PROVE  queue'[n] # {} /\ OneFileEach(queue'[n])
      OBVIOUS
    <3>1. Len(queue) \in Nat
      BY DEF TypeOK
    <3>2. n \in 1 .. Len(queue) \/ n = Len(queue) + 1
      BY <2>4, <3>1
    <3>3. CASE n \in 1 .. Len(queue)
      <4>1. queue'[n] = queue[n]
        BY <2>4, <3>3
      <4>2. queue[n] # {} /\ OneFileEach(queue[n])
        BY <3>3 DEF TypeOK
      <4>. QED BY <4>1, <4>2
    <3>4. CASE n = Len(queue) + 1
      BY <2>2, <2>4, <3>4
    <3>. QED BY <3>2, <3>3, <3>4
  <2>6. approving' \in [kinds : SUBSET Kind, retention : Nat, override : BOOLEAN]
    BY <1>2 DEF Approve, NotApproving
  <2>7. UNCHANGED <<store, mappings, token, now, setBack, movie, backup, files, deleting, look, asked>>
    BY <1>2 DEF Approve
  <2>8. OneFileEach(deleting)' <=> OneFileEach(deleting)
    BY <2>7 DEF OneFileEach
  <2>9. (\A n \in 1 .. Len(queue) : queue[n] # {} /\ OneFileEach(queue[n]))'
    BY <2>5 DEF OneFileEach
  <2>. QED BY <2>4, <2>6, <2>7, <2>8, <2>9 DEF TypeOK
<1>3. CASE Refuse
  BY <1>3 DEF TypeOK, Refuse, NotApproving, OneFileEach
<1>. QED BY <1>1, <1>2, <1>3


LEMMA TypeOKDeletion ==
    ASSUME TypeOK, NoFallback, BeginDeletion \/ LookAtDisk \/ FinishDeletion \/ CancelDeletion
    PROVE  TypeOK'
<1>. USE RetentionBounds DEF configuration, clock, disk
<1>1. ASSUME queue # <<>>, queue' = Tail(queue)
      PROVE  /\ queue' \in Seq(SUBSET Item)
             /\ \A n \in 1 .. Len(queue') : queue'[n] # {} /\ OneFileEach(queue'[n])
  <2>1. /\ queue' \in Seq(SUBSET Item)
        /\ Len(queue') = Len(queue) - 1
        /\ Len(queue) \in Nat
        /\ \A n \in 1 .. Len(queue') : queue'[n] = queue[n + 1]
    BY <1>1 DEF TypeOK
  <2>. SUFFICES ASSUME NEW n \in 1 .. Len(queue')
                PROVE  queue'[n] # {} /\ OneFileEach(queue'[n])
    BY <2>1
  <2>2. n + 1 \in 1 .. Len(queue) /\ queue'[n] = queue[n + 1]
    BY <2>1
  <2>3. queue[n + 1] # {} /\ OneFileEach(queue[n + 1])
    BY <2>2 DEF TypeOK
  <2>. QED BY <2>2, <2>3
<1>2. NoLook \in [time : 0 .. MaxTime, retention : Nat, movie : BOOLEAN,
                  backup : [Kind -> File \cup {NoFile}], looked : BOOLEAN]
  BY DEF NoLook, NoBackup
<1>3. CASE BeginDeletion
  <2>1. deleting' \subseteq Item /\ deleting' # {} /\ OneFileEach(deleting)'
    <3>1. 1 \in 1 .. Len(queue) /\ deleting' = queue[1] /\ queue[1] \in SUBSET Item
      BY <1>3 DEF BeginDeletion, TypeOK
    <3>2. queue[1] # {} /\ OneFileEach(queue[1])
      BY <3>1 DEF TypeOK
    <3>. QED BY <3>1, <3>2 DEF OneFileEach
  <2>2. look' \in [time : 0 .. MaxTime, retention : Nat, movie : BOOLEAN,
                   backup : [Kind -> File \cup {NoFile}], looked : BOOLEAN]
    <3>1. StoredRetention(store) \in Nat
      BY JobReadsLimits DEF TypeOK
    <3>. QED BY <1>3, <3>1 DEF BeginDeletion, TypeOK, NoBackup
  <2>3. /\ queue' \in Seq(SUBSET Item)
        /\ (\A n \in 1 .. Len(queue) : queue[n] # {} /\ OneFileEach(queue[n]))'
    BY <1>1, <1>3 DEF BeginDeletion, OneFileEach
  <2>4. UNCHANGED <<store, mappings, token, now, setBack, movie, backup, files, approving, asked>>
    BY <1>3 DEF BeginDeletion
  <2>. QED BY <2>1, <2>2, <2>3, <2>4 DEF TypeOK
<1>4. CASE LookAtDisk
  BY <1>4 DEF TypeOK, LookAtDisk, OneFileEach
<1>5. CASE FinishDeletion
  <2>1. /\ backup' \in [Kind -> File \cup {NoFile}]
        /\ \A kind \in Kind : backup'[kind] \in {backup[kind], NoFile}
    BY <1>5 DEF TypeOK, FinishDeletion
  <2>2. \A kind \in Kind : backup'[kind].id <= files
    BY <2>1 DEF TypeOK, NoFile
  <2>3. deleting' = {} /\ look' = NoLook
    BY <1>5 DEF FinishDeletion
  <2>4. UNCHANGED <<store, mappings, token, now, setBack, movie, files, approving, queue, asked>>
    BY <1>5 DEF FinishDeletion
  <2>. QED BY <1>2, <2>1, <2>2, <2>3, <2>4 DEF TypeOK, OneFileEach
<1>6. CASE CancelDeletion
  <2>1. /\ queue' \in Seq(SUBSET Item)
        /\ (\A n \in 1 .. Len(queue) : queue[n] # {} /\ OneFileEach(queue[n]))'
    BY <1>1, <1>6 DEF CancelDeletion, OneFileEach
  <2>. QED BY <1>6, <2>1 DEF TypeOK, CancelDeletion, OneFileEach
<1>. QED BY <1>3, <1>4, <1>5, <1>6

(* The variables keep their types: the queue holds well-formed deletions   *)
(* that name a file once, and an idle worker remembers nothing of a look.  *)
THEOREM RetentionTypes == Spec => []TypeOK
<1>1. TypeOK /\ NoFallback /\ [Next]_vars => TypeOK'
  <2>1. ASSUME TypeOK, UNCHANGED vars
        PROVE  TypeOK'
    BY <2>1 DEF TypeOK, vars, configuration, clock, disk, OneFileEach
  <2>. QED BY <2>1, TypeOKWorld, TypeOKSettings, TypeOKApproval, TypeOKDeletion, TypeOKRestart DEF Next
<1>. QED BY TypeOKInit, SavedValuesAreRead, <1>1, PTL DEF Spec

-----------------------------------------------------------------------------
(* What a handler and a job have read of the settings.                     *)
LimitsRead ==
    /\ approving.kinds # {} => approving.retention # 0
    /\ deleting # {} => look.retention # 0

LEMMA LimitsReadKept ==
    ASSUME TypeOK, NoFallback, LimitsRead, [Next]_vars
    PROVE  LimitsRead'
<1>1. Load(store).retention # 0 /\ StoredRetention(store) # 0
  BY LoadedLimits, JobReadsLimits DEF TypeOK
<1>2. CASE UNCHANGED <<approving, deleting, look>>
  BY <1>2 DEF LimitsRead
<1>3. ASSUME NEW kinds \in (SUBSET Kind) \ {{}}, BeginApproval(kinds)
      PROVE  LimitsRead'
  BY <1>1, <1>3 DEF BeginApproval, LimitsRead
<1>4. CASE Approve \/ Refuse
  BY <1>4 DEF Approve, Refuse, NotApproving, LimitsRead
<1>5. CASE BeginDeletion
  BY <1>1, <1>5 DEF BeginDeletion, LimitsRead
<1>6. CASE LookAtDisk \/ FinishDeletion
  BY <1>6 DEF LookAtDisk, FinishDeletion, LimitsRead
<1>7. CASE CancelDeletion \/ Restart
  BY <1>7 DEF CancelDeletion, Restart, NotApproving, NoLook, LimitsRead
<1>. QED
  BY <1>2, <1>3, <1>4, <1>5, <1>6, <1>7
  DEF Next, World, Tick, SetClockBack, Convert, MoveMovie, RemoveBackup, ReplaceBackup, Submit, vars

(* Whole days, once there is one, are at most the time that has passed.    *)
LEMMA DaysAreTime ==
    ASSUME NEW file, file.modified \in Nat, NEW time \in Nat, NEW retention \in Nat \ {0},
           AgeDays(file, time) >= retention
    PROVE  time - file.modified >= retention * DayLength
<1>. DEFINE passed == time - file.modified
            days == passed \div DayLength
<1>1. ~(time < file.modified)
  BY DEF AgeDays
<1>2. passed \in Nat /\ days >= retention /\ DayLength \in Nat \ {0}
  BY <1>1, DayLengthAssumption DEF AgeDays
<1>3. days \in Nat /\ passed >= days * DayLength
  BY <1>2
<1>4. days * DayLength >= retention * DayLength
  BY <1>2, <1>3
<1>. QED BY <1>2, <1>3, <1>4


(* What a job unlinks it has found as it was approved, and due; what is    *)
(* approved is due or taken under an override, as of that moment.          *)
LEMMA UnlinkedWasDue ==
    ASSUME TypeOK, LimitsRead, FinishDeletion,
           NEW kind \in Kind, backup[kind] # NoFile, backup'[kind] = NoFile
    PROVE  \E item \in deleting :
              /\ item.kind = kind
              /\ item.file = look.backup[kind]
              /\ look.movie
              /\ \/ item.override
                 \/ look.time - item.file.modified >= look.retention * DayLength
<1>1. kind \in Deletable
  BY DEF FinishDeletion, TypeOK
<1>2. PICK item \in deleting : MayDelete(item) /\ item.kind = kind
  BY <1>1 DEF Deletable
<1>3. /\ item.file = look.backup[kind] /\ look.movie
      /\ item.override \/ AgeDays(item.file, look.time) >= look.retention
  BY <1>2 DEF MayDelete, Eligible
<1>4. /\ item.file.modified \in Nat /\ look.time \in Nat /\ look.retention \in Nat \ {0}
  BY <1>2 DEF TypeOK, Item, File, LimitsRead
<1>5. ASSUME AgeDays(item.file, look.time) >= look.retention
      PROVE  look.time - item.file.modified >= look.retention * DayLength
  BY <1>4, <1>5, DaysAreTime
<1>. QED BY <1>2, <1>3, <1>5

LEMMA ApprovedIsDue ==
    ASSUME TypeOK, LimitsRead, Approve
    PROVE  \A item \in queue'[Len(queue')] :
              /\ movie
              /\ \/ approving.override
                 \/ ~item.override /\ now - item.file.modified >= approving.retention * DayLength
<1>. SUFFICES ASSUME NEW item \in queue'[Len(queue')]
              PROVE  /\ movie
                     /\ \/ approving.override
                        \/ /\ ~item.override
                           /\ now - item.file.modified >= approving.retention * DayLength
  OBVIOUS
<1>1. queue'[Len(queue')] = {ItemFor(kind) : kind \in Chosen}
  BY DEF Approve, TypeOK
<1>2. PICK kind \in Chosen : item = ItemFor(kind)
  BY <1>1
<1>3. Ripe(kind) \/ (approving.override /\ movie)
  BY DEF Approve, Selectable
<1>4. /\ backup[kind].modified \in Nat /\ now \in Nat /\ approving.retention \in Nat \ {0}
      /\ item.file = backup[kind] /\ item.override = ~Ripe(kind)
  BY <1>2 DEF TypeOK, Chosen, File, LimitsRead, ItemFor
<1>5. CASE Ripe(kind)
  <2>1. movie /\ AgeDays(backup[kind], now) >= approving.retention
    BY <1>5 DEF Ripe, Eligible
  <2>2. now - backup[kind].modified >= approving.retention * DayLength
    BY <1>4, <2>1, DaysAreTime
  <2>. QED BY <1>4, <1>5, <2>1, <2>2
<1>6. CASE approving.override /\ movie
  BY <1>6
<1>. QED BY <1>3, <1>5, <1>6

LEMMA OnlyApproveGrows ==
    ASSUME TypeOK, [Next]_vars, Len(queue') > Len(queue)
    PROVE  Approve
<1>1. ASSUME queue # <<>>, queue' = Tail(queue)
      PROVE  FALSE
  BY <1>1 DEF TypeOK
<1>2. ASSUME UNCHANGED queue
      PROVE  FALSE
  BY <1>2 DEF TypeOK
<1>. QED
  BY <1>1, <1>2
  DEF Next, World, Tick, SetClockBack, Convert, MoveMovie, RemoveBackup, ReplaceBackup, Submit,
      BeginApproval, Refuse, BeginDeletion, LookAtDisk, FinishDeletion, CancelDeletion, Restart, vars

LEMMA OnlyFinishUnlinks ==
    ASSUME [Next]_vars, deleting # {}, deleting' = {},
           NEW kind \in Kind, backup[kind] # NoFile, backup'[kind] = NoFile
    PROVE  FinishDeletion
BY DEF Next, World, Tick, SetClockBack, Convert, MoveMovie, RemoveBackup, ReplaceBackup, Submit,
      BeginApproval, Approve, Refuse, BeginDeletion, LookAtDisk, CancelDeletion, Restart, vars, disk

(* The rule of the backup page holds when it matters: whatever the clock,  *)
(* the settings, the movie and the files do between an approval and its    *)
(* job, a file goes only if it is the approved one beside its movie, and   *)
(* due by the retention the job has read or taken young.  A file of the    *)
(* future is never due, because no retention is less than a day.           *)
THEOREM RetentionHolds == Spec => KeptUntilDue
<1>1. Init => LimitsRead
  BY DEF Init, NotApproving, LimitsRead
<1>2. TypeOK /\ LimitsRead /\ [Next]_vars => DeletionIsDue /\ ApprovalIsDue
  BY UnlinkedWasDue, ApprovedIsDue, OnlyApproveGrows, OnlyFinishUnlinks
  DEF DeletionIsDue, ApprovalIsDue
<1>3. TypeOK /\ NoFallback /\ LimitsRead /\ [Next]_vars => LimitsRead'
  BY LimitsReadKept
<1>4. Spec => []TypeOK /\ []NoFallback
  BY RetentionTypes, SavedValuesAreRead
<1>. QED BY <1>1, <1>2, <1>3, <1>4, PTL DEF Spec, KeptUntilDue

=============================================================================

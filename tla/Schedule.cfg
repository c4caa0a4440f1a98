SPECIFICATION FairSpec
CONSTANTS
    Day = 6
    StartTime = 3
    Cadences <- TwoCadences
    PollPeriod = 2
    Window = 2
    MaxOthers = 2
    MaxCrashes = 1
INVARIANTS
    TypeOK
PROPERTIES
    IntervalRespected
    StartsAligned
    ScheduleKeepsPace

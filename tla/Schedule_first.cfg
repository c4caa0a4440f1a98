SPECIFICATION FairSpec
CONSTANTS
    Day = 6
    StartTime = 3
    Cadences <- OnlyMinutes
    PollPeriod = 2
    Window = 3
    MaxOthers = 0
    MaxCrashes = 0
PROPERTIES
    EnablingQueuesScan

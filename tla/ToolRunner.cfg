\* Two jobs of up to two commands, a capture one byte short of the output.
SPECIFICATION FairSpec
CONSTANTS
    CaptureLimit = 2
    LogLimit = 3
    ChunkSizes = {1, 2}
    MaxOutput = 3
    MaxCommands = 2
    MaxJobs = 2
    MaxFaults = 1
INVARIANTS
    TypeOK
    OneTool
    ShutdownClears
    LogComplete
PROPERTIES
    TrustsWholeOutput
    StopReturns
\* After a shutdown, or with the worker's task dead, nothing moves.
CHECK_DEADLOCK FALSE

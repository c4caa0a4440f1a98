\* Two candidates, three jobs, a crash or shutdown, a database error; no
\* symmetry, because one of the properties is a liveness property.
SPECIFICATION FairSpec
CONSTANTS
    Candidates = {c1, c2}
    NoCandidate = NoCandidate
    MaxJobs = 3
    MaxRestarts = 1
    MaxFaults = 1
INVARIANTS
    TypeOK
    UniqueActive
    RunningIsCurrent
    NeverOvertaken
PROPERTIES
    Lifecycle
    SerialSpec
    EveryJobSettles
\* A worker killed by a database error after the last restart stays dead.
CHECK_DEADLOCK FALSE

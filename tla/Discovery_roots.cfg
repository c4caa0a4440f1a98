\* Two roots, a report, a recovery, a crash: small enough for liveness.
SPECIFICATION FairSpec
CONSTANTS
    p1 = p1
    p2 = p2
    r1 = r1
    r2 = r2
    Paths = {p1, p2}
    Roots = {r1, r2}
    RootOf <- TwoRoots
    PartsOf <- Nested
    Casefold <- Casing
    ReadsAs <- Whole
    ExternalOf <- ExternalPaths
    Mappings <- Overlapping
    AllRoots = AllRoots
    BatchSize = 1
    ScanDepth = 5
    CustomWalks <- NoWalks
    MaxImports = 1
    MaxRequests = 1
    MaxCrashes = 1
    Hazards = {"recovery"}
INVARIANTS
    TypeOK
    ReportedCovered
PROPERTIES
    IndexSpec
    ReportsAreServed

\* Two files under one root, every race between files and scans.
SPECIFICATION Spec
CONSTANTS
    p1 = p1
    p2 = p2
    r1 = r1
    r2 = r2
    Paths = {p1, p2}
    Roots = {r1}
    RootOf <- OneRoot
    PartsOf <- Beside
    Casefold <- Casing
    ReadsAs <- Alike
    ExternalOf <- DirectPaths
    Mappings <- Direct
    AllRoots = AllRoots
    BatchSize = 1
    ScanDepth = 5
    CustomWalks <- ShallowWalks
    MaxImports = 3
    MaxRequests = 0
    MaxCrashes = 0
    Hazards = {"change_under_parse"}
SYMMETRY Swap
INVARIANTS
    CandidateMatchesRow
PROPERTIES
    ScanTellsTruth
    OutOfScopeKept

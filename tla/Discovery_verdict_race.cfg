SPECIFICATION Spec
CONSTANTS
    p1 = p1
    p2 = p2
    r1 = r1
    r2 = r2
    Paths = {p1, p2}
    Roots = {r1}
    RootOf <- OneRoot
    PartsOf <- Nested
    Casefold <- Casing
    ReadsAs <- Whole
    ExternalOf <- ExternalPaths
    Mappings <- Direct
    AllRoots = AllRoots
    BatchSize = 1
    ScanDepth = 5
    CustomWalks <- NoWalks
    MaxImports = 2
    MaxRequests = 0
    MaxCrashes = 0
    Hazards = {"change_under_parse"}
PROPERTIES
    SmartScanDiscovers

SPECIFICATION Spec
CONSTANTS
    Policies <- SomePolicies
    MaxImports = 2
    MaxJobs = 3
    MaxCrashes = 1
INVARIANTS
    TypeOK
    InspectedOnce
    NoAutomaticRetry
PROPERTIES
    GateHonoured
    SmartScanAsksOnce
CHECK_DEADLOCK FALSE

SPECIFICATION Spec
CONSTANTS
    Policies <- SomePolicies
    MaxImports = 2
    MaxJobs = 3
    MaxCrashes = 0
PROPERTIES
    ChangedIsQueued
CHECK_DEADLOCK FALSE

\* Everything can fail, and Radarr may write a movie that a job is working on.
SPECIFICATION Spec
CONSTANTS
    MaxGen = 2
    MaxPending = 2
    MaxApprovals = 3
    MaxCrashes = 1
    Hazards <- AllHazards
    Handlers = {h1}
INVARIANTS
    TypeOK
    NoSilentLoss
    AcknowledgementProtects
PROPERTIES
    ConvertsApprovedContent
    BackupNeverOverwritten
    InstallsApprovedSource

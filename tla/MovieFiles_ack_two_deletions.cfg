\* A second deletion is approved before the first one ran.
SPECIFICATION Spec
CONSTANTS
    MaxGen = 2
    MaxPending = 2
    MaxApprovals = 4
    MaxCrashes = 0
    Hazards <- DeletionHazards
    Handlers = {h1}
INVARIANTS
    NoUnacknowledgedLoss

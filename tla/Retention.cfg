SPECIFICATION Spec
CONSTANTS
    Forms <- FormsChecked
    OldStores <- OldStoresChecked
    DefaultRetention = 1
    DefaultDepth = 5
    DayLength = 2
    MaxTime = 3
    MaxBack = 1
    MaxFiles = 2
    MaxDeletions = 1
INVARIANTS
      TypeOK
      NoFallback
PROPERTIES
      KeptUntilDue

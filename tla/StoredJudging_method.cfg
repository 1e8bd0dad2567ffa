SPECIFICATION FairSpec
CONSTANTS
    NumRows = 2
    Cap = 9
    MaxCost = 2
    CaptureTries = 2
    MaxWorld = 1
    Models = {m1, m2}
    Panels = {1, 2}
    MaxPanels = 1
    MaxCrashes = 2
INVARIANTS
    SpendWithinCap
    StaleSpendStops
    ComparableIsFrozen
PROPERTIES
    ImplementsVerdictBook
    Finishes
CHECK_DEADLOCK FALSE

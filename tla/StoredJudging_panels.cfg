SPECIFICATION Spec
CONSTANTS
    NumRows = 2
    Cap = 9
    MaxCost = 1
    CaptureTries = 1
    MaxWorld = 0
    Models = {m1}
    Panels = {1}
    MaxPanels = 1
    MaxCrashes = 1
INVARIANT PanelsWithinCap
CHECK_DEADLOCK FALSE

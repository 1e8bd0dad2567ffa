SPECIFICATION FairSpec
CONSTANTS
    NumRows = 2
    MaxFaults = 2
INVARIANTS
    TypeOK
    ReceiptIsSound
    SpendStops
    NeverAccused
PROPERTIES
    ImplementsLockstep
    Settles
CHECK_DEADLOCK FALSE

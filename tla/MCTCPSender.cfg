SPECIFICATION Spec
CONSTANTS
    Half = 8
    MaxPayload = 2
    InitialRTO = 1
    RetxBound = 2
    Capacity = 3
    ISNs <- MCISNs
    Windows <- MCWindows
    MaxBytes = 4
    LateSyn = FALSE
INVARIANTS
    TypeOK
    OutstandingTilesFlight
    TimerRunsWhileOutstanding
PROPERTIES
    WindowRespected
    NothingAfterFin
    TimeoutResendsFirstMissing

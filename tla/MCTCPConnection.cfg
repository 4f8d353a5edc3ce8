SPECIFICATION Spec
CONSTANTS
    Half = 8
    MaxPayload = 2
    InitialRTO = 1
    RetxBound = 4
    MaxWindow = 65535
    Client = Client
    Server = Server
    Peers <- MCPeers
    ISN <- MCISN
    SendCapacity = 2
    RecvCapacity = 2
    Supply <- BothSend
    CloseOnlyIdle = TRUE
    Budgets <- OneFaultKind
INVARIANTS
    TypeOK
    ReaderGetsTheStream
    AcknoIsNextNeeded
    AcknowledgedHasArrived
    NobodyIsLeftBehind
    NothingWaitsCut
PROPERTIES
    EverythingIsRead
    BothLeave

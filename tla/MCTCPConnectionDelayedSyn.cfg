SPECIFICATION Spec
CONSTANTS
    Half = 8
    MaxPayload = 1
    InitialRTO = 1
    RetxBound = 4
    MaxWindow = 65535
    Client = Client
    Server = Server
    Peers <- MCPeers
    ISN <- MCISN
    SendCapacity = 2
    RecvCapacity = 2
    Supply <- ServerSends
    CloseOnlyIdle = TRUE
    Budgets <- DelayAfterEarly
INVARIANT
    ReaderGetsTheStream

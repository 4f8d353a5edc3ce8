SPECIFICATION Spec
CONSTANTS
    Client = Client
    Server = Server
    IPs <- MCIPs
    Eths <- MCEths
    AddressBits = 3
    NoHop = NoHop
    Broadcast = Broadcast
    ZeroEth = ZeroEth
    EntryLife = 12
    RequestLife = 4
    Half = 8
    MaxPayload = 1
    InitialRTO = 1
    RetxBound = 0
    MaxWindow = 65535
    InitialTTL = 4
    AnyAddress <- MCAnyAddress
    HostIP <- MCHostIP
    RouterIPs <- MCRouterIPs
    ServerPort = 7
    Starts <- MCStarts
    ServerISN = 9
    ServerEth = "server"
    HostEth = "host"
    GatewayEth = "gateway"
    Tables <- MCTables
    Capacity = 2
    Supply <- MCSupply
    EventMs = 0
    RestMs = 3
    FaultBudget = 1
INVARIANTS
    TypeOK
    TwoRoutersOnTheWay
    OnePartner
PROPERTY ConversationEnds

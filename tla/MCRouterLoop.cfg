SPECIFICATION Spec
CONSTANTS
    A = A
    B = B
    Routers <- MCRouters
    IPs <- MCIPs
    Eths <- MCEths
    AddressBits = 3
    NoHop = NoHop
    Broadcast = Broadcast
    ZeroEth = ZeroEth
    EntryLife = 12
    RequestLife = 4
    LinkCount = 2
    Address <- MCAddress
    EthOf <- MCEthOf
    Programs <- MCPrograms
    Arriving <- MCArriving
INVARIANT
    RouteIsLongestAndCurrent
PROPERTY
    JourneysEnd

SPECIFICATION Spec
CONSTANTS
    own = own
    peer = peer
    e0 = e0
    e1 = e1
    d1 = d1
    d2 = d2
    IPs <- MCIPs
    Eths <- MCEths
    Broadcast = Broadcast
    ZeroEth = ZeroEth
    Datagrams <- MCDatagrams
    EntryLife = 3
    RequestLife = 1
    OwnEth = e0
    OwnIP = own
    Steps = {1, 2}
    MaxSent = 2
    MaxEntries = 2
    MaxReceived = 1
INVARIANTS
    TypeOK
    SentOnceInOrder
    KnownHopsAreServed
    CacheIsWhatWasHeard
PROPERTY RequestsAreSpaced
SYMMETRY MCSymmetry

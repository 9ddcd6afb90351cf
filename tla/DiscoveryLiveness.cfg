CONSTANTS
    n1 = n1
    n2 = n2
    n3 = n3
    Nobody = Nobody
    Nodes <- MC_Nodes
    Dialers <- MC_Dialers
    Pings <- MC_Pings
    NPeers = 3
    MaxCopies = 0
SPECIFICATION FairSpec
INVARIANT
    DiscoveryInv
PROPERTIES
    Introduced
    Acquainted
ACTION_CONSTRAINT MC_PingOrJoin
CHECK_DEADLOCK FALSE

CONSTANTS
    n1 = n1
    n2 = n2
    hello = hello
    ipA = ipA
    ipB = ipB
    Nobody = Nobody
    Stdin = Stdin
    Absent = Absent
    Nodes <- MC_Nodes
    Dialers <- MC_Dialers
    Pings <- MC_Pings
    NPeers = 2
    MaxCopies = 1
    Messages <- MC_Messages
    Author <- MC_Author
    Host <- MC_Host
    AllUpTo = 2
    Factor = 40
    HistoryLen = 3
    HistoryGossip = 2
    MaxBeat = 1
    MaxDrops = 2
SPECIFICATION ChatSpec
INVARIANT
    GossipIsMutual
PROPERTY
    ImplementsGossip
CHECK_DEADLOCK FALSE

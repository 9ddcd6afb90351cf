CONSTANTS
    n1 = n1
    n2 = n2
    n3 = n3
    hello = hello
    ipA = ipA
    ipB = ipB
    Stdin = Stdin
    Absent = Absent
    Nodes <- MC_Nodes
    Messages <- MC_Messages
    Author <- MC_Author
    Initially <- MC_Initially
    Reachable <- MC_Reachable
    Host <- MC_Host
    AllUpTo = 2
    Factor = 40
    HistoryLen = 3
    HistoryGossip = 2
    MaxBeat = 1
    MaxDrops = 2
SPECIFICATION FairSpec
INVARIANTS
    OncePerHistory
    FloodBounded
    InformedOrPending
    GossipInv
PROPERTIES
    Spreads
    ImplementsRumor
CHECK_DEADLOCK FALSE

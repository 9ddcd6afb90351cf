CONSTANTS
    n1 = n1
    n2 = n2
    n3 = n3
    hello = hello
    ipA = ipA
    ipB = ipB
    Stdin = Stdin
    Absent = Absent
    Nodes <- MC_Alone
    Messages <- MC_Messages
    Author <- MC_Author
    Initially <- MC_InitiallyAlone
    Reachable <- MC_NobodyNew
    Host <- MC_HostAlone
    AllUpTo = 2
    Factor = 40
    HistoryLen = 3
    HistoryGossip = 2
    MaxBeat = 1
    MaxDrops = 2
SPECIFICATION Spec
INVARIANT
    GossipedForHistory
CHECK_DEADLOCK FALSE

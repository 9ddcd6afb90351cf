CONSTANTS
    n1 = n1
    n2 = n2
    n3 = n3
    Nobody = Nobody
    Nodes <- MC_Nodes
    Dialers <- MC_Dialers
    Pings <- MC_NoPings
    NPeers = 3
    MaxCopies = 1
SPECIFICATION Spec
SYMMETRY MC_Symmetry
INVARIANTS
    KnownHasSpoken
    RequestsBounded
    MutualOrPending
    IntroducedOrPending
PROPERTY
    RunsOut
CHECK_DEADLOCK FALSE

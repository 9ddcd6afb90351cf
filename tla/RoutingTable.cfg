CONSTANTS
    home = home
    moved = moved
    NoPeer = NoPeer
    KeyBytes = 3
    ByteBits = 2
    MaxBucketLen = 2
    MaxRemovals = 1
    Addresses <- MC_Addresses
    PeerInfos <- MC_FewPeers
    LocalInfo <- MC_Local
    Removable <- MC_Leaving
SPECIFICATION Spec
INVARIANTS
    TypeOK
    Placement
    GrowsFromFull
    DeepestIsLatest
    PanicNeedsCrowd
    LookupNeedsCrowd
    ClosestCount
    FindsEachOnce
PROPERTIES
    ImplementsPeerSet
CHECK_DEADLOCK FALSE

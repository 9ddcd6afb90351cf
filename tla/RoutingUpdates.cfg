CONSTANTS
    home = home
    moved = moved
    NoPeer = NoPeer
    KeyBytes = 3
    ByteBits = 2
    MaxBucketLen = 2
    MaxRemovals = 0
    Addresses <- MC_Addresses
    PeerInfos <- MC_FewPeers
    LocalInfo <- MC_Local
    Removable <- MC_NoPeers
SPECIFICATION Spec
INVARIANTS
    UpdateUpdates
CHECK_DEADLOCK FALSE

CONSTANTS
    PacketSize = 3
    Lengths <- MC_Lengths
SPECIFICATION Spec
INVARIANTS
    LoopInv
    NeverPanics
    Reassembles
    PayloadBound
CHECK_DEADLOCK FALSE

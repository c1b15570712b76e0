\* Every virtual network of one tile, two VCs each, buffers shorter than a packet;
\* a behaviour has one of three workloads.
SPECIFICATION LiveSpec
CONSTANTS
    NumVnets = 3
    VcsPerVnet = 2
    VcDepth = 2
    MeshX = 2
    CreditDelay = 1
    Me = 0
    Workloads <- AllWorkloads
    Packets <- AllPackets
INVARIANTS
    TileSafe
    ShownInOrder
PROPERTIES
    EachSideInTurn
    OwnIsDelivered

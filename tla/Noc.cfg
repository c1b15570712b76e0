\* Two virtual networks of two VCs, with room for the design's packets in
\* proportion; a behaviour is of the mesh or of the single router.
SPECIFICATION NocSpec
CONSTANTS
    NumVnets = 2
    VcsPerVnet = 2
    VcDepth = 3
    MeshX = 2
    MeshY = 2
    CreditDelay = 2
    Traffic <- MeshTraffic
    Packets <- AllPackets
    Me = 0
    RouterTraffic <- RouterWorkloads
    StalledVnets = {0}
INVARIANTS
    RouterSafe
    PacketsWhole
    MeshSafe
PROPERTIES
    ImplementsFifo
    OthersDrain
    AlwaysDrains

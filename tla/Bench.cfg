\* The small machines side by side: a behaviour is one of one of them.
SPECIFICATION BenchSpec
CONSTANTS
    s1 = s1
    s2 = s2
    l1 = l1
    l2 = l2
    f1 = f1
    f2 = f2
    w2 = w2
    N = 4
    NumPorts = 2
    PayloadWidth = 4
    Set = {1, 62}
    AddrTag = {0, 3}
    AddrWord = {6}
    MaxHeld = 2
    TxnFile = {mshr}
    TxnEntry = {e1, e2}
    Every = 3
    Threshold = 3
    DrainSampled = TRUE
    Horizon = 11
    Tile = {t1, t2}
    CacheWay = {way}
    TagVal = {g1, g2}
    L1States = {"I", "S", "M"}
    Sets <- TwoSets
    Line = {l1, l2}
    Byte = {b1, b2}
    Val = {v0, v1}
    Zero = v0
    Settings <- ThreeUses
    Version = {w1, w2}
    HasArrays = TRUE
    StaInstalled = TRUE
    Period = 7
    SweepLo = 2
    SweepHi = 17
    SweepSteps = 3
    SweepResolution = 1
    Shortest <- Thresholds
    Modes = {TRUE, FALSE}
    Srams = {"blackbox"}
    Invocations = 2
    Edits = TRUE
    Interrupts = TRUE
    CRITICAL = {"nom_voltage"}
    Value = {x1, x2}
    Kind <- TableKinds
    Name = {n1}
    NumFiles = 3
    MaxGroups = 1
    Source = {f1, f2}
    Mutation <- Three
    Sites <- Counts
    Signals <- MildOrHarsh
SYMMETRY Alike
CHECK_DEADLOCK FALSE
INVARIANTS
    NotStarved
    TranscriptionsAgree
    GaugeHonest
    SweepSound
    AlarmsSound
    FlowSound
    MergeSound
    TreeKept
PROPERTIES
    RestorableFromGit

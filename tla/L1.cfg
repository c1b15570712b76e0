\* Two ways, two MSHRs; a behaviour has one of three workloads.
SPECIFICATION LiveSpec
CONSTANTS
    la = la
    lb = lb
    lc = lc
    Line = {la, lb, lc}
    NoLine = NoLine
    MshrEntries = 2
    Workloads <- AllWorkloads
INVARIANTS
    EventsLegal
    NothingTwice
    ReadsAreCurrent
PROPERTY
    EachAnswered

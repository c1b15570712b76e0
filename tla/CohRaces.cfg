SPECIFICATION RoomySpec
CONSTANTS
  h1 = h1
  h2 = h2
  lx = lx
  ly = ly
  None = None
  Cache = {c1, c2, c3}
  Home = {h1}
  Line = {lx}
  HomeOf <- OneHome
  VcOf <- SameVc
  CoreOps <- AllOps
  Versions = 3
  L2Ways = 1
  TbeEntries = 1
  MshrEntries = 1
  AckHalf = 4
  EnableE = TRUE
SYMMETRY CacheSymmetry
INVARIANTS
  SingleWriter
  LatestDataRead
  CacheEventsLegal
  ExcusesHold
PROPERTIES
  ImplementsSharedMemory

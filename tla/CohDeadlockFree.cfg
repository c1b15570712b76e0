SPECIFICATION RoomySpec
CONSTANTS
  h1 = h1
  h2 = h2
  lx = lx
  ly = ly
  None = None
  Cache = {c1, c2}
  Home = {h1}
  Line = {lx, ly, lz}
  HomeOf <- OneHome
  VcOf <- SameVc
  CoreOps <- AllOpsOnX
  Versions = 1
  L2Ways = 2
  TbeEntries = 2
  MshrEntries = 2
  AckHalf = 4
  EnableE = TRUE
SYMMETRY LoadedAlike
INVARIANTS
  NoDeadlock

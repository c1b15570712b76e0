SPECIFICATION RoomySpec
CONSTANTS
  h1 = h1
  h2 = h2
  lx = lx
  ly = ly
  None = None
  Cache = {c1, c2, c3, c4}
  Home = {h1}
  Line = {lx, ly, lz}
  HomeOf <- OneHome
  VcOf <- SameVc
  CoreOps <- LoadsOnly
  Versions = 1
  L2Ways = 2
  TbeEntries = 2
  MshrEntries = 1
  AckHalf = 4
  EnableE = TRUE
SYMMETRY FullSymmetry
INVARIANTS
  Inclusion

SPECIFICATION Spec
CONSTANTS
  h1 = h1
  h2 = h2
  lx = lx
  ly = ly
  None = None
  Cache = {c1, c2, c3}
  Home = {h1, h2}
  Line = {lx, ly}
  HomeOf <- TwoHomes
  VcOf <- SameVc
  CoreOps <- StoresOnly
  Versions = 1
  L2Ways = 2
  TbeEntries = 2
  MshrEntries = 2
  AckHalf = 4
  EnableE = TRUE
SYMMETRY CacheSymmetry
INVARIANTS
  NoDeadlock

SPECIFICATION Spec
CONSTANTS
  h1 = h1
  h2 = h2
  lx = lx
  ly = ly
  None = None
  Cache = {c1, c2}
  Home = {h1}
  Line = {lx, ly, lz, lu}
  HomeOf <- OneHome
  VcOf <- SameVc
  CoreOps <- LoadsOnly
  Versions = 1
  L2Ways = 3
  TbeEntries = 2
  MshrEntries = 4
  AckHalf = 4
  EnableE = TRUE
SYMMETRY FullSymmetry
INVARIANTS
  EntryForRecall

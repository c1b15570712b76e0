SPECIFICATION LiveSpec
CONSTANTS
  h1 = h1
  h2 = h2
  lx = lx
  ly = ly
  None = None
  Cache = {c1, c2}
  Home = {h1}
  Line = {lx, ly}
  HomeOf <- OneHome
  VcOf <- SameVc
  CoreOps <- LoadsOnly
  Versions = 2
  L2Ways = 1
  TbeEntries = 1
  MshrEntries = 1
  AckHalf = 4
  EnableE = TRUE
CHECK_DEADLOCK FALSE
INVARIANTS
  TypeOK
  L2CopyCurrent
PROPERTIES
  TransactionsComplete

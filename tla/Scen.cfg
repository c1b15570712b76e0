\* Every directed scenario, with one home and four lines.
SPECIFICATION ScriptLive
CONSTANTS
  c0 = c0
  c1 = c1
  c2 = c2
  a0 = a0
  a1 = a1
  a2 = a2
  a3 = a3
  h0 = h0
  None = None
  Cache = {c0, c1, c2}
  Home = {h0}
  Line = {a0, a1, a2, a3}
  HomeOf <- OneHome
  VcOf <- SameVc
  CoreOps <- LoadsStores
  Versions = 3
  L1Ways = 2
  L2Ways = 3
  TbeEntries = 2
  MshrEntries = 4
  AckHalf = 4
  EnableE = TRUE
  Scripts <- AllScripts
INVARIANTS
  AssertionsHold
PROPERTIES
  ScenariosEnd

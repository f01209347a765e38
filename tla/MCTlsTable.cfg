SPECIFICATION FairSpec
CONSTANTS
  t1 = t1
  t2 = t2
  t3 = t3
  h1 = h1
  h2 = h2
  None = None
  Threads <- ThreeThreads
  Main = t1
  LdtEntries = 2
  Handlers <- TwoHandlers
  Default = Default
  MaxCalls = 1
INVARIANTS TableAgrees HandlersShared
 
CHECK_DEADLOCK FALSE

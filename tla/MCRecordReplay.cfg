SPECIFICATION RRSpec
CONSTANTS
  t1 = t1
  t2 = t2
  None = None
  Threads <- TwoThreads
  Flushers <- TwoThreads
  MaxLoggerSize = 3
  Additional = 2
  BranchSize = 1
  RdtscSize = 3
  AppendSizes <- WordSizes
  MaxEntries = 2
INVARIANTS RoundTrip  ReplayIsLog ReplayComplete CorruptOnlyEmpty
SYMMETRY ThreadSymmetry
CHECK_DEADLOCK FALSE

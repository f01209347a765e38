SPECIFICATION ReplaySpec
CONSTANTS
  Programs <- TwoInstructions
  Start = 0
  Handler = 2
  Sigreturn = 4
  Values = {0, 1}
  MaxSteps = 9
  MaxSignals = 2
  UdFaults = FALSE
INVARIANTS LinksRight ReplayFollows ReplayCovers 
PROPERTY RunsAsNative
CHECK_DEADLOCK FALSE

SPECIFICATION ReplaySpec
CONSTANTS
  Programs <- TwoInstructions
  Start = 0
  Handler = 2
  Sigreturn = 4
  Values = {0, 1}
  MaxSteps = 4
  MaxSignals = 2
  UdFaults = TRUE
CHECK_DEADLOCK FALSE
INVARIANTS LinksRight

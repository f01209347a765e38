SPECIFICATION FairSpec
CONSTANTS
  All <- MCAll
  Sigs <- MCSigs
  SaMask <- MCSaMask
  Initial <- MCInitial
  Requests <- MCRequests
  MaxSignals = 2
INVARIANTS RestMask  RecorderShielded
 
CHECK_DEADLOCK FALSE

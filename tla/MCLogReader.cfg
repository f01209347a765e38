SPECIFICATION Spec
CONSTANTS
  MaxBlocks = 3
  MaxEntry = 2
  MaxInBlock = 2
INVARIANTS InOrder PeekIsNext NoFalseAlarm
CHECK_DEADLOCK FALSE

SPECIFICATION Spec
CONSTANTS
  Data = 1
  Top = 3
INVARIANTS SameMemory InStep  
CHECK_DEADLOCK FALSE

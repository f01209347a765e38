\* Recording, checking and restoring a checkpoint, with the writer killed at
\* any point and any call of the host failing.
SPECIFICATION Spec
CONSTANTS
  N = 21
  Worlds <- MCWorlds
  Marked <- MCMarked
CHECK_DEADLOCK FALSE
INVARIANTS CatchersMatch   CutRefused Restored
PROPERTY OrphanEnds

SPECIFICATION Spec
CONSTANTS
  Modes <- MCProxy
  TimerPatient = TRUE
  MaxChunks = 2
INVARIANT StillDrains
CHECK_DEADLOCK FALSE

SPECIFICATION Spec
CONSTANTS
  Modes <- MCProxy
  TimerPatient = TRUE
  MaxChunks = 2
INVARIANT FullResponse
CHECK_DEADLOCK FALSE

SPECIFICATION FairSpec
CONSTANTS
  Modes <- MCModes
  TimerPatient = FALSE
  MaxChunks = 2
INVARIANTS TypeOK GracefulEnd OrderlyEnd
PROPERTY Returns
CHECK_DEADLOCK FALSE

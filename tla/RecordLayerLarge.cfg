SPECIFICATION Spec
CONSTANTS
  Setups <- MCLargeWrites
  MaxFrag = 3
  MaxNonce = 3
  MaxBytes = 6
  MaxFaults = 0
INVARIANT WholeStream
CHECK_DEADLOCK FALSE

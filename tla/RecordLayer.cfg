SPECIFICATION FairSpec
CONSTANTS
  Setups <- MCSetups
  MaxFrag = 3
  MaxNonce = 3
  MaxBytes = 6
  MaxFaults = 2
INVARIANTS TypeOK NonceUsedOnce
PROPERTIES IsStream Delivered
CHECK_DEADLOCK FALSE

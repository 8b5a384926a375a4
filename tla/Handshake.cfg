SPECIFICATION FairSpec
CONSTANTS
  Setups <- MCSetups
  MaxCalls = 2
  MaxFaults = 2
INVARIANTS TypeOK NonceUsedOnce ServerIsVouched
PROPERTIES IsKeyExchange Completes Terminates
CHECK_DEADLOCK FALSE

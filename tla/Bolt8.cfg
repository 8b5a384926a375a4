SPECIFICATION FairSpec
CONSTANTS
  Msgs <- MCMsgs
  Size <- MCSize
  AsLength <- MCAsLength
  RekeyInterval = 4
  Buf = 20
  ReadAgain = FALSE
  MaxWrites = 4
  MaxFaults = 2
INVARIANTS TypeOK NonceUsedOnce Lockstep
PROPERTIES IsMessageStream AllDelivered
CHECK_DEADLOCK FALSE

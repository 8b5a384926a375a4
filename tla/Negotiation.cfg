SPECIFICATION FairSpec
CONSTANTS
  Protocols <- MCProtocols
  NMsgs <- MCNMsgs
  FirstTag <- MCFirstTag
  Configs <- MCConfigs
  MaxNegAttempts = 2
  MaxCalls = 2
  MaxAltered = 1
INVARIANTS TypeOK Agreement DowngradeBound TamperedFails OwnChoice TakeTurns
PROPERTIES Completes Terminates
CHECK_DEADLOCK FALSE

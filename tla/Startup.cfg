\* CHECK_DEADLOCK FALSE: the process ends.
SPECIFICATION FairSpec
CONSTANTS
  CommandLines <- AllLines
  DefaultTimeout = 3
  SafetyTimeout = 2
  MaxAge = 8
INVARIANTS TypeOK IsReady DialBounded IdleBounded NotCutShort Returned
PROPERTY Reported
CHECK_DEADLOCK FALSE

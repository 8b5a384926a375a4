\* CHECK_DEADLOCK FALSE: the process ends.
SPECIFICATION FairSpec
CONSTANTS
  Configs <- AllConfigs
  Conns = {c1, c2}
  MaxSignals = 2
INVARIANTS TypeOK ServedToTheEnd
PROPERTIES SignalStops Responsive Released Exits
CHECK_DEADLOCK FALSE

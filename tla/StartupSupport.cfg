\* CHECK_DEADLOCK FALSE: the process ends.
SPECIFICATION Spec
CONSTANTS
  CommandLines <- BlankSupport
  DefaultTimeout = 3
  SafetyTimeout = 2
  MaxAge = 8
INVARIANT NoPanic
CHECK_DEADLOCK FALSE

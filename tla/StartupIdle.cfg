\* CHECK_DEADLOCK FALSE: the process ends.
SPECIFICATION Spec
CONSTANTS
  CommandLines <- WhatsAppListener
  DefaultTimeout = 3
  SafetyTimeout = 2
  MaxAge = 8
INVARIANT IdleBoundedEverywhere
CHECK_DEADLOCK FALSE

SPECIFICATION FairSpec
CONSTANTS
  MAIN = MAIN
  NONE = NONE
  NOBODY = NOBODY
  NULL = NULL
  Clients = {c1}
  Signals = {SIGINT, SIGTERM}
  Faults = {}
  MaxSent = 2
PROPERTIES SignalEndsProcess
CHECK_DEADLOCK FALSE

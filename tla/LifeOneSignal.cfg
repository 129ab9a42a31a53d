SPECIFICATION FairSpec
CONSTANTS
  MAIN = MAIN
  NONE = NONE
  NOBODY = NOBODY
  NULL = NULL
  Clients = {c1, c2}
  Signals = {SIGINT, SIGTERM}
  Faults = {"STARTUP", "ACCEPT", "MALLOC", "CREATE"}
  MaxSent = 1
INVARIANTS TypeOK NodesFreedOnce AddressListFreedOnce 
PROPERTIES SignalEndsProcess
CHECK_DEADLOCK FALSE

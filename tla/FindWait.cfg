SPECIFICATION CallsSpec
CONSTANTS
  Callers = {c1, c2}
  Pids = {p1, p2}
  NOCHILD = NOCHILD
  ExecOnly = {}
  MAXCHILDREN = 2
  CallFaults = {}
INVARIANTS ResultIsOwn
CHECK_DEADLOCK FALSE

SPECIFICATION Spec
CONSTANTS
  MAX_OPS = 4
  NULL = NULL
  Sizes = {0, 1, 2}
  MaxAdds = 9
  a = a
  b = b
  special = special
  Threads = {t1, t2}
  Milliseconds = {1, 2}
  MS = 2
  UINT = 4
  NOBODY = NOBODY
  ThreadFaults = {"MALLOC", "CREATE", "SLEEP", "MUTEX"}
  Callers = {c1, c2}
  Pids = {p1, p2, p3}
  NOCHILD = NOCHILD
  ExecOnly = {c2}
  MAXCHILDREN = 2
  CallFaults = {"OPEN", "FORK", "DUP2", "EXEC", "SIGNAL"}
  ROOT = ROOT
  Subdirs = {SUB}
  Strings <- SomeStrings
  Plain <- PlainStrings
  MAXFILES = 2
  FileFaults = {"OPEN", "WRITE", "KILL"}
INVARIANTS Shape KeepsNewest FindAgreesWithConcatenation ThreadingTypeOK MutexHeldInside TimesKept DataOutlivesThread CallsTypeOK LoneCallTruthful SystemNeverLies OutputClosed FinderTypeOK FilesExact
PROPERTIES ThreadsEnd EveryCallReturns RunSucceeds SuccessCleansUp
CHECK_DEADLOCK FALSE

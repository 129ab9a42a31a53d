SPECIFICATION Spec
CONSTANTS
  MAX_OPS = 2
  NULL = NULL
  NOBODY = NOBODY
  NL = NL
  NoSeek = NoSeek
  GARBLED = GARBLED
  a = a
  Byte = {a, NL}
  Clients = {c1, c2}
  Requests <- Lines
  Held <- Empty
  FDs = {4, 5, 6, 7}
  SeekValues <- SomeSeekValues
  MaxActive = 2
  Faults = {}
INVARIANTS ClientsAreServed
CHECK_DEADLOCK FALSE

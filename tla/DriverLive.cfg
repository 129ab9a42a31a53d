SPECIFICATION FairSpec
CONSTANTS
  MAX_OPS = 1
  NULL = NULL
  ZERO_SIZE_PTR = ZERO_SIZE_PTR
  FREE = FREE
  NOBODY = NOBODY
  NL = NL
  GARBAGE = GARBAGE
  a = a
  Byte = {a, NL, GARBAGE}
  Threads = {t1, t2}
  Files = {f1}
  Blocks = {p1, p2, p3}
  Payloads <- Lines
  ReadCounts = {1}
  Seeks <- OneSeek
  Commands <- OneCommand
  UserBufs = {"ok", "bad"}
  Faults = {"SIGNAL"}
  MaxWrites = 2
  MaxLoads = 1
PROPERTIES CallsReturn
CHECK_DEADLOCK FALSE

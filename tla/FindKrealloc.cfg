SPECIFICATION Spec
CONSTANTS
  MAX_OPS = 2
  NULL = NULL
  ZERO_SIZE_PTR = ZERO_SIZE_PTR
  FREE = FREE
  NOBODY = NOBODY
  NL = NL
  GARBAGE = GARBAGE
  a = a
  Byte = {a, NL, GARBAGE}
  Threads = {t1}
  Files = {f1}
  Blocks = {p1, p2, p3, p4, p5}
  Payloads <- Mixed
  ReadCounts = {}
  Seeks = {}
  Commands = {}
  UserBufs = {"ok"}
  Faults = {"KREALLOC"}
  MaxWrites = 3
  MaxLoads = 1
INVARIANTS OnlyWrittenBytes
SYMMETRY Symmetry
CHECK_DEADLOCK FALSE

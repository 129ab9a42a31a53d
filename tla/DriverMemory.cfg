SPECIFICATION Spec
CONSTANTS
  MAX_OPS = 2
  NULL = NULL
  ZERO_SIZE_PTR = ZERO_SIZE_PTR
  FREE = FREE
  NOBODY = NOBODY
  NL = NL
  GARBAGE = GARBAGE
  a = a
  Byte = {a, NL, GARBAGE}
  Threads = {t1, t2}
  Files = {f1}
  Blocks = {p1, p2, p3, p4}
  Payloads <- Pieces
  ReadCounts = {0, 1}
  Seeks = {}
  Commands = {}
  UserBufs = {"ok", "bad", "null"}
  Faults = {"KMALLOC", "KREALLOC", "SIGNAL"}
  MaxWrites = 4
  MaxLoads = 2
INVARIANTS TypeOK LockOwner MemorySafe
SYMMETRY Symmetry
CHECK_DEADLOCK FALSE

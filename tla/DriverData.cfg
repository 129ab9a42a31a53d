SPECIFICATION Spec
CONSTANTS
  MAX_OPS = 2
  NULL = NULL
  ZERO_SIZE_PTR = ZERO_SIZE_PTR
  FREE = FREE
  NOBODY = NOBODY
  NL = NL
  GARBAGE = GARBAGE
  a = a
  Byte = {a, NL, GARBAGE}
  Threads = {t1, t2}
  Files = {f1}
  Blocks = {p1, p2, p3, p4}
  Payloads <- AllPayloads
  ReadCounts = {1, 3}
  Seeks <- SomeSeeks
  Commands <- SomeCommands
  UserBufs = {"ok"}
  Faults = {"KMALLOC"}
  MaxWrites = 4
  MaxLoads = 1
INVARIANTS NoLeak EveryByteSeekable
PROPERTIES ImplementsCommandLog ReadsTheConcatenation SeekReachesUnwrappedCommand
SYMMETRY Symmetry
CHECK_DEADLOCK FALSE

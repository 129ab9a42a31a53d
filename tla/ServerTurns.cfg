SPECIFICATION FairSpec
CONSTANTS
  MAX_OPS = 3
  NULL = NULL
  NOBODY = NOBODY
  NL = NL
  NoSeek = NoSeek
  GARBLED = GARBLED
  a = a
  Byte = {a, NL}
  Clients = {c1, c2}
  Requests <- WholeRequests
  Held <- SomeHeld
  FDs = {4, 5, 6}
  SeekValues <- SomeSeekValues
  MaxActive = 1
  Faults = {}
INVARIANTS ClientsAreServed EveryByteStored DescriptorsClosed
PROPERTIES ReplyIsTheContent ClientsAnswered
CHECK_DEADLOCK FALSE

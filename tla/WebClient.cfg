SPECIFICATION FairSpec
CONSTANTS
  Streams = {s1, s2}
  Uploads = {u1, u2}
  Locals = {l1}
  NoConn = NoConn
  MaxSessions = 3
  Chunks = 2
  MaxLen = 2
  SockCap = 1
  MaxRestarts = 1
INVARIANTS
  TypeOK
  NoConnectionLeaks
  ChunksInOrder
PROPERTIES
  StreamsKeepConnection
  CallbacksReturn
  LocalsServed
CHECK_DEADLOCK FALSE

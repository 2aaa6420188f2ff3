SPECIFICATION FairSpec
CONSTANTS
  Streams = {s1}
  Uploads = {u1}
  Locals = {l1}
  NoConn = NoConn
  MaxSessions = 1
  Chunks = 1
  MaxLen = 1
  SockCap = 1
  MaxRestarts = 0
PROPERTIES
  QueuedPlayback
CHECK_DEADLOCK FALSE

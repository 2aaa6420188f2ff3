SPECIFICATION FairSpec
CONSTANTS
  Conns = {c1, c2}
  NoConn = NoConn
  MaxFds = 2
  SockCap = 1
  MaxFrames = 2
INVARIANTS
  TypeOK
  SocketOwnership
  EveryClientTried
  DeviceDisabledLast
PROPERTIES
  NoDuplicateFrame
  StreamAligned
  FramesReturned
  ShutdownCompletes
CHECK_DEADLOCK FALSE

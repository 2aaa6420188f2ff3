SPECIFICATION FairSpec
CONSTANTS
  Conns = {c1, c2}
  NoClient = NoClient
  StreamLen = 2
INVARIANTS
  ChunksConserved
  SessionStartsEmpty
  NoLostWakeup
  NoStandstill
PROPERTIES
  ImplementsChannel
  OnlySocketCallsDelayExit
  ChunksDrain
  QueuedClientsServed
CHECK_DEADLOCK FALSE

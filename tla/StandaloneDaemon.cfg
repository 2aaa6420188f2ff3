SPECIFICATION FairSpec
CONSTANTS
  Conns = {c1, c2}
  NoClient = NoClient
  StreamLen = 3
INVARIANTS
  FrameHeldStill
  NoVainWait
PROPERTIES
  ImplementsLatest
  FramesLeave
  ClientsServed
CHECK_DEADLOCK FALSE

SPECIFICATION PoliteSpec
CONSTANTS
  Conns = {c1, c2}
  Requests <- SomeRequests
  NoConn = NoConn
  Nothing = Nothing
INVARIANTS
  NoDescriptorLeak
PROPERTIES
  EveryRequestAnswered
  StopSeenWhenQuiet

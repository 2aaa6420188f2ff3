SPECIFICATION FairSpec
INVARIANTS
  ResourcesOutliveThreads
  EchoNeedsOutput
  CleanReturn
PROPERTIES
  StopEnds
CHECK_DEADLOCK FALSE

SPECIFICATION FairSpec
CONSTANTS
  Files <- SomeFiles
  Switches <- SomeSwitches
  Louds <- SomeLouds
  Longs <- SomeLongs
  NoThread = NoThread
INVARIANTS
  ServersWhereConfigured
  AcceptedMeansUsed
PROPERTIES
  GettersReturn
CHECK_DEADLOCK FALSE

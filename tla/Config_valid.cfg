SPECIFICATION Spec
CONSTANTS
  Files <- WholeFiles
  Switches <- SomeSwitches
  Louds <- SomeLouds
  Longs <- SomeLongs
  NoThread = NoThread
INVARIANTS
  ValidAccepted
CHECK_DEADLOCK FALSE

SPECIFICATION Spec
CONSTANTS
  l1 = l1
  l2 = l2
  l3 = l3
  Launches = {l1, l2, l3}
  Background = {l1}
  None = None
SYMMETRY Symmetry
INVARIANTS
  RunningOwnsItsFile
  NoFileLeft
PROPERTIES
  RefusedByTheLiving
CHECK_DEADLOCK FALSE

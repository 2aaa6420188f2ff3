SPECIFICATION Spec
CONSTANTS
  l1 = l1
  l2 = l2
  l3 = l3
  Launches = {l1, l2}
  Background = {l1}
  None = None
INVARIANTS
  OneInstance
CHECK_DEADLOCK FALSE

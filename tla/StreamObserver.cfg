SPECIFICATION Spec
CONSTANTS
  MaxData = 2
  MaxSize = 2
  OutCap = 3
  MaxMounts = 2
INVARIANT ObserverWhole
CHECK_DEADLOCK FALSE

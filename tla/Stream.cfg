SPECIFICATION Spec
CONSTANTS
  MaxData = 2
  MaxSize = 1
  OutCap = 2
  MaxMounts = 2
INVARIANTS TypeOK ClosedIsLast NoGap NoStalledOutput TailDelivered NoZombieAttachment NoLostWakeup
CHECK_DEADLOCK FALSE

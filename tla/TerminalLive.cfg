SPECIFICATION FairSpec
CONSTANTS
  Sessions = {s1}
  OfAccount = {s1}
  OfClient = {s1}
  Callers = {"idle", "account"}
  MaxData = 2
INVARIANTS RefillBounded RemovedOnce
PROPERTIES CloseReturns ClosingEnds PurgeComplete
CHECK_DEADLOCK FALSE

SPECIFICATION Spec
CONSTANTS
  Sessions = {s1}
  OfAccount = {s1}
  OfClient = {s1}
  Callers = {"user"}
  MaxData = 1
INVARIANTS EventsOrdered
CHECK_DEADLOCK FALSE

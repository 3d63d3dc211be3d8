SPECIFICATION Spec
CONSTANTS
  Sessions = {s1}
  OfAccount = {s1}
  OfClient = {s1}
  Callers = {"user", "revoke", "destroy"}
  MaxData = 2
INVARIANTS TypeOK NoOrphanTransport TailComplete DestroyFinal AuditBalanced
PROPERTIES NoResurrection
CHECK_DEADLOCK FALSE

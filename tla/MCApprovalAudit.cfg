SPECIFICATION Spec
CONSTANTS
  c1 = c1
  Actions = {a1}
  Conns = {c1}
  ConnOf <- MCConnOf
  Background = {}
  Handlers = {h1, h2}
  Sweeper = sweeper
  TTL = 1
  Grace = 1
  MaxCreate = 1
  MaxTime = 4
INVARIANT AuditSettled
CHECK_DEADLOCK FALSE

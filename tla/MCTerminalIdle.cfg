SPECIFICATION UpSpec
CONSTANTS
  Sessions = {s1, s2}
  OfAccount = {}
  OfClient = {}
  Callers = {"idle"}
  MaxData = 0
PROPERTY IdleReaped
CHECK_DEADLOCK FALSE

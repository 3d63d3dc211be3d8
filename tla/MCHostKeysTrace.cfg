SPECIFICATION Spec
CONSTANTS
  Addrs = {a1, a2}
  Home = a1
  Keys = {k1, k2}
  NoKey = none
  Conns = {c1}
  Signers = 1
  Admins = {x1}
  Ops = {"update"}
INVARIANT PinLossTraced
CHECK_DEADLOCK FALSE

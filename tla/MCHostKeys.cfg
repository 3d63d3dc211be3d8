SPECIFICATION Spec
CONSTANTS
  Addrs = {a1, a2}
  Home = a1
  Keys = {k1, k2}
  NoKey = none
  Conns = {c1, c2}
  Signers = 2
  Admins = {x1, x2}
  Ops = {"update", "clear", "pin"}
SYMMETRY MCSymmetry
INVARIANTS TypeOK PinVouched SessionVouched OneTrustPerEpoch
PROPERTIES PinNeverReplaced
CHECK_DEADLOCK FALSE

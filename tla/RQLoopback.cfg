SPECIFICATION Spec
CONSTANTS
  Workers = {w1, w2}
  Loads <- MCLoads
  Sizes = {0, 2, 3}
  InBufs = {i1, i2, i3, i4}
  OutBufs = {o1, o2, o3, o4, o5}
  Pairs = {p1, p2, p3, p4}
  PageSize = 2
  DefaultPipe = 2
  MaxPipe = 4
  MaxFail = 1
  LoopbackXAttr = TRUE
INVARIANTS SizeProbeAnswered
CHECK_DEADLOCK FALSE

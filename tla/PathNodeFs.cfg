CONSTANTS
  Names = {"a", "b"}
  MaxNode = 4
  MaxObj = 4
  MaxIno = 2
  Handles = {h1}
  MaxRefs = 2
  MaxOps = 5
  Starts <- MCStarts
  Options <- MCOptions
  OutOfBand = TRUE
  LateForget = FALSE
  t1 = t1
  t2 = t2
SPECIFICATION MCSpec
INVARIANTS PathTranslates ActsOnOwnFile ClientInodeMapSound KnownNodesReachable MountNamed CallsOwnFile
SYMMETRY Swap
CHECK_DEADLOCK FALSE

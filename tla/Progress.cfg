SPECIFICATION MCSpec
CONSTANTS
  t1 = t1
  t2 = t2
  t3 = t3
  Nil = Nil
  Nobody = Nobody
  Threads <- ThreeThreads
  Nodes = {1, 2}
  NestedOnAdd = FALSE
CHECK_DEADLOCK FALSE
INVARIANT WaitsAscend
PROPERTIES SectionEnds Returns

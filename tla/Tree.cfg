SPECIFICATION Spec
CONSTANTS
  t1 = t1
  t2 = t2
  Nil = Nil
  Nobody = Nobody
  Root = 0
  Names = {1, 2}
  Threads <- TwoThreads
  LookupWidth = 8
  Loads <- SafetyLoads
INVARIANTS NothingLeaks KernelKnown OneNodePerIno
PROPERTIES NoLiveDrop CounterCoversState NoLiveEntryLost
SYMMETRY ThreadSymmetry
CHECK_DEADLOCK FALSE

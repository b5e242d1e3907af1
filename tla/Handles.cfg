SPECIFICATION MCSpec
CONSTANTS
  Nil = Nil
  None = None
  Objects = {o1, o2, o3}
  MaxCount = 2
  MaxGeneration = 5
  Nodes = {n1, n2}
  Threads = {t1, t2}
  MaxFiles = 3
  MaxStreams = 2
  EntrySizes = {1, 2}
  Prefix = 1
  BufferSizes = {3, 5}
  MaxEntries = 4
  MaxListing = 3
INVARIANTS HandleStable NoUseAfterRelease ListingExact
PROPERTIES ImplementsAbstract ReleaseEnds
CHECK_DEADLOCK FALSE

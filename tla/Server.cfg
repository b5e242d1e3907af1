SPECIFICATION MCSpec
CONSTANTS
  Loops = {main, l1, l2, l3}
  Main = main
  MAX_READERS = 2
  MaxRequests = 3
  Structs = {s1, s2, s3}
  Uniques = {u1, u2}
  Nil = Nil
INVARIANTS SomeoneReads ClosedAfterLoops CancelledByOwnInterrupt
PROPERTIES AllRead UnmountEnds InterruptArrives
CHECK_DEADLOCK FALSE

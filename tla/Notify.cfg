SPECIFICATION Spec
CONSTANTS
  Callers = {c1, c2}
  Kinds <- MCKinds
  Minors = {12, 23}
  MaxWrite = 1
  MaxStore = 1
  DataLen = 2
  MaxCalls = 2
  MaxOps = 1
  HoldsLocks = FALSE
INVARIANTS EndedOnce RetrievedInOrder
PROPERTIES CallsReturn
CHECK_DEADLOCK FALSE

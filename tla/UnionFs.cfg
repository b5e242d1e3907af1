SPECIFICATION MCSpec
CONSTANTS
  Nil = Nil
  Paths <- MCPaths
  RoTrees <- MCRoTrees
  Fids = {f1}
  MaxOps <- MCMaxOps
  MaxEvents = 2
  MaxSteps = 4
  Faults <- MCFaults
  d1 = d1
  d2 = d2
  n1 = n1
  n2 = n2
  config = config
  Procs = {p1, p2}
  Names <- MCNames
  Special <- MCSpecial
  Roots <- MCRoots
  AutoName <- ScanName
  MaxUnions = 3
  Links <- MCLinks
  Archives <- MCRoots
  MaxRoots = 3
  MaxChanges = 2
  MaxCalls = 3
SYMMETRY Alike
INVARIANTS AnswersAgree OpenFilesFollow MountsListed OneUnionPerRoot AnswersWereTrue
PROPERTIES OverlaySemantics FaultConfined
CHECK_DEADLOCK FALSE

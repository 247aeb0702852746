SPECIFICATION Spec
CONSTANTS
  a = a
  b = b
  Names = {a, b}
  Outline <- TwoPhases
  Executors = {e1, e2}
  MaxInt = 3
  MaxDec = 1
  MaxPlans = 1
  MaxOps = 2
  MaxWork = 2
  MaxFaults = 1
SYMMETRY Symmetry
INVARIANTS TypeOK NoWorkLost FindIsExact NumbersAgree AddedHasDirectory ArchiveIsWhole ManagerHasNext ReportsAgree
PROPERTIES RoadmapKeeps LastIsLast
CHECK_DEADLOCK FALSE

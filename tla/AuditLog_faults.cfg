SPECIFICATION Spec
CONSTANTS
  Nodes = {n1, n2}
  NoNode = NoNode
  Events = {Boot, LogAccess, e1}
  Boot = Boot
  LogAccess = LogAccess
  Faults = {"write_error", "torn"}
  SegmentMax = 2
  MaxEntries = 4
  MaxSegments = 3
INVARIANTS
  AckedSurvives
PROPERTIES
  AckedExtends
SYMMETRY NodeSymmetry

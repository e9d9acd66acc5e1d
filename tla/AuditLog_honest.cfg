SPECIFICATION Spec
CONSTANTS
  Nodes = {n1, n2}
  NoNode = NoNode
  Events = {Boot, LogAccess, e1}
  Boot = Boot
  LogAccess = LogAccess
  Faults = {}
  SegmentMax = 2
  MaxEntries = 5
  MaxSegments = 4
INVARIANTS
  ChainVerifies
  AnchorHolds
PROPERTIES
  ImplementsContract
SYMMETRY NodeSymmetry

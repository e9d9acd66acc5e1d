SPECIFICATION FairSpec
CONSTANTS
  Names = {b1}
  Calls = {c1, c2}
  MaxShards = 2
  MaxSealings = 2
  MaxFaults = 1
INVARIANTS
  AdmittedIsComplete
PROPERTIES
  JobsEnd

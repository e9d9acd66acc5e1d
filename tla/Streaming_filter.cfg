SPECIFICATION Spec
CONSTANTS
  Policies <- MCPolicies
  Replies <- MCReplies
  MaxText = 6
  MaxWide = 3
  Holdback = 2
  MinStride = 2
  StrideDivisor = 2
  MaxRead = 2
INVARIANTS
  ReleasedIsPrefix
  ReleasedIsAllowed
  DeliveredIsWhole

SPECIFICATION FairSpec
CONSTANTS
  Requests = {r1, r2}
  Clients = {c1, c2}
  Sids = {s1}
  Ephemerals = {e1, e2}
  Watched = c1
  Nobody = Nobody
  None = None
  MaxConcurrent = 1
  MaxSessions = 2
  MaxPerClient = 1
  ZeroOnEnd = TRUE
  MaxTokens = 2
  Rpm = 1
  Tpm = 1
INVARIANTS
  NoLeakedSession
  UsageWithinRate
  NobodyLockedOut
PROPERTIES
  SlotsComeBack

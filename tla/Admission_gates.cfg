SPECIFICATION FairSpec
CONSTANTS
  good = good
  stray = stray
  root = root
  alice = alice
  eve = eve
  admin = admin
  m1 = m1
  m2 = m2
  Conns <- MCConns
  Peer <- MCPeer
  Policy <- MCPolicy
  Asks <- MCAsks
  Texts <- MCTexts
  RequiresMtls = TRUE
  MayLapse = {stray}
  AuthThreshold = 2
  ProbeThreshold = 2
  CovertThreshold = 2
  CovertScoreThreshold = 450
  AuthWindow = 2
  ProbeWindow = 1
  CovertWindow = 1
  BlockFor = 2
  SuspendFor = {1, 2}
  Targets = {alice}
  MaxKeys = 1
  MaxEvents = 8
  SweepInterval = 1
  MaxRecent = 2
  MaxSuspensions = 2
INVARIANTS
  FloodIsBlocked
  SuspensionHolds
PROPERTIES
  BlockedForCause
  RetrierGetsIn

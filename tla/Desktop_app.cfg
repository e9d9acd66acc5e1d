SPECIFICATION FairSpec
CONSTANTS
  Choices <- MCChoices
  c1 = c1
  c2 = c2
  c3 = c3
  c4 = c4
  Certs = {c1, c2, c3, c4}
  Issued = {c1}
  ClientOf <- MCClientOf
  Keys = {k1}
  Threads = {t1, t2}
  Probe = {"tpm2"}
  NoOne = NoOne
  MaxCommands = 2
  MaxLaunches = 2
  MaxTries = 1
INVARIANTS
  RevokedIsShut
  PlaintextAccounted
  PreparedStarts
PROPERTIES
  StartsSettle
CHECK_DEADLOCK FALSE

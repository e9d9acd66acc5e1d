SPECIFICATION FairSpec
CONSTANTS
  Bundles = {b1}
  Manifests = {m1, m2}
  NoBundle = NoBundle
  AllowUnregistered = FALSE
  Ttl = 1
  Served = b1
  Supervised = TRUE
  HaltOnTamper = {TRUE, FALSE}
  Teardowns = {}
  Exit = Exit
  Actors = {"monitor", "recover", "provision", "quarantine", "disk"}
  MaxFaults = 0
INVARIANTS
  VerdictIsLatest
  FailedWeightsNotServed
PROPERTIES
  BadWeightsLeaveService

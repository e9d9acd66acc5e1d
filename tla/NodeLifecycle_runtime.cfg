SPECIFICATION FairSpec
CONSTANTS
  Bundles = {}
  Manifests = {m1}
  NoBundle = NoBundle
  AllowUnregistered = FALSE
  Ttl = 1
  Served = NoBundle
  Supervised = TRUE
  HaltOnTamper = {TRUE}
  Teardowns = {t1}
  Exit = Exit
  Actors = {"monitor", "recover", "teardown", "exit", "supervisor", "webui", "quarantine"}
  MaxFaults = 2
PROPERTIES
  OnlyOperatorResumes
  RuntimeComesBack
  ShutdownEnds
CHECK_DEADLOCK FALSE

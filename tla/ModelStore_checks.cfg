SPECIFICATION FairSpec
CONSTANTS
  Bundles = {b1}
  Manifests = {m1, m2}
  Checkers = {c1, c2}
  NoBundle = NoBundle
  AllowUnregistered = FALSE
  Ttl = 2
PROPERTIES
  BadShardsWithdrawn

SPECIFICATION Spec
CONSTANTS
  b1 = b1
  b2 = b2
  k1 = k1
  k2 = k2
  c1 = c1
  c2 = c2
  claude = claude
  codex = codex
  NoKey = NoKey
  NoProvider = NoProvider
  NoBody = NoBody
  Body <- TwoBodies
  Key <- OneKey
  Provider <- OneProvider
  ProviderOf <- SameProvider
  Controller <- OneController
  Jobs <- AllJobs
  MaxGen = 1
  MaxUserJobs = 1
  MaxCrashes = 1
  Stalls = FALSE
  Expiry = TRUE
SYMMETRY BodySymmetry
INVARIANT ResumeExclusive

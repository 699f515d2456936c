SPECIFICATION FairSpec
CONSTANTS
  b1 = b1
  b2 = b2
  k1 = k1
  k2 = k2
  c1 = c1
  c2 = c2
  claude = claude
  codex = codex
  NoKey = NoKey
  NoProvider = NoProvider
  NoBody = NoBody
  Body <- OneBody
  Key <- OneKey
  Provider <- OneProvider
  ProviderOf <- SameProvider
  Controller <- OneController
  Jobs <- AllJobs
  MaxGen = 2
  MaxUserJobs = 0
  MaxCrashes = 1
  Stalls = TRUE
  Expiry = FALSE
INVARIANT IdleMeansNoAgent
PROPERTY StartingSettles
PROPERTY RunningSettles
PROPERTY BindConverges

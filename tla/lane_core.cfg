SPECIFICATION Spec
CONSTANTS
  b1 = b1
  b2 = b2
  k1 = k1
  k2 = k2
  c1 = c1
  c2 = c2
  claude = claude
  codex = codex
  NoKey = NoKey
  NoProvider = NoProvider
  NoBody = NoBody
  Body <- OneBody
  Key <- TwoKeys
  Provider <- TwoProviders
  ProviderOf <- OneEach
  Controller <- TwoControllers
  Jobs <- NoResume
  MaxGen = 2
  MaxUserJobs = 0
  MaxCrashes = 0
  Stalls = FALSE
  Expiry = FALSE
SYMMETRY ControllerSymmetry
INVARIANT TypeOK
INVARIANT IdleMeansNoAgent
INVARIANT ForegroundIsOwn
INVARIANT BoundByOwnAgent
PROPERTY StopsOnlyItsAgent
INVARIANT GenerationOwned
PROPERTY LaneHistory

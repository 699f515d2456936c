SPECIFICATION Spec
CONSTANTS
  b1 = b1
  b2 = b2
  k1 = k1
  k2 = k2
  c1 = c1
  c2 = c2
  claude = claude
  codex = codex
  NoKey = NoKey
  NoProvider = NoProvider
  NoBody = NoBody
  Body <- OneBody
  Key <- OneKey
  Provider <- OneProvider
  ProviderOf <- SameProvider
  Controller <- OneController
  Jobs <- StopOnly
  MaxGen = 1
  MaxUserJobs = 0
  MaxCrashes = 0
  Stalls = FALSE
  Expiry = FALSE
PROPERTY ExitKeepsConversation

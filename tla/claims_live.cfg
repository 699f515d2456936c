SPECIFICATION HFairSpec
CONSTANTS
  s1 = s1
  s2 = s2
  t1 = t1
  t2 = t2
  p1 = p1
  p2 = p2
  Nobody = Nobody
  NoTask = NoTask
  Session <- TwoSessions
  Task <- TwoTasks
  Proc <- OneProc
  Founding <- FoundOne
  Stubs <- OneStub
  Forces <- Forced
  Commands <- WorkAndGates
  Transfers = TRUE
  OneAtATime = TRUE
  TemplateGates = 1
  MaxOpen = 1
  MaxClaims = 2
  MaxCrashes = 1
PROPERTY ClaimPublished
PROPERTY TransferFinished

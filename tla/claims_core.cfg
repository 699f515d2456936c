SPECIFICATION HSpec
CONSTANTS
  s1 = s1
  s2 = s2
  t1 = t1
  t2 = t2
  p1 = p1
  p2 = p2
  Nobody = Nobody
  NoTask = NoTask
  Session <- TwoSessions
  Task <- TwoTasks
  Proc <- TwoProcs
  Founding <- FoundNone
  Stubs <- NoStub
  Forces <- Unforced
  Commands <- NewToo
  Transfers = TRUE
  OneAtATime = TRUE
  TemplateGates = 1
  MaxOpen = 1
  MaxClaims = 2
  MaxCrashes = 1
SYMMETRY FullSymmetry
CHECK_DEADLOCK FALSE
INVARIANT TypeOK
INVARIANT CacheWasClaimed
INVARIANT OwnersInTurn
PROPERTY OwnershipKept
PROPERTY ProvenanceKept

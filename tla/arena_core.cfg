SPECIFICATION FairSpec
CONSTANTS
  p1 = p1
  p2 = p2
  r1 = r1
  r2 = r2
  Nobody = Nobody
  Coord <- TwoCoords
  Run <- OneRun
  Assignments <- InOrder
  NumEvents = 2
  OnTimeout <- SkipThenFail
  AfterExit <- NoneAfterExit
  Checks <- NoCheck
  Judges <- OneJudge
  MaxInterventions = 2
  MaxTroubles = 1
  MaxPrints = 1
CHECK_DEADLOCK FALSE
INVARIANT TypeOK
INVARIANT ReportHasEvidence
INVARIANT NoOrphanWorker
PROPERTY AtMostOnce
PROPERTY ExecutionEnds

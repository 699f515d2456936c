SPECIFICATION Spec
CONSTANTS
  t1 = t1
  t2 = t2
  t3 = t3
  c1 = c1
  Task <- ThreeTasks
  Session <- OneCache
  BaseTask = t1
  Base = 98
  About <- InACircle
  ChatAbout = t2
  Padded <- OneCircled
  Number <- FourNumbers
  Targets <- TargetNumbers
CHECK_DEADLOCK FALSE
INVARIANT PointersFollow

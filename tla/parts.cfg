SPECIFICATION Spec
CONSTANTS
  l1 = l1
  l2 = l2
  m1 = m1
  e1 = e1
  t1 = t1
  t2 = t2
  t3 = t3
  c1 = c1
  a1 = a1
  a2 = a2
  h1 = h1
  u1 = u1
  j1 = j1
  j2 = j2
  j3 = j3
  MaxFaults = 1
  Loop <- TwoLoops
  NoLoop = NoLoop
  MaxLosses = 1
  Message <- OneMessage
  Event <- OneEvent
  BaseMid = 1
  TargetMid = 3
  MaxTries = 2
  MaxKills = 1
  Task <- ThreeTasks
  Session <- OneCache
  BaseTask = t1
  Base = 98
  Padded <- OneCircled
  About <- InACircle
  ChatAbout = t2
  Number <- FourNumbers
  Targets <- TargetNumbers
  FirstGates <- TwoGates
  NewGate = "c"
  MaxEdits = 2
  Convo <- TwoConvos
  Shell <- OneShell
  NoConvo = NoConvo
  NoShell = NoShell
  MaxName = 2
  MyHook <- OneHook
  MaxTouches = 2
  MaxLines = 4
  Judge <- ThreeJudges
  LabelOf <- TwoLabels
CHECK_DEADLOCK FALSE
INVARIANT TypeOK
INVARIANT AnswersSound
INVARIANT ReminderSurvives
INVARIANT EntriesOnceInOrder
INVARIANT MergeSound
INVARIANT EditsInOrder
INVARIANT NamesHold
INVARIANT HooksSettle
PROPERTY WaitsEnd

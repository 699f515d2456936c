SPECIFICATION Spec
CONSTANTS
  i1 = i1
  Installer <- OneInstaller
  Kind <- ThreeKinds
  DirOf <- ThreeDirs
  Windows = FALSE
  Interrupts = TRUE
  MaxEdits = 1
  MaxFaults = 1
PROPERTY FailureRollsBack

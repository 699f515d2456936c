SPECIFICATION FairSpec
CONSTANTS
  i1 = i1
  Installer <- OneInstaller
  Kind <- FourKinds
  DirOf <- FourDirs
  Windows = FALSE
  Interrupts = FALSE
  MaxEdits = 1
  MaxFaults = 1
INVARIANT TypeOK
PROPERTY UserTextKept
PROPERTY AllOrNothing
PROPERTY Converges
PROPERTY LitterGoes

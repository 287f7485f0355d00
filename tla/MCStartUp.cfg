SPECIFICATION Spec
CONSTANTS
  MaxFd = 4
  Dirs = 2
  Preserved <- MCPreserved
  Restricted <- MCRestricted
  Length <- MCLength
  ValueLengths = {5}
INVARIANTS StartUpType FilesApart MessagesReady ReadyMeansReady NotFoundIsTrue EnvironmentFits AssertionsHold
\* The program ends.
CHECK_DEADLOCK FALSE

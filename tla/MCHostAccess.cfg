SPECIFICATION Spec
CONSTANTS
  Stem <- MCStem
  Runs <- MCRuns
  SIZE_UNIT = 2
  U64 = 10
  LEVELS = 5
  ROOM = 2
  Machines <- MCMachines
CHECK_DEADLOCK FALSE
INVARIANTS
  MarksAreExact
  NumberNamesTheDrive
  NothingMountedMeanwhile
PROPERTY AccessEnds

SPECIFICATION Spec
CONSTANTS
  ImageBytes = 9
  SectorBytes = 2
  BlockSectors = 2
  DriveSectors = 6
  HeadSectors = 1
  TailSectors = 1
  OpenTries = 2
CHECK_DEADLOCK FALSE
INVARIANT WholeIsNotSaidOfADifference

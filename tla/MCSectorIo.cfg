SPECIFICATION MCSpec
CONSTANTS
  NumSectors = 3
  SectorBytes = 2
  v1 = v1
  v2 = v2
  Values <- MCValues
  Capacity = 2
  MergeSectors = 3
VIEW StoreView
SYMMETRY AnyValue
INVARIANTS
  WaitingIsOneRun
  NeverInBoth
  CleanSlotsAgree
PROPERTY ImplementsPlainBuffer

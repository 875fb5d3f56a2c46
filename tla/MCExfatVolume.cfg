CONSTANTS
  ALIGN = 1536
  SECTOR_SIZES = {64}
  SmallVolume = 8192
  MiddleVolume = 16384
  SmallCluster = 128
  MiddleCluster = 256
  LargeCluster = 512
  MAX_CLUSTERS = 1000
  U32 = 65535
  UnitsOf <- MCUnits
  Up <- MCUp
  BadNames = {":"}
  ENTRY_BYTES = 32
  UNITS_PER_NAME_ENTRY = 15
  MAX_DIRECTORY_BYTES = 384
  TableBytes = 100
  VolumeBytes = 4224
  SectorBytes = 64
  U64 = 536870911
  Trees <- MCTrees
  MaxHarm <- MCHarm
SPECIFICATION Spec
INVARIANTS
  PlacedReadsBack
  ReadsInside
  AcceptedIsSound
  WalkIsBounded
CHECK_DEADLOCK FALSE

CONSTANTS
  ALIGN = 1048576
  SECTOR_SIZES = {512, 2048}
  U32 = 524287
  U64 = 1073741823
  SmallVolume = 150994944
  MiddleVolume = 184549376
  SmallCluster = 512
  MiddleCluster = 4096
  LargeCluster = 32768
  MAX_CLUSTERS = 400000
  UnitsOf <- MCUnits
  Up <- MCUp
  BadNames = {}
  ENTRY_BYTES = 32
  UNITS_PER_NAME_ENTRY = 15
  MAX_DIRECTORY_BYTES = 262144
  TableBytes = 5836
  BOOT_FILES <- MCStarts
  WIM <- MCWim
  ESD <- MCEsd
  UNATTEND <- MCUnattend
  UnattendBytes = 3000
  CLUSTER = 2048
  BOOT_ROOM = 524288
  Jobs <- MCJobs
  RESERVED_SECTORS = 8
  MIN_CLUSTERS = 255
  MAX_CLUSTER_BYTES = 2048
  MAX_FAT32_FILE_BYTES = 33554431
  CHUNK_BYTES = 1048576
  SLOT_BYTES = 128
  SLOT_UNITS = 1
  LabelSlots = 1
  Short <- MCShort
  Gives <- MCGives
SPECIFICATION Spec
INVARIANTS
  LayoutHolds
  NeededIsLeast
  BootHasRoom
  FilesAreWhole
  DotsAreRight
CHECK_DEADLOCK FALSE

CONSTANTS
  SECTOR = 4
  DEEPEST = 2
  FIRST = 1
  BadNames = {"", ".", ".."}
  ANCHOR_BLOCK = 4
  MOST_POINTERS = 2
  MOST_CONTINUATIONS = 2
  MOST = 4
  MOST_AREAS = 2
  Plain <- MCPlain
  Images <- MCImages
  Args <- MCArgs
  INSTALLS <- MCInstalls
  Lower <- MCLower
  Apps = {"x.app"}
  Buffers = {1, 3}
SPECIFICATION Spec
INVARIANTS
  TreeReadsBack
  TakenTreeIsSound
PROPERTIES
  ImageEnds
CHECK_DEADLOCK FALSE

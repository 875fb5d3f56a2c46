SPECIFICATION Spec
CONSTANTS
  live = live
  mirror = mirror
  stick = stick
  lookalike = lookalike
  large = large
  Drives <- MCDrives
  Facts <- MCFacts
  MaxNames = 3
  ImageSize = 2
CHECK_DEADLOCK FALSE
INVARIANTS
  ErasesWhatWasShown
  SystemDiskIsSafe
  FixedNeedsForce
  HasRoom
PROPERTY EndsOrWaits

SPECIFICATION Spec
CHECK_DEADLOCK FALSE
INVARIANTS
  TypeOK
  NoOldUnderTheNewTable
  
  RefusedTreeLeavesTheVolume
  WrittenIsOnTheMedium
  CheckProves
PROPERTY ErrorIsTheCause

CONSTANTS
  Captures <- Nibble
  Playbacks <- Nibble
SPECIFICATION Spec
INVARIANTS
  TypeOK
  WindowsDisjoint
  ListedUsable
  BootsOnOwnStream
CHECK_DEADLOCK FALSE

CONSTANTS
  Span = 8
  MaxFaults = 2
  Places = {1, 2}
  MaxCaps = 1
  Attempts = 2
  Lists <- MCLists
  SdSts <- MCSdSts
SPECIFICATION Spec
INVARIANTS
  TypeOK
  SetupComplete
  OneByteWritten
  ReadyToBoot
  GatingRestored
  OtherBitsKept
  AccessesReach
PROPERTIES
  EnabledWhenClear
  ProgramEnds
CHECK_DEADLOCK FALSE

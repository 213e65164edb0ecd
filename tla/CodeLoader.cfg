SPECIFICATION Spec
INVARIANTS
  TypeOK
  PreparedRight
PROPERTIES
  ProgrammedAtRest
  NeverRestarted
  FormatWhileCoupled
CHECK_DEADLOCK FALSE

CONSTANTS
  Page = 4
  MaxEntries = 5
  Base = 8
  IntMax = 31
  Buffers <- AllBuffers
  PeriodSizes <- SomePeriods
SPECIFICATION Spec
INVARIANTS
  TypeOK
  BdlBounded
  EntriesTile
  CutsExactly
  IocPerPeriod
CHECK_DEADLOCK FALSE

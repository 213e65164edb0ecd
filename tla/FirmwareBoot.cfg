CONSTANTS
  Cores = {c0, c1, c2}
  Core0 = c0
  Attempts = 3
  PollReads = 2
  Faulty = TRUE
SPECIFICATION Spec
INVARIANTS
  TypeOK
  SecondaryCoresHeld
  Core0StartsPrepared
  NoCoreRunsBetweenAttempts
  DmaQuiet
  BootedMeansEntered
  SignalsGenuine
PROPERTIES
  PowerDownOnlyStalled
  ContractSpec
  Termination
CHECK_DEADLOCK FALSE

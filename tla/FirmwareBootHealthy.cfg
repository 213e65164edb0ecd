CONSTANTS
  Cores = {c0, c1, c2}
  Core0 = c0
  Attempts = 3
  PollReads = 2
  Faulty = FALSE
SPECIFICATION HealthySpec
PROPERTIES
  HealthyBoot
CHECK_DEADLOCK FALSE

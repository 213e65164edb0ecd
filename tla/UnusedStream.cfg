CONSTANTS
  Captures <- Nibble
  Playbacks <- Nibble
SPECIFICATION Spec
INVARIANT GotUnusedStream
CHECK_DEADLOCK FALSE

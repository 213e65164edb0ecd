CONSTANTS
  Places = {1, 2}
  MaxCaps = 2
  Span = 8
  Unanswered = {1, 2, 3, 4}
SPECIFICATION Spec
INVARIANTS
  TypeOK
  FoundExactly
PROPERTIES
  WalkEnds
CHECK_DEADLOCK FALSE

CONSTANTS
  FileSizes = {0, 1, 2, 3, 4, 5}
  Indeterminate = {0, 3, 7}
SPECIFICATION Spec
INVARIANT PlaysTheBuffer
CHECK_DEADLOCK FALSE

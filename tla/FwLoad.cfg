CONSTANTS
  FileSizes = {0, 1, 2, 3, 4, 5}
  Indeterminate = {0, 3, 7}
SPECIFICATION Spec
INVARIANTS
  TypeOK
  FileClosed
  DmabDescribesMapping
CHECK_DEADLOCK FALSE

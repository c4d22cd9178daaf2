SPECIFICATION Spec
CONSTANTS
  kCheapPrepend = 2
  InitialSize = 4
  ExtraSize = 3
  MaxBytes = 9
  Lens = {0, 1, 2, 3, 5}
INVARIANT
  NeverOverrun
CHECK_DEADLOCK FALSE

CONSTANTS
  r1 = r1
  r2 = r2
  Requests <- MCRequests
  NWriters = 2
  Capture  = 2
  Cap      = 1
  MaxUp    = 1
  MaxDown  = 2
SPECIFICATION Spec
INVARIANTS
  CloseAfterWholeBody
CHECK_DEADLOCK FALSE

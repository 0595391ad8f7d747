CONSTANTS
  r1 = r1
  r2 = r2
  None = None
  Requests <- MCRequests
SPECIFICATION Spec
INVARIANTS
  CustomDNSIsAsked
CHECK_DEADLOCK FALSE

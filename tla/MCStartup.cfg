CONSTANTS
  r1 = r1
  r2 = r2
  None = None
  Requests <- MCRequests
SPECIFICATION FairSpec
INVARIANTS
  TypeOK
  TransportBeforeRequests
  OneServerAlone
PROPERTIES
  AllOrNone
CHECK_DEADLOCK FALSE

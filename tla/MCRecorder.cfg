CONSTANTS
  r1 = r1
  r2 = r2
  r3 = r3
  Requests <- MCRequests
  Cap      = 1
SPECIFICATION FairSpec
INVARIANTS
  TypeOK
  Accounted
  StoredOnce
  AnnouncedIsStored
PROPERTIES
  ImplementsLog
  RelayedIsStored
CHECK_DEADLOCK FALSE

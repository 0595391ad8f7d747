CONSTANTS
  r1 = r1
  r2 = r2
  c1 = c1
  c2 = c2
  Requests <- MCRequests
  Conns    <- MCConns
  Cap      = 1
  Hello    = Hello
  Nobody   = Nobody
SPECIFICATION FairSpec
INVARIANTS
  NoMissedRecord
  ToldIsStored
PROPERTIES
  StalledClientLosesNothing
CHECK_DEADLOCK FALSE

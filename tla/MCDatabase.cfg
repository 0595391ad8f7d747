CONSTANTS
  p1 = p1
  p2 = p2
  p3 = p3
  other = other
  Procs <- MCProcs
  OtherNames <- MCOtherNames
SPECIFICATION FairSpec
INVARIANTS
  TypeOK
  TableIsThere
  NewDatabase
PROPERTIES
  StartEnds
CHECK_DEADLOCK FALSE

CONSTANTS
  q1 = q1
  q2 = q2
  q3 = q3
  Nothing = Nothing
  Blank = " "
  NotGzip = NotGzip
  MinWord = 2
  PeekLength = 2
  ReadAhead = 1
  Sizes = {1, 2}
  Safe <- MCSafe
  Unsafe <- MCUnsafe
  LowerOf <- MCLowerOf
  Gunzip <- MCGunzip
  HexDigit <- MCHexDigit
  HexOf <- MCHexOf
  NumberIn <- MCNumberIn
  Requests <- MCRequests
  Contents <- MCContents
  Queries <- MCQueries
SPECIFICATION Spec
INVARIANTS
  TypeOK
  WalkFindsAll
  FoundForAReason
  PageCounted
  FetchedIsCaptured

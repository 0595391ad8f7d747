CONSTANTS
  h1 = h1
  h2 = h2
  h3 = h3
  n1 = n1
  k1 = k1
  k2 = k2
  Absent  = Absent
  Torn    = Torn
  Nobody  = Nobody
  Handshakes <- MCHandshakes
  Hosts      <- MCHosts
  Roots      <- MCRoots
  HostOf     <- MCHostOf
SPECIFICATION FairSpec
INVARIANTS
  TypeOK
  LookupSucceeds
PROPERTIES
  PairKept
  HandshakeEnds
CHECK_DEADLOCK FALSE

CONSTANTS
  c1 = c1
  c2 = c2
  m1 = m1
  m2 = m2
  Conns    <- MCConns
  Messages <- MCMessages
  Hello    = Hello
  Nobody   = Nobody
SPECIFICATION FairSpec
INVARIANTS
  TypeOK
  OneWriterPerConn
  NoWriteAfterClose
  FramesInOrder
  EndedReaderUnregistered
PROPERTIES
  BroadcastsEnd
  GoneIsClosed
CHECK_DEADLOCK FALSE

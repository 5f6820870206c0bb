SPECIFICATION FairSpec
CONSTANTS
  a = a
  b = b
  Conn = {a, b}
  NoConn = none
  Value = {0, 3, 6}
  Magic <- MCMagic
  Radix = 7
  Image <- MCImage
  Md5Len = 1
  Nonce = {n}
  NoNonce = nn
  AuthLen = 2
  AuthReply <- MCReply
  AuthCompiled = TRUE
  Password = TRUE
  Version = 2
  BlockSize = 2
  BufSize = 2
  Backlog = 1
  Window = 1
  SlotSize = 3
  HandshakeTimeout = 0
  DataTimeout = 0
  Segment <- MCSegment
  FaultsMayHappen = TRUE
INVARIANTS
  TypeOK
  SlotNotLeaked
  IdleIsClean
  NoLostWake
  ChunksAreTrue
PROPERTIES
  ImplementsUpdate
  Served
CHECK_DEADLOCK FALSE

SPECIFICATION FairSpec
CONSTANTS
  Node = {a}
  NoNode = none
  Value = {0, 1, 2}
  Magic <- MCMagic
  Radix = 3
  Image <- MCImage
  Md5Len = 1
  Nonce = {n}
  NoNonce = nn
  AuthLen = 2
  AuthReply <- MCReply
  Password = TRUE
  Version = 2
  BlockSize = 1
  BufSize = 2
  RxRingMax = 2
  SlotSize = 2
  HandshakeTimeout = 1
  DataTimeout = 2
  Datagram <- MCDatagram
  SendMayFail = TRUE
  FaultsMayHappen = TRUE
INVARIANTS
  TypeOK
  BackendInSession
  SlotNotLeaked
  IdleIsClean
  ProgressIsTrue
PROPERTIES
  ImplementsUpdate
  SessionEnds

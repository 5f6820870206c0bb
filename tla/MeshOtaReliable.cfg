SPECIFICATION SysFairSpec
CONSTANTS
  a = a
  b = b
  Node = {a}
  NoNode = none
  Value = {0, 1, 2, 3, 4, 5, 6}
  Magic <- MCMagic
  Radix = 7
  Image <- MCLongImage
  Md5Len = 1
  Nonce = {n}
  NoNonce = nn
  AuthLen = 2
  AuthReply <- MCReply
  Password = TRUE
  Version = 2
  BlockSize = 4
  BufSize = 2
  RxRingMax = 4
  SlotSize = 7
  HandshakeTimeout = 1
  DataTimeout = 1
  Datagram <- MCDatagram
  SendMayFail = FALSE
  FaultsMayHappen = FALSE
  Offer <- MCOffer
  Knows = {a}
  Features = 2
  WrongReply <- MCWrongReply
  MaxDatagram = 3
  MaxNet = 4
  MaxTries = 2
  Timed = FALSE
  Lossy = FALSE
  Unordered = FALSE
  MaxRepeats = 0
  Impatient = FALSE
INVARIANTS
  ReceiveWindow
PROPERTIES
  TransferCompletes
CHECK_DEADLOCK FALSE

VIEW MCView
SPECIFICATION SysSpec
CONSTANTS
  a = a
  b = b
  Node = {a, b}
  NoNode = none
  Value = {0, 1, 2, 3, 4, 5, 6}
  Magic <- MCMagic
  Radix = 7
  Image <- MCImage
  Md5Len = 1
  Nonce = {n}
  NoNonce = nn
  AuthLen = 2
  AuthReply <- MCReply
  Password = TRUE
  Version = 2
  BlockSize = 2
  BufSize = 1
  RxRingMax = 2
  SlotSize = 4
  HandshakeTimeout = 1
  DataTimeout = 1
  Datagram <- MCDatagram
  SendMayFail = TRUE
  FaultsMayHappen = TRUE
  Offer <- MCOffer
  Knows = {a}
  Features = 2
  WrongReply <- MCWrongReply
  MaxDatagram = 2
  MaxNet = 2
  MaxTries = 1
  Timed = TRUE
  Lossy = TRUE
  Unordered = FALSE
  MaxRepeats = 0
  Impatient = TRUE
INVARIANTS
  OnlyKnowing
  NoCrash
CHECK_DEADLOCK FALSE

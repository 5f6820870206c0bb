SPECIFICATION Spec
CONSTANTS
  c1 = c1
  c2 = c2
  c3 = c3
  Conn = {c1, c2, c3}
  NoConn = none
  MaxAccepted = 2
  Window = 2
  Rx <- MCRx
  Tx <- MCTx
  Nodelay = TRUE
  Preempt = TRUE
INVARIANTS
  TypeOK
  CallbacksMatch
  StreamIntact
  WindowTrue
  PbufsAccounted
  DataWakes
  SentOnce
CHECK_DEADLOCK FALSE

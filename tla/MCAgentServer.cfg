CONSTANTS
  Conn = {c1, c2}
  Request = {r1, r2}
  Fd = {f1, f2}
  NoFd = NoFd
  NoConn = NoConn
  NoRequest = NoRequest
  MaxNesting = 2
  CloseWakesRecv = FALSE
SPECIFICATION Spec
SYMMETRY Symmetry
INVARIANTS
  TypeOK
  RequestsAreOwned
  StoppedIsQuiet
  LiveConnectionStaysOpen
  ClientSocketIsCurrent
  OutputIsOwn
PROPERTIES
  AnswersStayOnTheConnection
  RequestsRunAtMostOnce

CONSTANTS
  Conn = {c1, c2}
  Request = {r1}
  Fd = {f1, f2}
  NoFd = NoFd
  NoConn = NoConn
  NoRequest = NoRequest
  MaxNesting = 1
  CloseWakesRecv = FALSE
SPECIFICATION FairSpec
PROPERTY StopReturns

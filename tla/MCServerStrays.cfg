CONSTANTS
  Conn = {c1, c2, c3, c4}
  Request = {r1}
  Fd = {f1}
  NoFd = NoFd
  NoConn = NoConn
  NoRequest = NoRequest
  MaxNesting = 1
  CloseWakesRecv = FALSE
SPECIFICATION Spec
PROPERTY AnswersReachTheirSender

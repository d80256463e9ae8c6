CONSTANTS
  Conn = {c1, c2}
  Request = {r1}
  Fd = {f1, f2}
  NoFd = NoFd
  NoConn = NoConn
  NoRequest = NoRequest
  MaxNesting = 1
  CloseWakesRecv = TRUE
SPECIFICATION FairSpec
PROPERTIES
  StopReturns
  WaitsEnd
  ConnectionsAreTakenUp

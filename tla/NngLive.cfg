SPECIFICATION Spec
CONSTANTS
  Aios = {"x"}
  MaxOps = 2
  MaxAborts = 1
  None = None
  Contexts = {"m", "c"}
  Master = "m"
  Pipes = {"x", "y"}
  Nobody = Nobody
  NoRetry = {"c"}
  MaxSends = 2
  MaxLosses = 1
  MaxRequests = 2
  MaxEnds = 1
  DialConns = {"a"}
  AcceptConns = {}
  Listener = {}
  Ops = {"in", "out"}
  HangUp = TRUE
  Shortage = FALSE
PROPERTIES
  AioEnds
  SocketsGoOn
  EndpointsReturn
  TransportDelivers
  PollServes
CHECK_DEADLOCK FALSE

SPECIFICATION LibrariesSpec
CONSTANTS
  Aios = {"x", "y"}
  MaxOps = 1
  MaxAborts = 1
  None = None
  Contexts = {"m", "c"}
  Master = "m"
  Pipes = {"x", "y"}
  Nobody = Nobody
  NoRetry = {"c"}
  MaxSends = 2
  MaxLosses = 1
  MaxRequests = 2
  MaxEnds = 2
  Width = 5
  Ids <- SomeIds
  Values = {"a"}
  Lo = 1
  Hi = 2
  MaxCount = 6
  DialConns = {"a"}
  AcceptConns = {"c"}
  Listener = {"l"}
  Ops = {"in", "out"}
  HangUp = TRUE
  Shortage = TRUE
INVARIANTS
  AioSound
  RepSound
  EndpointsSound
  PollSound
  TextsSound
PROPERTIES
  ReqSound
  TablesSound
  TransportSound
CHECK_DEADLOCK FALSE

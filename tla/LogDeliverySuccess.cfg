\* One tracer, two events, one of them unstorable; no fault.
SPECIFICATION Spec
CONSTANTS
  t1 = t1
  t2 = t2
  m1 = m1
  m2 = m2
  m3 = m3
  Tracers <- OneTracer
  Events <- TwoEvents
  Quoted <- OneQuoted
  MaxConn = 1
  MaxFaults = 0
  MaxSend = 2
INVARIANTS
  SuccessIsStored
CHECK_DEADLOCK FALSE

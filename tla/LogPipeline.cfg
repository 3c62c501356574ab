\* One tracer, a plain and a poison event, one parser; one fault of the
\* delivery and one disturbance of the parser.
SPECIFICATION FairSpec
CONSTANTS
  t1 = t1
  m1 = m1
  m2 = m2
  p1 = p1
  Tracers <- OneTracer
  Events <- TwoEvents
  Quoted <- NoneQuoted
  MaxConn = 1
  MaxFaults = 1
  MaxSend = 1
  Parsers <- OneParser
  Kinds <- PlainAndPoison
  DetailColumns <- Columns
  MaxRows = 3
  MaxDisturb = 1
  AttemptCap = 0
  KindOf <- FirstPlain
INVARIANTS
  AckedIsKept
  DetailsPaidFor
PROPERTIES
  PlainEventsParsed
  DialedIsAnswered
CHECK_DEADLOCK FALSE

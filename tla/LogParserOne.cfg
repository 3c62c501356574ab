\* One parser, three rows of every kind, two disturbances.
SPECIFICATION FairSpec
CONSTANTS
  p1 = p1
  p2 = p2
  Parsers <- OneParser
  Kinds <- AllKinds
  DetailColumns <- InsertColumns
  MaxRows = 3
  MaxDisturb = 2
  AttemptCap = 0
INVARIANTS
  OneSurplusPerDisturbance
  NothingPassesPoison
PROPERTIES
  ImplementsEventLog
  PlainRowsClosed

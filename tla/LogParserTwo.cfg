\* Two parsers started beside each other, two rows, two disturbances of each.
SPECIFICATION Spec
CONSTANTS
  p1 = p1
  p2 = p2
  Parsers <- TwoParsers
  Kinds <- AllKinds
  DetailColumns <- InsertColumns
  MaxRows = 2
  MaxDisturb = 2
  AttemptCap = 0
INVARIANTS
  ClosedHasDetail
  DuplicatesBounded
SYMMETRY Symmetry

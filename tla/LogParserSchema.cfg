\* A well-formed row, the detail table as the DDL script creates it, and the
\* six attempts that break the limit.
SPECIFICATION Spec
CONSTANTS
  p1 = p1
  p2 = p2
  Parsers <- OneParser
  Kinds <- OnlyPlain
  DetailColumns <- ShippedColumns
  MaxRows = 1
  MaxDisturb = 0
  AttemptCap = 6
INVARIANTS
  RetriesBounded

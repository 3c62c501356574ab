\* Files of up to five blocks, and what the confirmation dialog says.
SPECIFICATION Spec
CONSTANTS
  Blocks = {b1, b2, b3, b4, b5}
  ERASER_SIZE = 2
  MaxSize = 9
INVARIANTS
  Unrecoverable
CHECK_DEADLOCK FALSE

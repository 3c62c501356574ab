\* Files of 0 to 7 bytes on four blocks of two bytes.
SPECIFICATION ClientSpec
CONSTANTS
  Blocks = {b1, b2, b3, b4}
  ERASER_SIZE = 2
  MaxSize = 7
  Files = {"file", "temp"}
  TempFiles = {"temp"}
  MAX_CNT = 12
INVARIANTS
  ErasureSafe
  GlobalsSound
  ErasedIsLogged
  CompleteIsGone
  StartsAreEnded
PROPERTIES
  ViewSound
CHECK_DEADLOCK FALSE

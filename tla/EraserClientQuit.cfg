\* The window is closed while the program still authenticates.
SPECIFICATION FairSpec
CONSTANTS
  Files = {f1, f2}
  TempFiles = {f2}
  Locked = {}
  MAX_CNT = 12
  MaxClicks = 2
  MaxFaults = 0
  MaxExpire = 1
PROPERTIES
  QuitEnds
CHECK_DEADLOCK FALSE

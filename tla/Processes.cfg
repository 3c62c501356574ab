\* Two installed clients and one from another directory; two scripts.
SPECIFICATION ProcessSpec
CONSTANTS
  Procs = {a, b, c}
  Installed = {a, b}
  Scripts = {"s1", "s2"}
  MaxPid = 4
  Configs <- AnyConf
  Missing = Missing
  MaxEdits = 1
INVARIANTS
  OneRuns
  HostSound
PROPERTIES
  AloneRuns
  HandlersReturn
  OrderlyClose
  StartsSettle
CHECK_DEADLOCK FALSE

CONSTANTS
  Devices <- SomeDevices
  Entry = 2
  ClusterSize = 16
  MaxCont = 3
  EnameMax = 1
  Start = 1
  Mark = 2
SPECIFICATION Spec
INVARIANTS SetsLogged ScannedAfterErrors
PROPERTIES Ends
CHECK_DEADLOCK FALSE

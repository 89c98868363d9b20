CONSTANTS
  a = a
  b = b
  x = x
  y = y
  Nodes = {a, b}
  Dirs = {}
  UMax = 31
  Vals = {x, y}
  NClusters = 4
  ClusterSize = 1
  MaxSize = 4
  Reserved = {}
  Layouts <- FreshLayouts
  FatGarbage = {0}
  Buffers = {}
  ReadSizes = {}
  FaultKinds = {}
  MaxFaults = 0
  NoAtime = TRUE
SPECIFICATION Spec
INVARIANT ContiguousHolds

CONSTANTS
  a = a
  b = b
  x = x
  y = y
  Nodes = {a, b}
  Dirs = {}
  UMax = 31
  Vals = {x, y}
  NClusters = 3
  ClusterSize = 2
  MaxSize = 4
  Reserved = {3}
  Layouts <- FreshLayouts
  FatGarbage = {2}
  Buffers <- FewBuffers
  ReadSizes = {3}
  FaultKinds = {}
  MaxFaults = 0
  NoAtime = TRUE
SPECIFICATION Spec
PROPERTIES RefinesByteFiles
SYMMETRY Symmetry
CONSTRAINT SaneOnly

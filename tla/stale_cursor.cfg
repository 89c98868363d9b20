CONSTANTS
  a = a
  b = b
  x = x
  y = y
  Nodes = {a}
  Dirs = {}
  UMax = 31
  Vals = {x, y}
  NClusters = 6
  ClusterSize = 1
  MaxSize = 4
  Reserved = {}
  Layouts <- LoneLayouts
  FatGarbage = {0}
  Buffers <- FewBuffers
  ReadSizes = {1}
  FaultKinds = {"fatRead"}
  MaxFaults = 1
  NoAtime = TRUE
SPECIFICATION Spec
INVARIANT WriteInFile

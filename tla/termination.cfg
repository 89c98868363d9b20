CONSTANTS
  a = a
  b = b
  x = x
  y = y
  Nodes = {a}
  Dirs = {}
  UMax = 31
  Vals = {x, y}
  NClusters = 4
  ClusterSize = 1
  MaxSize = 3
  Reserved = {}
  Layouts <- LoneLayouts
  FatGarbage = {2}
  Buffers <- FewBuffers
  ReadSizes = {2}
  FaultKinds = {"fatRead", "fatWrite", "dataRead", "dataWrite"}
  MaxFaults = 1
  NoAtime = FALSE
SPECIFICATION FairSpec
PROPERTIES Termination

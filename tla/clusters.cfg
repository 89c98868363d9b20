CONSTANTS
  a = a
  b = b
  x = x
  y = y
  Nodes = {a, b}
  Dirs = {}
  UMax = 31
  Vals = {x}
  NClusters = 4
  ClusterSize = 1
  MaxSize = 4
  Reserved = {}
  Layouts <- UsedLayouts
  FatGarbage = {0, 2}
  Buffers <- OneBuffer
  ReadSizes = {3}
  FaultKinds = {"fatRead", "fatWrite", "dataWrite"}
  MaxFaults = 1
  NoAtime = TRUE
SPECIFICATION Spec
INVARIANTS
  TypeOK Ownership NoLeak Linked Settled NoBug EnospcRestores
  FailedGrowKeepsData Inductive
PROPERTIES OwnWrites
SYMMETRY Symmetry
CONSTRAINT SaneOnly

CONSTANTS
  NameMax = 3
  Utf16Names <- NamesOnDevice
  Utf8Names <- NamesPassed
  Times <- TimesGiven
  Stamps <- StampsFound
  Zones <- SomeZones
  Counts = {1, 2, 3, 6, 7}
  SpcBits = {0, 1}
  HeapStart = 3
  Word = 65536
  Fats <- SmallFats
  Params <- SomeParams
  SmallSize <- Size25
  LargeSize <- Size28
  LastCluster = 8192
  Faults = TRUE
  Layouts <- SomeLayouts
SPECIFICATION Spec
INVARIANT RangesExact
CHECK_DEADLOCK FALSE

CONSTANTS
  Names <- LongNames
  Upcase <- UpcaseOf
  BadNames = {}
  Width <- WidthOf
  Slots = 6
  MaxCluster = 5
  MaxNode = 7
  NoAtime = FALSE
  Paths <- LongPaths
  HiddenName = "h"
  HiddenPaths <- FlatHidden
  Worlds <- QuietFive
  InitVolumes <- LabelVolume
  Clears = {FALSE}
  MaxLen = 1
  MaxHandle = 1
SPECIFICATION Spec
INVARIANTS SpecialsKept
CHECK_DEADLOCK FALSE

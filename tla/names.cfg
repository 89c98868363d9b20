CONSTANTS
  Names <- CaseNames
  Upcase <- UpcaseOf
  BadNames = {}
  Width <- WidthOf
  Slots = 6
  MaxCluster = 5
  MaxNode = 7
  NoAtime = FALSE
  Paths <- CaseDeep
  HiddenName = "h"
  HiddenPaths <- FlatHidden
  Worlds <- QuietFive
  InitVolumes <- BothVolumes
  Clears = {FALSE}
  MaxLen = 1
  MaxHandle = 0
SPECIFICATION Spec
PROPERTIES RefinesNameSpace
CHECK_DEADLOCK FALSE

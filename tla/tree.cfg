CONSTANTS
  Names <- FewNames
  Upcase <- UpcaseOf
  BadNames = {}
  Width <- WidthOf
  Slots = 6
  MaxCluster = 5
  MaxNode = 7
  NoAtime = FALSE
  Paths <- DeepPaths
  HiddenName = "h"
  HiddenPaths <- FlatHidden
  Worlds <- AllWorlds
  InitVolumes <- BothVolumes
  Clears = {FALSE}
  MaxLen = 2
  MaxHandle = 1
SPECIFICATION Spec
INVARIANTS
  References NoBug TreeOnDevice SpaceExact SyncedOnDevice SpecialsKept
  CrashContained
PROPERTIES OthersKept StaysUnshared
CHECK_DEADLOCK FALSE

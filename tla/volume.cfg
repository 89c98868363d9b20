CONSTANTS
  Dirs <- SomeDirs
  Names <- SomeNames
  Comps <- CompsOf
  Lone = {"lone"}
  Tools <- AllTools
  InitDisks <- DamagedDisks
  MaxFaults = 1
  MaxCrashes = 1
  MaxRuns = 2
  MaxDepth = 4
SPECIFICATION Spec
INVARIANTS NoBug Released LostIsFlagged FixedIsWritten CleanIsSound
PROPERTIES ReadOnlyKeeps Ends
CHECK_DEADLOCK FALSE

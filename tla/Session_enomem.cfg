SPECIFICATION Spec
CONSTANTS
  Platforms = {"safety_island"}
  MaxMaps = 1
  Size <- TwoRegions
  Align = 2
  MaxBlocks = 4
INVARIANT InitSucceeded
CHECK_DEADLOCK FALSE

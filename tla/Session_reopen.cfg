SPECIFICATION Spec
CONSTANTS
  Platforms = {"safety_island"}
  MaxMaps = 2
  Size <- TwoRegions
  Align = 2
  MaxBlocks = 4
INVARIANT AddressesAgree
CHECK_DEADLOCK FALSE

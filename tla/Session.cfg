SPECIFICATION Spec
CONSTANTS
  Platforms = {"safety_island", "spatz", "occamy"}
  MaxMaps = 2
  Size <- TwoRegions
  Align = 2
  MaxBlocks = 4
INVARIANTS TypeOK FirstAgree FirstDisjoint ToldIsAllocated MailboxesReturned
CHECK_DEADLOCK FALSE

SPECIFICATION FairSpec
CONSTANTS
  Request = {r1, r2}
  Reply = 2
  Capacity = 2
  MaxRead = 3
  MaxDue <- SafeBacklog
  None = None
INVARIANTS TypeOK Conserved NoWaitCycle
PROPERTIES ReadReverses CallsReturn

SPECIFICATION Spec
CONSTANTS
  Thread = {t1}
  MaxBufs = 3
  Requests = {3}
  PageSize = 2
  Word = 8
  PcieOffset = 5
INVARIANT MapsHostFrame
CHECK_DEADLOCK FALSE

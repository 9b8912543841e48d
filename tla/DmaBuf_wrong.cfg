SPECIFICATION Spec
CONSTANTS
  Thread = {t1, t2}
  MaxBufs = 3
  Requests = {3}
  PageSize = 2
  Word = 8
  PcieOffset = 0
INVARIANT MapsOwnBuffer
SYMMETRY ThreadSymmetry
CHECK_DEADLOCK FALSE

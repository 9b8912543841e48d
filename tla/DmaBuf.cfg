SPECIFICATION Spec
CONSTANTS
  Thread = {t1, t2}
  MaxBufs = 3
  Requests = {0, 3, 7}
  PageSize = 2
  Word = 8
  PcieOffset = 0
INVARIANTS TypeOK ListIntact AloneMapsOwn WalkEnds
PROPERTY MapsFreshBuffer
SYMMETRY ThreadSymmetry
\* All callers may have been killed.
CHECK_DEADLOCK FALSE

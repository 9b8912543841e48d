SPECIFICATION FairSpec
CONSTANTS
  Size = 3
  ElemSize = 2
  Byte = {b0, b1}
  NoMsg = NoMsg
INVARIANTS TypeOK NoSlotShared NoTornRead
PROPERTIES RejectsHonestly ImplementsFifo CallsReturn

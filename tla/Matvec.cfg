SPECIFICATION Spec
CONSTANTS
  Cores = 2
  VlMax = 2
  MaxElem = 36
  Shapes <- AllShapes
INVARIANTS TypeOK ResultRight

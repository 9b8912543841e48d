\* Regions on every device tree; IOMMU mappings of three pages that share two.
SPECIFICATION Spec
CONSTANTS
    r1 = r1
    r2 = r2
    Zero = Zero
    NoFrame = NoFrame
    Garbage = Garbage
    Setups <- AllSetups
    Order <- ProbeOrder
    DevPerm = "RDWR"
    Word = 16
    CopyMax = 7
    MaxAsk = 5
    Thread = {t1, t2}
    UserPages = 3
    Wrap = 2
    Frame = {f1, f2}
    PageSize = 2
    Sizes = {1, 2, 5}
    MaxPages = 3
    MaxCalls = 2
SYMMETRY Symmetric
INVARIANTS
    TypeOK
    MapsNamed
    ReadStaysInText
    IovaReaches

\* Every sequence of calls on each platform.
SPECIFICATION FairSpec
CONSTANT
    Platforms <- AllPlatforms
    MaxPosted = 4
INVARIANTS
    TypeOK
    NothingCut
PROPERTIES
    OwnBootReached
    BootsOnce
    BootsReady
    CallReturns
    StartRuns

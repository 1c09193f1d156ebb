SPECIFICATION FairSpec
CONSTANTS
    Owner = {0, 1}
    Vector <- MCVector
    Size = 9
    MaxLen = 3
    MaxShare = 5
    NoOwner = NoOwner
INVARIANTS TypeOK HeadsAligned
PROPERTIES Refines LosesOnlyOverwritten MutexReleased

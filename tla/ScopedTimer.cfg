SPECIFICATION FairSpec
CONSTANTS
    Scope = {c1, c2}
    Slot = {s1, s2}
    NoSlot = NoSlot
INVARIANTS TypeOK OwnedOnce ReadyToReuse
PROPERTIES Refines DestructorReturns TimerExpires FinalizeReturns

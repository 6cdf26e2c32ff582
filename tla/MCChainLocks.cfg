SPECIFICATION Spec
CONSTANTS
    g = g
    a1 = a1
    a2 = a2
    b1 = b1
    b2 = b2
    Blocks <- MCBlocks
    Genesis = g
    Parent <- MCParent
    Height <- MCHeight
    Path <- MCPath
    Locks <- MCLocks
    OwnLocks <- MCOwnLocks
    Contested <- MCContested
    MaxSporks = 1
    None = None
INVARIANTS
    TypeOK
    ActiveChainClean
    LockedBranchClean
    LockedStays
PROPERTIES
    LockTakesEffect

SPECIFICATION FairEngineSpec
CONSTANTS
    EfxCount = 4
    EfxMax = 6
    DefaultChain <- MCDefaultChain
    PlaceAfter <- MCPlaceAfter
    Maximizer = 2
    Locking = {0, 3}
    SavedOrders <- MCSavedOrders
    V4aChainOrder <- MCV4aChainOrder
INVARIANTS
    EngineTypeOK
    BlockRunsWholeChain
    BuiltChainComplete
    SavedOrderKept
    NewEffectsPlaced
PROPERTY LockIsServed

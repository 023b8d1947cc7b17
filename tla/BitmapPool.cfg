SPECIFICATION PoolSpec
CONSTANTS
    OffsetMax = 8
    MapWords = 2
    Ranges <- AllRanges
    Garbage <- SomeGarbage
    Careless <- Nobody
INVARIANTS
    InsideMap
    SoleHolder
PROPERTIES
    ImplementsPool
    AllocReturns

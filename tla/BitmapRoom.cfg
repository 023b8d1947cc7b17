SPECIFICATION Spec
CONSTANTS
    OffsetMax = 31
    MapWords = 2
    Ranges <- WholeRange
    Garbage <- Clean
    Careless <- Nobody
INVARIANTS
    InsideMap

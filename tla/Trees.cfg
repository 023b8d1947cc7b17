SPECIFICATION Spec
CONSTANT Null = 0
INVARIANTS
    NothingLost
    Ordered
    Balanced
PROPERTIES
    Found
    CallsReturn
CHECK_DEADLOCK FALSE

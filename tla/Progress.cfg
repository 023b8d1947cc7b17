SPECIFICATION Spec
CONSTANT Null = Null
INVARIANTS
    WatchedAsAsked
    CleanStop
PROPERTIES
    LoopServes
    ServedInTheEnd
CHECK_DEADLOCK FALSE

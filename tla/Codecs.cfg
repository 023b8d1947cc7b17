SPECIFICATION Spec
CONSTANT Null = Null
INVARIANTS
    DigestsOfMessage
    CodesMeanMessage
    BlocksExpand
    AssertsHold
    EntriesInPlace
    AddedIsFound
    ReadsWhatWasAdded
    TurnsGoOn
PROPERTY SortedAndKept
CHECK_DEADLOCK FALSE

SPECIFICATION Spec
CONSTANTS
    Record = {r1, r2}
    Null = Null
SYMMETRY Addresses
INVARIANTS
    ListsSound
    InterestSound
    RoundServed
    FramesReachAll
    AnswersShown
    OnlyZeroShared
PROPERTIES
    PromisesKept
CHECK_DEADLOCK FALSE

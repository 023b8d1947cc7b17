SPECIFICATION Spec
CONSTANTS
    r1 = r1
    r2 = r2
    r3 = r3
    Record = {r1, r2}
    Null = Null
    UserFd = {0}
    TimerFd = {1}
    MaxReg = 3
    MaxCalls = 2
    MaxEvents = 2
    CallbackOps <- AllOps
    DestroyOps <- AllOps
    AfterQuitOps <- AllOps
    Failures = {"nomem"}
SYMMETRY Addresses
INVARIANTS
    TimerEndedOnce
PROPERTIES
    TimeoutGenuine
CHECK_DEADLOCK FALSE

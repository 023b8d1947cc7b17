SPECIFICATION Spec
CONSTANTS
    r1 = r1
    r2 = r2
    r3 = r3
    Record = {r1, r2, r3}
    Null = Null
    UserFd = {0, 3}
    TimerFd = {1}
    MaxReg = 3
    MaxCalls = 2
    MaxEvents = 2
    CallbackOps <- OwnOps
    DestroyOps <- NoOps
    AfterQuitOps <- NoOps
    Failures = {"epoll"}
SYMMETRY Addresses
INVARIANTS
    NoMemoryFault
    ListsApart
    AcceptedIsWatched
    BatchLive
PROPERTIES
    ImplementsRegistry

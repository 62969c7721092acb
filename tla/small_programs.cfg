SPECIFICATION AllSpec
CONSTANTS
    Client = {p1, p2, p3}
    Connections = 2
    First = p1
    LibWriter = {p1}
    LibReader = {p2}
    PlainWriter = {p3}
    PlainReader = {p4}
    Segments = {seg}
    Sizes = {3}
    Wants = {0, 1, 2, 3, 4}
    AtOnce = 2
    Caller = {p1, p2}
    Daemon = {p3, p4}
    Backlog = 1
    Nobody = nobody
    MaxChild = 3
    Adder = {p1, p2, p3}
    Rounds = 2
INVARIANTS
    UndisturbedReadIsWhole  OnlyCaughtCallsFail
    SigIntEndsBoth FinalCount
PROPERTIES EveryConnectionCloses
CHECK_DEADLOCK FALSE

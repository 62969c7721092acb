SPECIFICATION EchoSpec
CONSTANTS
    c1 = c1
    c2 = c2
    c3 = c3
    EpollClient = {c1, c2, c3}
    Listening = listening
    Files = 2
    Typed <- Bytes
    EpollWindow = 1
    SelectClient = {c1, c2}
    Typist = {c1}
    Slots = 1
    Line = 2
    Chunk = 3
    SelectWindow = 4
    BlockClient = {c1, c2}
    Places = 1
    BlockWindow = 2
    Somebody = c1
INVARIANTS NoLiveClientForgotten BlocksOnlyWhenStopping
PROPERTIES EventsServed NobodyStuckSending ServedUnlessTakenBack
CHECK_DEADLOCK FALSE

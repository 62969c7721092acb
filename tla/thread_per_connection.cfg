SPECIFICATION Spec
CONSTANTS
    a = a
    b = b
    c = c
    d = d
    t1 = t1
    t2 = t2
    t3 = t3
    Conn <- Connections
    Thread <- Threads
    Fd <- Descriptors
    NoFd = none
    NoConn = nobody
SYMMETRY Interchangeable
CHECK_DEADLOCK FALSE
INVARIANTS MatchedUnlessOvertaken

SPECIFICATION Spec
CONSTANTS
    w1 = w1
    w2 = w2
    f1 = f1
    f2 = f2
    f3 = f3
    Worker <- TwoWorkers
    Fd <- ThreeFds
    Main = main
    NoFd = none
    NoThread = nobody
    QSIZE = 3
SYMMETRY Interchangeable
INVARIANT NoLostWakeup

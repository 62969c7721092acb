SPECIFICATION FairSpec
CONSTANTS
    c1 = c1
    c2 = c2
    c3 = c3
    Child <- TwoChildren
    Parent = parent
    NoChild = none
INVARIANTS ZombiesAnnounced ErrnoRaceSparesClients SocketOwners
PROPERTIES ZombiesReaped ClientSeesEnd
CHECK_DEADLOCK FALSE

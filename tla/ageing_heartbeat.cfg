SPECIFICATION FairSpec
CONSTANTS
    k1 = k1
    k2 = k2
    Client <- TwoClients
    NoClient = none
    ProbeAfter = 2
INVARIANT ConnectionsHaveOwners
PROPERTIES ImplementsService EveryClientServed
CHECK_DEADLOCK FALSE

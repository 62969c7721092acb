SPECIFICATION FairSpec
CONSTANTS
    k1 = k1
    k2 = k2
    k3 = k3
    Client <- TwoClients
    NoClient = none
    Slots = 2
    ProbeAfter = 2
PROPERTY ProbeAnswered

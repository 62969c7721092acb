SPECIFICATION FairSpec
CONSTANTS
    k1 = k1
    k2 = k2
    k3 = k3
    Client <- TwoClients
    NoClient = none
    Files = 2
    ProbeAfter = 1
INVARIANTS EventsHitTheirConnection OpenMeansWatched
PROPERTIES DropsOnlyHalfSent ImplementsService ProbeAnswered SigIntStops
CHECK_DEADLOCK FALSE

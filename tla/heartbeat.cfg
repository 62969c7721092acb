SPECIFICATION Spec
CONSTANTS
    k1 = k1
    k2 = k2
    k3 = k3
    Client <- ThreeClients
    NoClient = none
    Slots = 2
    ProbeAfter = 2
SYMMETRY Interchangeable
INVARIANTS SlotsAreOpenConnections NoIdleRead FramesInStep AckMatchesProbe NoBrokenPipe
PROPERTY ImplementsService

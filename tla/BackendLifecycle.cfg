SPECIFICATION FairSpec
CONSTANTS
    Backends = {b1, b2}
    Clients = {c1, c2}
    NoBackend = NoBackend
    MaxFaults = 3
INVARIANT TypeOK
INVARIANT Reachable
INVARIANT ExecutedOnce
INVARIANT CallsServed
PROPERTY CallEnds

\* One coroutine that connects, one that finds the client busy, closes it or
\* outlives the other; two slots, one of which may be taken by somebody else.
\* No symmetry: the liveness property is temporal.
CONSTANTS
    Coros = {c1, c2, c3}
    Slots = {s1, s2}
    None = None
    NoFd = NoFd
    MaxConnects = 2
    Uses = {}
SPECIFICATION FairSpec
INVARIANTS
    References
    SlotsSound
    Resumption
    SuccessMeansConnected
PROPERTIES
    EveryConnectReturns
CHECK_DEADLOCK FALSE

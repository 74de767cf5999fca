\* Three coroutines: one that accepts, one that finds it busy or cancels, one
\* that closes; one slot for peers, so a stream exhausts the table.
CONSTANTS
    Coros = {c1, c2, c3}
    Slots = {s1, s2}
    None = None
    NoFd = NoFd
    MaxAccepts = 3
SPECIFICATION FairSpec
INVARIANTS
    References
    SlotsPartition
    Resumption
PROPERTIES
    EveryCallReturns
CHECK_DEADLOCK FALSE

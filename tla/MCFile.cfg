\* Two coroutines that open, write and read one file, one registered buffer
\* that either may have, and a second slot that others use.  The submission
\* queue may be full as soon as it has two SQEs of the file.
CONSTANTS
    Coros = {c1, c2}
    Slots = {s1, s2}
    NumBufs = 1
    None = None
    NoFd = NoFd
    MaxWrites = 1
    Room = 2
    Uses = {}
SPECIFICATION FairSpec
INVARIANTS
    References
    SlotsAccounted
    Resumption
    TransfersAreTheCallers
PROPERTIES
    EveryCallReturns
CHECK_DEADLOCK FALSE

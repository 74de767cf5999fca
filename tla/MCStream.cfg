\* Two coroutines share a stream; the timeout may be adjusted once; the submission
\* queue may be full as soon as it has five SQEs of the stream.
CONSTANTS
    Coros = {c1, c2}
    None = None
    MaxAdjusts = 1
    Room = 5
    Uses = {}
SPECIFICATION FairSpec
INVARIANTS
    References
    Resumption
    SlotIsOwn
    NothingLeftBehind
PROPERTIES
    EveryCallReturns
CHECK_DEADLOCK FALSE

\* A coroutine takes the only registered buffer, gives it back, and asks again.
CONSTANTS
    Coros = {c1, c2}
    Slots = {s1}
    NumBufs = 1
    None = None
    NoFd = NoFd
    MaxWrites = 1
    Room = 2
    Uses = {}
SPECIFICATION Spec
INVARIANTS
    PoolHasBuffer
CHECK_DEADLOCK FALSE

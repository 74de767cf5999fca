\* One coroutine that waits, one that cancels, one that finds the timer busy.
\* No symmetry: EveryWaitReturns is temporal.
CONSTANTS
    Coros = {c1, c2, c3}
    None = None
    MaxWaits = 3
SPECIFICATION FairSpec
INVARIANTS
    References
    Resumption
    CancelIsTruthful
PROPERTIES
    EveryWaitReturns
CHECK_DEADLOCK FALSE

\* Three tasks: one that awaits, one that is awaited, one that arrives through
\* the pipe; two words fill the pipe.  No symmetry: the liveness
\* property is temporal.
CONSTANTS
    Tasks = {t1, t2, t3}
    None = None
    Main = Main
    PipeRead = PipeRead
    PipeCap = 2
SPECIFICATION FairSpec
INVARIANTS
    TypeOK
    RefCountExact
    LiveReferences
    AwaiterWillBeResumed
    SignalledOnce
    NoLostException
    NothingLeftBehind
PROPERTIES
    DestroyedOnlyAfterItsEnd
    EveryNotificationServed
CHECK_DEADLOCK FALSE

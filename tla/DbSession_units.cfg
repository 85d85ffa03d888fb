\* Two tasks, one connection per engine, a replica that lags behind.
CONSTANTS
    Tasks = {t1, t2}
    None = None
    PoolSize = 1
    NullPooled = FALSE
    OpenedAs <- EveryWay
    MaxCallbacks = 2
    MaxUnits = 2
SPECIFICATION Spec
CHECK_DEADLOCK FALSE
INVARIANT TypeOK
INVARIANT CallbacksAllOrNone
INVARIANT NoPoolDeadlock
INVARIANT AutoSessionIsOpen
PROPERTY ImplementsUnitOfWork
INVARIANT ReadsOwnWrites
PROPERTY ConnectionsComeBack

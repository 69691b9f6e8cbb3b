\* Progress and lifecycle with one caller, who may call stop() instead of
\* drain(), and one server write: the adapter syncs, hasSynced() never runs
\* ahead of the initial List (a single write cannot split an entry), and
\* drain()/stop() implement the abstract lifecycle; the watch may expire twice.
CONSTANTS
    o1 = o1
    o2 = o2
    c1 = c1
    c2 = c2
    Obj <- MCObj
    Callers <- MCOneCaller
    MaxChanges = 1
    MaxRelists = 2
    CallStop = TRUE

SPECIFICATION Spec

INVARIANT SyncedImpliesInitialDelivered
PROPERTIES EventuallySynced LifecycleRefined

\* Every goroutine exits after a drain: the adapter really stops.
CHECK_DEADLOCK FALSE

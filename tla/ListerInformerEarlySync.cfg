\* A delete and re-add merged into a listed key's deltas counts as two ADDED events.
CONSTANTS
    o1 = o1
    o2 = o2
    c1 = c1
    c2 = c2
    Obj <- MCObj
    Callers <- MCOneCaller
    MaxChanges = 2
    MaxRelists = 1
    CallStop = FALSE

SPECIFICATION Spec

INVARIANT SyncedImpliesInitialDelivered

\* Every goroutine exits after a drain: the adapter really stops.
CHECK_DEADLOCK FALSE

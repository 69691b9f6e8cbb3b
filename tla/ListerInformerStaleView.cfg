\* A live event delivered after the drain's DELETED events leaves the object in the higher-level cache.
CONSTANTS
    o1 = o1
    o2 = o2
    c1 = c1
    c2 = c2
    Obj <- MCObj
    Callers <- MCOneCaller
    MaxChanges = 2
    MaxRelists = 1
    CallStop = FALSE

SPECIFICATION Spec

INVARIANT DrainedViewEmpty

\* Every goroutine exits after a drain: the adapter really stops.
CHECK_DEADLOCK FALSE

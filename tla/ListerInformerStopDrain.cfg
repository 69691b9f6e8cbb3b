\* stop() and drain() on the same adapter both close stoppedInformer.
CONSTANTS
    o1 = o1
    o2 = o2
    c1 = c1
    c2 = c2
    Obj <- MCObj
    Callers <- MCCallers
    MaxChanges = 0
    MaxRelists = 1
    CallStop = TRUE

SPECIFICATION Spec

INVARIANT NoPanic

\* Every goroutine exits after a drain: the adapter really stops.
CHECK_DEADLOCK FALSE

\* Drain only: two callers race drain() against the informer's goroutines.
CONSTANTS
    o1 = o1
    o2 = o2
    c1 = c1
    c2 = c2
    Obj <- MCObj
    Callers <- MCCallers
    MaxChanges = 2
    MaxRelists = 1
    CallStop = FALSE

SPECIFICATION Spec

INVARIANTS TypeOK ConsumerMirrorsIndexer DrainIdempotent
PROPERTY AddedOnlyForNew

\* Every goroutine exits after a drain: the adapter really stops.
CHECK_DEADLOCK FALSE

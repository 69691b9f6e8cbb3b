\* The higher-level cache against the server, across a watch expiry and
\* re-List, with the client-go Replace of this tree's era.
CONSTANTS
    o1 = o1
    o2 = o2
    c1 = c1
    c2 = c2
    Obj <- MCObj
    Callers <- MCOneCaller
    MaxChanges = 2
    MaxRelists = 1
    CallStop = FALSE

SPECIFICATION Spec

INVARIANT ConsumerMirrorsServer

CHECK_DEADLOCK FALSE

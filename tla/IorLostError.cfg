\* Full resyncs with a gateway whose service namespace is not a member:
\* its createRoute fails while another succeeds.
CONSTANTS
    Gw <- MCGw
    GwHosts <- MCGwHosts
    SvcNs <- MCSvcNs
    PilotNs <- MCPilotNs
    NsChoices <- MCNsChoices
    MaxCalls = 5
    MaxRestarts = 0
    LoopVarPerIteration = TRUE
    CallFullSync = TRUE
SPECIFICATION Spec
INVARIANT ErrorsReported
CHECK_DEADLOCK FALSE

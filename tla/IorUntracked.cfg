\* Full resyncs and a restart of pilot next to gateway events.
CONSTANTS
    Gw <- MCGw
    GwHosts <- MCGwHosts
    SvcNs <- MCSvcNs
    PilotNs <- MCPilotNs
    NsChoices <- MCNsChoices
    MaxCalls = 5
    MaxRestarts = 1
    LoopVarPerIteration = TRUE
    CallFullSync = TRUE
SPECIFICATION Spec
INVARIANT RoutesTracked
CHECK_DEADLOCK FALSE

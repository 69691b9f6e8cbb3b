\* Member-roll changes and gateway deletes on a build where the range
\* variable of syncNamespaces is shared (Go before 1.22).
CONSTANTS
    Gw <- MCGw
    GwHosts <- MCGwHosts
    SvcNs <- MCSvcNs
    PilotNs <- MCPilotNs
    NsChoices <- MCNsChoices
    MaxCalls = 5
    MaxRestarts = 0
    LoopVarPerIteration = FALSE
    CallFullSync = FALSE
SPECIFICATION Spec
PROPERTY NoForeignDelete
CHECK_DEADLOCK FALSE

\* All of IOR: gateway events, member-roll changes, full resyncs and a
\* restart of pilot, with the range variable of syncNamespaces shared by all
\* iterations (Go before 1.22, the toolchain of this tree). The run
\* stops when the bounded environment has made its calls and every event
\* is handled: the handlers then wait for input, so deadlock is not
\* checked.
CONSTANTS
    Gw <- MCGw
    GwHosts <- MCGwHosts
    SvcNs <- MCSvcNs
    PilotNs <- MCPilotNs
    NsChoices <- MCNsChoices
    MaxCalls = 6
    MaxRestarts = 1
    LoopVarPerIteration = FALSE
    CallFullSync = TRUE
SPECIFICATION Spec
INVARIANT TypeOK
PROPERTY FullSyncReconciles
CHECK_DEADLOCK FALSE

\* Two gateways whose route names coincide, handled through gateway events
\* only. The run stops when the bounded environment has made its calls and
\* every event is handled, so deadlock is not checked.
CONSTANTS
    Gw <- MCDashGw
    GwHosts <- MCDashGwHosts
    SvcNs <- MCDashSvcNs
    PilotNs <- MCPilotNs
    NsChoices <- MCDashNsChoices
    MaxCalls = 3
    MaxRestarts = 0
    LoopVarPerIteration = FALSE
    CallFullSync = FALSE
SPECIFICATION Spec
PROPERTY NoForeignDelete
CHECK_DEADLOCK FALSE

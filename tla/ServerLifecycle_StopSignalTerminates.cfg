\* One property of the run loop checked for a violation.
CONSTANTS
    Servers = {grpc, http}
    GrpcServers = {grpc}
    Unaddressed = {}
    MaxSignals = 1
    MaxShutdowns = 1
    Chars = {"a", "="}
    MaxLen = 3
    MaxFlags = 2
    ListenHosts <- MCListenHosts
    Ports <- MCPorts
SPECIFICATION Spec
PROPERTY StopSignalTerminates
CHECK_DEADLOCK FALSE

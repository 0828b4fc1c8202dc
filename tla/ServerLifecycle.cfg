\* Two servers (control gRPC and HTTP), any subset of which binds, with or
\* without a lumberjack logger (SIGHUP rotates or restarts), with
\* up to two signals and two Shutdown calls.  The process ending is a
\* terminal state; a hang is checked by the liveness properties.
CONSTANTS
    Servers = {grpc, http}
    GrpcServers = {grpc}
    Unaddressed = {}
    MaxSignals = 2
    MaxShutdowns = 2
    Chars = {"a", "="}
    MaxLen = 3
    MaxFlags = 2
    ListenHosts <- MCListenHosts
    Ports <- MCPorts
SPECIFICATION Spec
INVARIANT TypeOK
INVARIANT RotationKeepsServing
INVARIANT RestartArgsKeepFlags
INVARIANT ClientDialsControlServer
PROPERTY GracefulStopTerminates
CHECK_DEADLOCK FALSE

------------------------- MODULE MC_ServerLifecycle -------------------------
(* The run loop, with the flags the run command passes to the process a    *)
(* restart launches and the address a CLI derives from the control         *)
(* server's listen-address.                                                *)
EXTENDS ServerLifecycle, ApplicationFlags, ControlAddress

\* The control server's listen-address: ":port", "0.0.0.0:port",
\* "127.0.0.1:port" or another host's address "10.0.0.1:port".
MCListenHosts == {<<>>, Wildcard, Loopback, <<"1", "0", ".", "0", ".", "0", ".", "1">>}
\* One- and two-digit ports.
MCPorts == {<<"8">>, <<"8", "0">>}

\* When the run command restarts the daemon (StartCommand.Start with the
\* flags of RegisterServerArgs), the new process parses the verbose flag
\* and the -p properties of the old one.
RestartArgsKeepFlags == main = "restarted" => FlagsRoundTrip

\* A CLI process whose only address setting is the control server's
\* listen-address dials that server once it serves connections:
\* getConnectAddress keeps the port and the host, turning ":port" and
\* "0.0.0.0:port" into "127.0.0.1:port".
ClientDialsControlServer ==
    (\E s \in GrpcServers : conn[s]) => DerivedAddressesReachListener
=============================================================================

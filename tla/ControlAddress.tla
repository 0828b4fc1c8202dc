---------------------------- MODULE ControlAddress ----------------------------
(***************************************************************************)
(* The address a CLI process dials to reach the daemon's control server,   *)
(* pkg/client/grpc_client_factory.go.                                      *)
(*                                                                         *)
(* The client factory takes "<bean>.connect-address"; when it is not set   *)
(* it derives the address from "control-grpc-server.listen-address", the   *)
(* address the daemon's control server binds, by getConnectAddress:        *)
(* "0.0.0.0:port" and ":port" (every interface) become "127.0.0.1:port",   *)
(* anything else is dialled as it is.  With neither property the factory   *)
(* fails, and so does doWithControlClient.                                 *)
(*                                                                         *)
(* Text is a sequence of one-character strings.  The reference the rewrite *)
(* is checked against splits an address at its last ':' as                *)
(* net.SplitHostPort does.                                                 *)
(***************************************************************************)
EXTENDS Naturals, Sequences
LOCAL INSTANCE SequencesExt

CONSTANTS
    ListenHosts,   \* hosts the control server's listen-address may name
    Ports          \* ports it may name (fixed, non-zero)

Colon == <<":">>
\* The unspecified IPv4 address and the loopback address.
Wildcard == <<"0", ".", "0", ".", "0", ".", "0">>
Loopback == <<"1", "2", "7", ".", "0", ".", "0", ".", "1">>
\* No address: Object returns an error.
NoAddress == <<>>

\* Seeded bug: the slice after "0.0.0.0" starts one character late.
ConnectAddressOffByOne(listenAddr) ==
    CASE IsPrefix(Wildcard \o Colon, listenAddr) ->
            Loopback \o SubSeq(listenAddr, 9, Len(listenAddr))
      [] IsPrefix(Colon, listenAddr) -> Loopback \o listenAddr
      [] OTHER -> listenAddr

\* getConnectAddress(listenAddr); Go's listenAddr[7:] is the suffix from
\* the eighth character, the ':' included.
ConnectAddress(listenAddr) ==
    CASE IsPrefix(Wildcard \o Colon, listenAddr) ->
            Loopback \o SubSeq(listenAddr, 8, Len(listenAddr))
      [] IsPrefix(Colon, listenAddr) -> Loopback \o listenAddr
      [] OTHER -> listenAddr

\* Object(): the connect-address property, else the address derived from
\* the control server's listen-address, else an error.
ClientConnectAddress(connectProp, listenProp) ==
    CASE connectProp # <<>> -> connectProp
      [] listenProp # <<>>  -> ConnectAddress(listenProp)
      [] OTHER              -> NoAddress

\* net.SplitHostPort for "host:port": the host is before the last ':'.
HostPort(addr) ==
    LET i == SelectLastInSeq(addr, LAMBDA ch : ch = ":")
    IN  [host |-> SubSeq(addr, 1, i - 1), port |-> SubSeq(addr, i + 1, Len(addr))]

\* The address a listener on host h and port p is reached at: its port, and
\* its own host, or loopback when it listens on every interface.
ReachedAt(h, p) ==
    [host |-> IF h \in {<<>>, Wildcard} THEN Loopback ELSE h, port |-> p]

-----------------------------------------------------------------------------

\* For every listen-address ("host:port", ":port" or "0.0.0.0:port"), the
\* address a CLI process with no connect-address derives from it has the
\* listener's port and its host, or loopback for a listener on every
\* interface, never the unspecified address.
DerivedAddressesReachListener ==
    \A h \in ListenHosts, p \in Ports :
        HostPort(ClientConnectAddress(<<>>, h \o Colon \o p)) = ReachedAt(h, p)

=============================================================================

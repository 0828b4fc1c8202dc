--------------------------- MODULE ServerLifecycle ---------------------------
(***************************************************************************)
(* The daemon's run loop: runServers in pkg/cmd/utils.go, Serve and Stop   *)
(* of the gRPC and HTTP servers (pkg/server/grpc_server.go, http_server.go)*)
(* Application.Shutdown (pkg/app/application.go) and the restart decision  *)
(* of the run command (pkg/cmd/run_cmd.go).                                *)
(*                                                                         *)
(* The main goroutine binds every server, starts one Serve goroutine per   *)
(* bound server in an errgroup, starts the signal goroutine and waits for  *)
(* the group.  Serve marks the server running and blocks in srv.Serve      *)
(* until its listener is closed; Stop closes the listener only when a CAS  *)
(* of running from true to false succeeds.  The signal goroutine waits for *)
(* SIGINT/SIGTERM/SIGHUP or for Application.Done, rotates the logs on      *)
(* SIGHUP when a lumberjack logger exists, and otherwise stops every bound *)
(* server once and returns.                                                *)
(***************************************************************************)
EXTENDS Naturals, Sequences

CONSTANTS
    Servers,        \* the sprint.Server instances of the server contexts
    GrpcServers,    \* those that wrap a *grpc.Server (the control service)
    Unaddressed,    \* grpc servers whose "<bean>.listen-address" is not set
    MaxSignals,     \* bound on signals sent to the process
    MaxShutdowns    \* bound on Application.Shutdown calls (control "Node")

ASSUME Servers # {} /\ GrpcServers \subseteq Servers
ASSUME Unaddressed \subseteq GrpcServers
ASSUME MaxSignals \in 0..10 /\ MaxShutdowns \in Nat

\* SIGINT and SIGTERM take the same path; SIGHUP is the other signal.
Signals == {"TERM", "HUP"}
\* The run command has returned, or the process died of a signal.
Ended == {"exited", "restarted", "killed"}
\* Control points of the main goroutine: doWithServers creating the server
\* contexts, binding, spawning, waiting on the group, the deferred close of
\* the server contexts, and the rest of the run command.
MainPoints == {"scan", "bind", "spawn", "wait", "close", "core"}

VARIABLES
    main,         \* control point of the main goroutine
    bound,        \* boundServers
    srv,          \* control point of each server's Serve goroutine
    running,      \* the server's running flag (atomic.Bool)
    closed,       \* the server's listener has been closed
    result,       \* the error g.Wait will return: first Serve error
    sig,          \* control point of the signal goroutine
    sigCh,        \* signals buffered in signalCh
    toStop,       \* bound servers the stop loop has still to visit
    appDone,      \* Application.shutdownCh is closed
    restarting,   \* Application.restarting
    sent,         \* signals sent so far
    shutdowns,    \* Application.Shutdown calls so far
    stopped,      \* (history) the signal goroutine decided to stop
    stopServing,  \* (history) at that moment every bound Serve had started
    termSeen,     \* (history) the signal goroutine received a SIGTERM
    rotation,     \* a *lumberjack.Logger bean exists in the core context
    stopper,      \* grpc servers whose `go t.srv.Stop()` has not run yet
    srvStopped,   \* the underlying grpc.Server / http.Server was stopped
    conn          \* a client connection the server accepted is open

vars == <<main, bound, srv, running, closed, result, sig, sigCh, toStop,
          appDone, restarting, sent, shutdowns, stopped, stopServing, termSeen,
          rotation, stopper, srvStopped, conn>>

grpcVars == <<stopper, srvStopped, conn>>

TypeOK ==
    /\ main \in MainPoints \cup Ended
    /\ bound \subseteq Servers
    /\ srv \in [Servers -> {"idle", "start", "enter", "serving", "exited"}]
    /\ running \in [Servers -> BOOLEAN]
    /\ closed \in [Servers -> BOOLEAN]
    /\ result \in {"nil", "error"}
    /\ sig \in {"none", "notify", "wait", "stopping", "done"}
    /\ sigCh \in Seq(Signals)
    /\ toStop \in SUBSET bound
    /\ appDone \in BOOLEAN
    /\ restarting \in BOOLEAN
    /\ sent \in 0..MaxSignals
    /\ shutdowns \in 0..MaxShutdowns
    /\ stopped \in BOOLEAN
    /\ stopServing \in BOOLEAN
    /\ termSeen \in BOOLEAN
    /\ rotation \in BOOLEAN
    /\ stopper \subseteq GrpcServers
    /\ srvStopped \in [Servers -> BOOLEAN]
    /\ conn \in [Servers -> BOOLEAN]

Init ==
    /\ main = "scan"
    /\ bound = {}
    /\ srv = [s \in Servers |-> "idle"]
    /\ running = [s \in Servers |-> FALSE]
    /\ closed = [s \in Servers |-> FALSE]
    /\ result = "nil"
    /\ sig = "none"
    /\ sigCh = <<>>
    /\ toStop = {}
    /\ appDone = FALSE
    /\ restarting = FALSE
    /\ sent = 0
    /\ shutdowns = 0
    /\ stopped = FALSE
    /\ stopServing = FALSE
    /\ termSeen = FALSE
    /\ rotation \in BOOLEAN
    /\ stopper = {}
    /\ srvStopped = [s \in Servers |-> FALSE]
    /\ conn = [s \in Servers |-> FALSE]

-----------------------------------------------------------------------------
(* Main goroutine: doWithServers, runServers and the rest of the run      *)
(* command.                                                                *)

\* doWithServers extends the core context with the beans of every
\* ServerScanner and collects the sprint.Server, *grpc.Server and
\* *http.Server beans; runServers refuses an empty list.  Any of these
\* errors returns before a server is bound, after the deferred function has
\* closed the contexts created so far; the run command logs it, closes the
\* core context and, Restarting() being false, returns.
CreateServers ==
    /\ main = "scan"
    /\ main' \in {"bind", "exited"}
    /\ UNCHANGED <<grpcVars, rotation, bound, srv, running, closed, result, sig, sigCh, toStop,
                   appDone, restarting, sent, shutdowns, stopped, stopServing, termSeen>>

\* implGrpcServer.Bind: without a listen-address property it returns an
\* error; otherwise net.Listen may fail (the port is taken).
GrpcBindable == GrpcServers \ Unaddressed

\* implHttpServer.Bind: net.Listen on srv.Addr, which may fail.
Bindable == GrpcBindable \cup (Servers \ GrpcServers)

\* for each server: Bind(); a failure is logged and the server left out.
Bind ==
    /\ main = "bind"
    /\ \E b \in SUBSET Bindable : bound' = b
    /\ main' = "spawn"
    /\ UNCHANGED <<grpcVars, rotation, srv, running, closed, result, sig, sigCh, toStop, appDone,
                   restarting, sent, shutdowns, stopped, stopServing, termSeen>>

\* g.Go(server.Serve) for each bound server, then go the signal goroutine.
Spawn ==
    /\ main = "spawn"
    /\ srv' = [s \in Servers |-> IF s \in bound THEN "start" ELSE "idle"]
    /\ sig' = "notify"
    /\ main' = "wait"
    /\ UNCHANGED <<grpcVars, rotation, bound, running, closed, result, sigCh, toStop, appDone,
                   restarting, sent, shutdowns, stopped, stopServing, termSeen>>

\* g.Wait() returns once every Serve has returned.
WaitReturns ==
    /\ main = "wait"
    /\ \A s \in bound : srv[s] = "exited"
    /\ main' = "close"
    /\ UNCHANGED <<grpcVars, rotation, bound, srv, running, closed, result, sig, sigCh, toStop,
                   appDone, restarting, sent, shutdowns, stopped, stopServing, termSeen>>

\* server.Stop() of every server of S: if running.CAS(true, false) the
\* listener is closed; a grpc server then starts `go t.srv.Stop()`, an
\* http server calls t.srv.Close(), which also closes its connections.
StopAll(S) ==
    LET hit == {s \in S : running[s]}
    IN  /\ running' = [s \in Servers |-> running[s] /\ s \notin hit]
        /\ closed' = [s \in Servers |-> closed[s] \/ s \in hit]
        /\ stopper' = stopper \cup (hit \cap GrpcServers)
        /\ srvStopped' = [s \in Servers |->
                            srvStopped[s] \/ s \in hit \ GrpcServers]
        /\ conn' = [s \in Servers |-> conn[s] /\ s \notin hit \ GrpcServers]

\* The deferred function of doWithServers closes every server context:
\* Destroy of each server calls Stop.
CloseServers ==
    /\ main = "close"
    /\ StopAll(Servers)
    /\ main' = "core"
    /\ UNCHANGED <<rotation, bound, srv, result, sig, sigCh, toStop,
                   appDone, restarting, sent, shutdowns, stopped, stopServing, termSeen>>

\* core.Close(), then a new process is started when Restarting().
RunEnds ==
    /\ main = "core"
    /\ main' = IF restarting THEN "restarted" ELSE "exited"
    /\ UNCHANGED <<grpcVars, rotation, bound, srv, running, closed, result, sig, sigCh, toStop,
                   appDone, restarting, sent, shutdowns, stopped, stopServing, termSeen>>

-----------------------------------------------------------------------------
(* Serve goroutines.                                                       *)

\* t.running.Store(true), before srv.Serve(t.listener) is entered.
ServeStart(s) ==
    /\ main = "wait"
    /\ srv[s] = "start"
    /\ srv' = [srv EXCEPT ![s] = "enter"]
    /\ running' = [running EXCEPT ![s] = TRUE]
    /\ UNCHANGED <<grpcVars, rotation, main, bound, closed, result, sig, sigCh, toStop, appDone,
                   restarting, sent, shutdowns, stopped, stopServing, termSeen>>

\* srv.Serve(t.listener) is entered.  A grpc.Server already stopped returns
\* ErrServerStopped, whose text has no "closed": Serve returns it.  A
\* closed listener or a closed http.Server returns a "closed" error: nil.
ServeEnter(s) ==
    /\ main = "wait"
    /\ srv[s] = "enter"
    /\ IF closed[s] \/ srvStopped[s]
         THEN /\ srv' = [srv EXCEPT ![s] = "exited"]
              /\ running' = [running EXCEPT ![s] = FALSE]
              /\ result' = IF s \in GrpcServers /\ srvStopped[s]
                              THEN "error" ELSE result
         ELSE /\ srv' = [srv EXCEPT ![s] = "serving"]
              /\ UNCHANGED <<running, result>>
    /\ UNCHANGED <<grpcVars, rotation, main, bound, closed, sig, sigCh, toStop, appDone,
                   restarting, sent, shutdowns, stopped, stopServing, termSeen>>

\* srv.Serve returns once the listener is closed or the server stopped:
\* a "closed" error or nil, and Serve returns nil.
ServeReturns(s) ==
    /\ main = "wait"
    /\ srv[s] = "serving"
    /\ closed[s] \/ srvStopped[s]
    /\ srv' = [srv EXCEPT ![s] = "exited"]
    /\ running' = [running EXCEPT ![s] = FALSE]
    /\ UNCHANGED <<grpcVars, rotation, main, bound, closed, result, sig, sigCh, toStop, appDone,
                   restarting, sent, shutdowns, stopped, stopServing, termSeen>>

\* srv.Serve fails by itself: the errgroup keeps the first error.
ServeFails(s) ==
    /\ main = "wait"
    /\ srv[s] = "serving"
    /\ ~closed[s] /\ ~srvStopped[s]
    /\ srv' = [srv EXCEPT ![s] = "exited"]
    /\ running' = [running EXCEPT ![s] = FALSE]
    /\ result' = "error"
    /\ UNCHANGED <<grpcVars, rotation, main, bound, closed, sig, sigCh, toStop, appDone,
                   restarting, sent, shutdowns, stopped, stopServing, termSeen>>

\* The goroutine started by Stop runs t.srv.Stop(): the grpc.Server closes
\* its listeners and every open connection, cancelling calls in flight.
SrvStop(s) ==
    /\ main \notin Ended
    /\ s \in stopper
    /\ stopper' = stopper \ {s}
    /\ srvStopped' = [srvStopped EXCEPT ![s] = TRUE]
    /\ conn' = [conn EXCEPT ![s] = FALSE]
    /\ UNCHANGED <<main, rotation, bound, srv, running, closed, result, sig, sigCh, toStop,
                   appDone, restarting, sent, shutdowns, stopped, stopServing, termSeen>>

-----------------------------------------------------------------------------
(* Signal goroutine.                                                       *)

\* signal.Notify(signalCh, SIGINT, SIGTERM, SIGHUP)
NotifyRegistered ==
    /\ main \notin Ended
    /\ sig = "notify"
    /\ sig' = "wait"
    /\ UNCHANGED <<grpcVars, rotation, main, bound, srv, running, closed, result, sigCh, toStop,
                   appDone, restarting, sent, shutdowns, stopped, stopServing, termSeen>>

\* Seeded bug: the stop loop ranges over servers instead of boundServers.
BeginStopAllServers ==
    /\ sig' = "stopping"
    /\ toStop' = Servers
    /\ stopped' = TRUE
    /\ stopServing' = \A s \in bound : srv[s] \in {"enter", "serving", "exited"}

\* Leaving the select for the stop sequence.
BeginStop ==
    /\ sig' = "stopping"
    /\ toStop' = bound
    /\ stopped' = TRUE
    /\ stopServing' = \A s \in bound : srv[s] \in {"enter", "serving", "exited"}

\* Seeded bug: the goto waitAgain after rotating the logs is missing.
ReceiveSignalNoWaitAgain ==
    /\ main \notin Ended
    /\ sig = "wait"
    /\ sigCh # <<>>
    /\ sigCh' = Tail(sigCh)
    /\ termSeen' = (termSeen \/ Head(sigCh) = "TERM")
    /\ BeginStop
    /\ IF Head(sigCh) = "HUP" /\ ~rotation
         THEN restarting' = TRUE /\ appDone' = TRUE
         ELSE UNCHANGED <<restarting, appDone>>
    /\ UNCHANGED <<grpcVars, rotation, main, bound, srv, running, closed, result, sent, shutdowns>>

\* case signal = <-signalCh: SIGHUP rotates and waits again when a
\* lumberjack logger exists; without one it calls application.Shutdown(true)
\* and falls through to the stop sequence, as does every other signal.
ReceiveSignal ==
    /\ main \notin Ended
    /\ sig = "wait"
    /\ sigCh # <<>>
    /\ sigCh' = Tail(sigCh)
    /\ termSeen' = (termSeen \/ Head(sigCh) = "TERM")
    /\ IF Head(sigCh) = "HUP" /\ rotation
         THEN UNCHANGED <<sig, toStop, appDone, restarting, stopped, stopServing, termSeen>>
         ELSE /\ BeginStop
              /\ IF Head(sigCh) = "HUP"
                   THEN restarting' = TRUE /\ appDone' = TRUE
                   ELSE UNCHANGED <<restarting, appDone>>
    /\ UNCHANGED <<grpcVars, rotation, main, bound, srv, running, closed, result, sent, shutdowns>>

\* case <-application.Done(): signal = SIGABRT, stop the servers.
ReceiveDone ==
    /\ main \notin Ended
    /\ sig = "wait"
    /\ appDone
    /\ BeginStop
    /\ UNCHANGED <<grpcVars, rotation, main, bound, srv, running, closed, result, sigCh, appDone,
                   restarting, sent, shutdowns, termSeen>>

\* Seeded bug: Stop clears running but does not close the listener.
StopServerNoClose(s) ==
    /\ main \notin Ended
    /\ sig = "stopping"
    /\ s \in toStop
    /\ toStop' = toStop \ {s}
    /\ running' = [running EXCEPT ![s] = FALSE]
    /\ UNCHANGED <<grpcVars, rotation, main, bound, srv, closed, result, sig, sigCh, appDone, restarting,
                   sent, shutdowns, stopped, stopServing, termSeen>>

\* server.Stop(): if running.CAS(true, false) { listener.Close(); stop }
StopServer(s) ==
    /\ main \notin Ended
    /\ sig = "stopping"
    /\ s \in toStop
    /\ toStop' = toStop \ {s}
    /\ StopAll({s})
    /\ UNCHANGED <<rotation, main, bound, srv, result, sig, sigCh, appDone, restarting,
                   sent, shutdowns, stopped, stopServing, termSeen>>

\* log.Sync(); cancel(); the signal goroutine returns.
StopDone ==
    /\ main \notin Ended
    /\ sig = "stopping"
    /\ toStop = {}
    /\ sig' = "done"
    /\ UNCHANGED <<grpcVars, rotation, main, bound, srv, running, closed, result, sigCh, toStop,
                   appDone, restarting, sent, shutdowns, stopped, stopServing, termSeen>>

-----------------------------------------------------------------------------
(* Environment: signals and the control service's Node command.            *)

\* A signal reaches the process.  Before signal.Notify its default action
\* kills the process; afterwards it is buffered in signalCh, also once the
\* signal goroutine has returned.
SendSignal(x) ==
    /\ main \notin Ended
    /\ sent < MaxSignals
    /\ sent' = sent + 1
    /\ IF sig \in {"none", "notify"}
         THEN /\ main' = "killed"
              /\ UNCHANGED sigCh
         ELSE /\ sigCh' = Append(sigCh, x)
              /\ UNCHANGED main
    /\ UNCHANGED <<grpcVars, rotation, bound, srv, running, closed, result, sig, toStop, appDone,
                   restarting, shutdowns, stopped, stopServing, termSeen>>

\* A control client connects to a serving grpc server.
Accept(s) ==
    /\ main = "wait"
    /\ srv[s] = "serving"
    /\ ~closed[s] /\ ~srvStopped[s] /\ ~conn[s]
    /\ conn' = [conn EXCEPT ![s] = TRUE]
    /\ UNCHANGED <<stopper, srvStopped, main, rotation, bound, srv, running, closed,
                   result, sig, sigCh, toStop, appDone, restarting, sent,
                   shutdowns, stopped, stopServing, termSeen>>

\* The control service's Node handler, on an open connection of the
\* control server, calls Application.Shutdown(restart):
\* restarting.Store(restart), close the shutdown channel once.  The
\* handler may still run after g.Wait returned, until t.srv.Stop() closes
\* the connection: the run command reads Restarting() only at its end.
Shutdown(restart) ==
    /\ main \notin Ended
    /\ \E s \in GrpcServers : conn[s]
    /\ shutdowns < MaxShutdowns
    /\ shutdowns' = shutdowns + 1
    /\ restarting' = restart
    /\ appDone' = TRUE
    /\ UNCHANGED <<grpcVars, rotation, main, bound, srv, running, closed, result, sig, sigCh,
                   toStop, sent, stopped, stopServing, termSeen>>

-----------------------------------------------------------------------------
Next ==
    \/ CreateServers
    \/ Bind
    \/ Spawn
    \/ WaitReturns
    \/ CloseServers
    \/ RunEnds
    \/ \E s \in Servers :
         ServeStart(s) \/ ServeEnter(s) \/ ServeReturns(s) \/ ServeFails(s)
    \/ \E s \in GrpcServers : SrvStop(s) \/ Accept(s)
    \/ NotifyRegistered
    \/ ReceiveSignal
    \/ ReceiveDone
    \/ \E s \in Servers : StopServer(s)
    \/ StopDone
    \/ \E x \in Signals : SendSignal(x)
    \/ \E r \in BOOLEAN : Shutdown(r)

\* Goroutines that can run eventually run; servers are not obliged to fail
\* and nobody is obliged to send a signal or a command.
Fairness ==
    /\ WF_vars(CreateServers) /\ WF_vars(Bind) /\ WF_vars(Spawn)
    /\ WF_vars(WaitReturns) /\ WF_vars(CloseServers) /\ WF_vars(RunEnds)
    /\ \A s \in Servers : /\ WF_vars(ServeStart(s)) /\ WF_vars(ServeEnter(s))
                          /\ WF_vars(ServeReturns(s))
    /\ \A s \in GrpcServers : WF_vars(SrvStop(s))
    /\ WF_vars(NotifyRegistered)
    /\ WF_vars(ReceiveSignal) /\ WF_vars(ReceiveDone)
    /\ WF_vars(\E s \in Servers : StopServer(s))
    /\ WF_vars(StopDone)

Spec == Init /\ [][Next]_vars /\ Fairness

-----------------------------------------------------------------------------
(* Properties.                                                             *)

\* A stop decided while every bound server was already serving (SIGTERM to
\* a running daemon, Node "shutdown"/"restart") makes every Serve return
\* and the run command return.
GracefulStopTerminates ==
    (stopped /\ stopServing) ~> main \in Ended

\* SIGHUP with log rotation configured never stops a listener: as long as
\* no SIGTERM was received and Shutdown was not called, every listener
\* stays open.
RotationKeepsServing ==
    (rotation /\ ~termSeen /\ ~appDone) => \A s \in Servers : ~closed[s]

\* Any stop the signal goroutine decides on makes the run command return:
\* "sending SIGTERM to a running orchestrator stops every bound listener".
StopSignalTerminates ==
    stopped ~> main \in Ended

=============================================================================

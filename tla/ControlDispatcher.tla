-------------------------- MODULE ControlDispatcher --------------------------
(***************************************************************************)
(* The administrative CLI commands of pkg/cmd against one daemon.          *)
(*                                                                         *)
(* A command first calls the daemon over gRPC (doWithControlClient and the *)
(* methods of pkg/client/control_client.go).  grpc.Dial does not block, so *)
(* a call to a daemon that is not listening fails with Unavailable; so     *)
(* does a call in flight when the daemon's gRPC server is stopped.  On     *)
(* Unavailable the config, storage and cert commands open the same store   *)
(* in-process (doInCore) and run the command there; stop kills the pid in  *)
(* the pid file on any error; the other commands return the error.         *)
(*                                                                         *)
(* The daemon is abstracted to the steps that matter here: opening the     *)
(* store when its core context is created (run_cmd.go), serving, stopping  *)
(* the servers when the application is shut down (runServers), closing the *)
(* core context and starting a new process when restarting.  The store is  *)
(* opened exclusively: one process at a time holds it.                     *)
(*                                                                         *)
(* Two components of the daemon are composed in: the job service behind   *)
(* the job command (JobService), and the stream of "storage console"       *)
(* (StorageConsole), which is opened instead of a call.                    *)
(***************************************************************************)
EXTENDS Naturals, FiniteSets, Sequences

CONSTANTS
    Clients,           \* CLI processes, each running one command
    Commands,          \* the commands a CLI process may run
    StoreOpenTimeout,  \* opening a held store fails after a timeout (badger)
                       \* rather than waiting for it (bolt)
    MaxStarts,         \* bound on daemon starts by the operator
    JobNames,          \* names the application registers jobs under
    NoArg,             \* a job command without its name argument
    MaxJobs,           \* bound on jobs registered by the application
    MaxQueries,        \* bound on the queries typed into a console
    DefaultCommand     \* the application registers a command named "default"

\* Every command of pkg/cmd that goes through doWithControlClient; "config"
\* is "config set", "configRead" is "config get", "dump" or "list";
\* "manager" is "cert manager", which has no local form.
AllCommands == {"config", "configRead", "storage", "console", "cert", "manager",
                "stop", "restart", "status", "job"}

\* The config sub-commands, which check their arguments before any call.
ConfigCommands == {"config", "configRead"}

\* Commands that only read: running one twice changes nothing.
ReadCommands == {"configRead", "status"}

\* Command lines that never reach the daemon: "-h" (help), an unknown
\* command word, and no command at all.
OtherArgs == {"-h", "unknown", "none"}

ASSUME Commands \subseteq AllCommands \cup OtherArgs
ASSUME DefaultCommand \in BOOLEAN
ASSUME StoreOpenTimeout \in BOOLEAN /\ MaxStarts \in Nat
ASSUME MaxJobs \in Nat /\ MaxQueries \in Nat

VARIABLES
    daemon,      \* the daemon process: down, core (opening the store),
                 \* listening, stopping (servers stopped, core still open)
    restarting,  \* application.restarting
    stopReq,     \* application.shutdownCh closed, or SIGINT received
    lock,        \* holder of the store: "free", "daemon" or a client
    pidFile,     \* the pid file exists
    starts,      \* daemon starts by the operator
    cmd,         \* the command each client runs
    pc,          \* control point of each client
    reply,       \* the daemon's answer to a call in flight
    outcome,     \* what the gRPC call returned to the client
    executed,    \* (history) where each client's command took effect
    jobs, runner, runName,                       \* the job service
    con, rcv, barrier, toServer, toClient, handler, closedSend, broken,
    sent, shown                                  \* console streams

JS == INSTANCE JobService WITH Requesters <- Clients
Console == INSTANCE StorageConsole WITH Consoles <- Clients

jobVars == <<jobs, runner, runName>>
conVars == <<con, rcv, barrier, toServer, toClient, handler, closedSend,
             broken, sent, shown>>
partVars == <<jobVars, conVars>>
vars == <<daemon, restarting, stopReq, lock, pidFile, starts, cmd, pc, reply,
          outcome, executed, partVars>>
daemonVars == <<daemon, restarting, stopReq, lock, pidFile, starts>>

Outcomes == {"ok", "error", "unavailable"}

TypeOK ==
    /\ daemon \in {"down", "core", "listening", "stopping"}
    /\ restarting \in BOOLEAN
    /\ stopReq \in BOOLEAN
    /\ lock \in {"free", "daemon"} \cup {c \in Clients : pc[c] = "local"}
    /\ pidFile \in BOOLEAN
    /\ starts \in 0..MaxStarts
    /\ cmd \in [Clients -> Commands]
    /\ pc \in [Clients -> {"start", "idle", "inflight", "decide", "opening", "local",
                           "kill", "console", "done"}]
    /\ reply \in [Clients -> {"none", "ok", "error"}]
    /\ outcome \in [Clients -> {"none"} \cup Outcomes]
    /\ executed \in [Clients -> SUBSET {"remote", "local"}]
    /\ JS!JobTypeOK
    /\ Len(jobs) <= MaxJobs
    /\ Console!ConsoleTypeOK

\* The daemon is either not running, with or without a stale pid file, or
\* serving with its store open and the jobs its beans have registered.
Init ==
    /\ \/ daemon = "down" /\ lock = "free" /\ pidFile \in BOOLEAN
       \/ daemon = "listening" /\ lock = "daemon" /\ pidFile = TRUE
    /\ restarting = FALSE
    /\ stopReq = FALSE
    /\ starts = 0
    /\ cmd \in [Clients -> Commands]
    /\ pc = [c \in Clients |-> "start"]
    /\ reply = [c \in Clients |-> "none"]
    /\ outcome = [c \in Clients |-> "none"]
    /\ executed = [c \in Clients |-> {}]
    /\ jobs \in IF daemon = "listening"
                 THEN {<<>>} \cup {<<n>> : n \in JobNames} ELSE {<<>>}
    /\ runner = [c \in Clients |-> "none"]
    /\ runName = [c \in Clients |-> NoArg]
    /\ Console!ConsoleInit

Goto(c, l) == pc' = [pc EXCEPT ![c] = l]

-----------------------------------------------------------------------------
(* The client side.                                                        *)

\* Application.Run(args): preprocessArgs turns "-h" into "help"; the
\* command named by the first argument runs, an unknown one prints the
\* usage and returns nil.  Without arguments Commands["default"] runs with
\* args[1:], a slice of an empty slice: the panic is recovered into the
\* error Run returns; without that command the usage is printed.
AppRun(c) ==
    /\ pc[c] = "start"
    /\ IF cmd[c] \in AllCommands
         THEN /\ Goto(c, "idle")
              /\ UNCHANGED outcome
         ELSE /\ Goto(c, "done")
              /\ outcome' = [outcome EXCEPT ![c] =
                    IF cmd[c] = "none" /\ DefaultCommand THEN "error" ELSE "ok"]
    /\ UNCHANGED <<partVars, daemonVars, cmd, reply, executed>>

\* implConfigCommand.Run: no sub-command, an unknown one, or get and set
\* without their key argument return an error before any call.
ConfigArgsError(c) ==
    /\ pc[c] = "idle"
    /\ cmd[c] \in ConfigCommands
    /\ Goto(c, "done")
    /\ outcome' = [outcome EXCEPT ![c] = "error"]
    /\ UNCHANGED <<partVars, daemonVars, cmd, reply, executed>>

\* doWithControlClient: extending the context with the client beans, or
\* finding its one ControlClient, fails; the error is not Unavailable.
ClientContextFails(c) ==
    /\ pc[c] = "idle"
    /\ Goto(c, "decide")
    /\ outcome' = [outcome EXCEPT ![c] = "error"]
    /\ UNCHANGED <<partVars, daemonVars, cmd, reply, executed>>

\* Seeded bug: the call waits for the daemon to be ready (WaitForReady).
CallWaitsForReady(c) ==
    /\ pc[c] = "idle"
    /\ Goto(c, "inflight")
    /\ UNCHANGED <<partVars, daemonVars, cmd, reply, outcome, executed>>

\* client.<Method>(context.Background(), req), or the opening of the
\* console's stream: it reaches a listening daemon, or fails at once with
\* Unavailable.
Call(c) ==
    /\ pc[c] = "idle"
    /\ IF daemon = "listening"
         THEN /\ Goto(c, IF cmd[c] = "console" THEN "console" ELSE "inflight")
              /\ IF cmd[c] = "console" THEN Console!Open(c)
                                       ELSE UNCHANGED conVars
              /\ UNCHANGED outcome
         ELSE /\ Goto(c, "decide")
              /\ outcome' = [outcome EXCEPT ![c] = "unavailable"]
              /\ UNCHANGED conVars
    /\ UNCHANGED <<jobVars, daemonVars, cmd, reply, executed>>

\* The response reaches the client.
Deliver(c) ==
    /\ pc[c] = "inflight"
    /\ reply[c] # "none"
    /\ daemon = "listening"
    /\ outcome' = [outcome EXCEPT ![c] = reply[c]]
    /\ Goto(c, "decide")
    /\ UNCHANGED <<partVars, daemonVars, cmd, reply, executed>>

\* config set, get, dump and list: setInStorage, getFromStorage or
\* dumpFromStorage on Unavailable, any other error returned.
DecideConfig(c) ==
    /\ pc[c] = "decide"
    /\ cmd[c] \in ConfigCommands
    /\ Goto(c, IF outcome[c] = "unavailable" THEN "opening" ELSE "done")
    /\ UNCHANGED <<partVars, daemonVars, cmd, reply, outcome, executed>>

\* storage (console included): doInCore with the storage service on
\* Unavailable.
DecideStorage(c) ==
    /\ pc[c] = "decide"
    /\ cmd[c] \in {"storage", "console"}
    /\ Goto(c, IF outcome[c] = "unavailable" THEN "opening" ELSE "done")
    /\ UNCHANGED <<partVars, daemonVars, cmd, reply, outcome, executed>>

\* cert: doInCore with the certificate service on Unavailable, except for
\* "manager", which is "available only on running server".
DecideCert(c) ==
    /\ pc[c] = "decide"
    /\ cmd[c] \in {"cert", "manager"}
    /\ Goto(c, IF outcome[c] = "unavailable" /\ cmd[c] = "cert"
                 THEN "opening" ELSE "done")
    /\ UNCHANGED <<partVars, daemonVars, cmd, reply, outcome, executed>>

\* Seeded bug: stop kills the pid only when the daemon is unreachable.
DecideStopOnlyUnavailable(c) ==
    /\ pc[c] = "decide"
    /\ cmd[c] = "stop"
    /\ Goto(c, IF outcome[c] = "unavailable" THEN "kill" ELSE "done")
    /\ UNCHANGED <<partVars, daemonVars, cmd, reply, outcome, executed>>

\* stop: KillServer on any error of the Shutdown(false) call.
DecideStop(c) ==
    /\ pc[c] = "decide"
    /\ cmd[c] = "stop"
    /\ Goto(c, IF outcome[c] = "ok" THEN "done" ELSE "kill")
    /\ UNCHANGED <<partVars, daemonVars, cmd, reply, outcome, executed>>

\* restart, status and job return what the call returned.
DecideReturn(c) ==
    /\ pc[c] = "decide"
    /\ cmd[c] \in {"restart", "status", "job"}
    /\ Goto(c, "done")
    /\ UNCHANGED <<partVars, daemonVars, cmd, reply, outcome, executed>>

\* doInCore: parent.Extend(CoreBeans) opens the store.
LocalOpen(c) ==
    /\ pc[c] = "opening"
    /\ lock = "free"
    /\ lock' = c
    /\ Goto(c, "local")
    /\ UNCHANGED <<partVars, daemon, restarting, stopReq, pidFile, starts, cmd, reply,
                   outcome, executed>>

\* Extend fails after the store's open timeout: "failed to create core
\* context".
LocalOpenTimeout(c) ==
    /\ pc[c] = "opening"
    /\ StoreOpenTimeout
    /\ lock # "free"
    /\ Goto(c, "done")
    /\ UNCHANGED <<partVars, daemonVars, cmd, reply, outcome, executed>>

\* Seeded bug: the core context is not closed after the command.
LocalExecNoClose(c) ==
    /\ pc[c] = "local"
    /\ executed' = [executed EXCEPT ![c] = @ \cup {"local"}]
    /\ Goto(c, "done")
    /\ UNCHANGED <<partVars, daemonVars, cmd, reply, outcome>>

\* cb(core) runs the command on the local store; defer core.Close().
LocalExec(c) ==
    /\ pc[c] = "local"
    /\ executed' = [executed EXCEPT ![c] =
          IF cmd[c] \in ReadCommands THEN @ ELSE @ \cup {"local"}]
    /\ lock' = "free"
    /\ Goto(c, "done")
    /\ UNCHANGED <<partVars, daemon, restarting, stopReq, pidFile, starts, cmd, reply,
                   outcome>>

\* KillServer: read the pid file, kill -2 the pid, remove the file.  Before
\* runServers installs signal.Notify, SIGINT kills the process; a serving
\* daemon stops gracefully; a stopping one ignores it.
KillServer(c) ==
    /\ pc[c] = "kill"
    /\ IF pidFile
         THEN /\ pidFile' = FALSE
              /\ daemon' = IF daemon = "core" THEN "down" ELSE daemon
              /\ stopReq' = (stopReq \/ daemon = "listening")
         ELSE UNCHANGED <<pidFile, daemon, stopReq>>
    /\ Goto(c, "done")
    /\ UNCHANGED <<partVars, restarting, lock, starts, cmd, reply, outcome, executed>>

\* StorageConsole returned nil once its loop ended: so does the command.
ConsoleEnd(c) ==
    /\ pc[c] = "console"
    /\ con[c] = "returned"
    /\ outcome' = [outcome EXCEPT ![c] = "ok"]
    /\ Goto(c, "done")
    /\ UNCHANGED <<partVars, daemonVars, cmd, reply, executed>>

\* The console's goroutines: the main loop waiting on the barrier and the
\* receiver.
ConsoleGoroutines(c) ==
    /\ Console!ConsoleStep(c)
    /\ UNCHANGED <<jobVars, daemonVars, cmd, pc, reply, outcome, executed>>

\* The user at the console's prompt types a query or "exit".
ConsoleUser(c) ==
    /\ Console!UserStep(c)
    /\ UNCHANGED <<jobVars, daemonVars, cmd, pc, reply, outcome, executed>>

-----------------------------------------------------------------------------
(* The daemon side.                                                        *)

\* The control service handles the call: the command takes effect, or it
\* fails (a refused token, a failing command).  Node("shutdown"|"restart")
\* calls application.Shutdown(restart).
HandleRequest(c) ==
    /\ pc[c] = "inflight"
    /\ reply[c] = "none"
    /\ daemon = "listening"
    /\ \/ /\ cmd[c] # "job"
          /\ reply' = [reply EXCEPT ![c] = "ok"]
          /\ executed' = [executed EXCEPT ![c] =
                IF cmd[c] \in {"stop", "restart"} \cup ReadCommands THEN @
                ELSE @ \cup {"remote"}]
          /\ IF cmd[c] \in {"stop", "restart"}
               THEN /\ restarting' = (cmd[c] = "restart")
                    /\ stopReq' = TRUE
               ELSE UNCHANGED <<restarting, stopReq>>
       \/ /\ reply' = [reply EXCEPT ![c] = "error"]
          /\ UNCHANGED <<restarting, stopReq, executed>>
    /\ UNCHANGED <<partVars, daemon, lock, pidFile, starts, cmd, pc, outcome>>

\* The control service's Job handler: jobService.ExecuteCommand(cmd, args)
\* with the arguments the CLI passed.
HandleJob(c) ==
    /\ pc[c] = "inflight"
    /\ reply[c] = "none"
    /\ daemon = "listening"
    /\ cmd[c] = "job"
    /\ \E sub \in JS!JobCommands, n \in JobNames \cup {NoArg} :
         /\ reply' = [reply EXCEPT ![c] = JS!ExecuteReply(sub, n)]
         /\ JS!ExecuteCommand(c, sub, n)
    /\ UNCHANGED <<conVars, daemonVars, cmd, pc, outcome, executed>>

\* A bean of the application registers a job with AddJob.
AppAddJob ==
    /\ daemon = "listening"
    /\ Len(jobs) < MaxJobs
    /\ \E n \in JobNames : JS!AddJob(n)
    /\ UNCHANGED <<conVars, daemonVars, cmd, pc, reply, outcome,
                   executed>>

\* A RunJob goroutine of the daemon.
JobStep(c) ==
    /\ daemon \in {"listening", "stopping"}
    /\ JS!FindJob(c) \/ JS!JobReturns(c)
    /\ UNCHANGED <<conVars, daemonVars, cmd, pc, reply, outcome,
                   executed>>

\* The daemon's handler of a console stream.
ConsoleHandler(c) ==
    /\ daemon = "listening"
    /\ Console!HandlerStep(c)
    /\ UNCHANGED <<jobVars, daemonVars, cmd, pc, reply, outcome, executed>>

\* The operator runs the start command: a new process, a new pid file.
StartDaemon ==
    /\ daemon = "down"
    /\ starts < MaxStarts
    /\ daemon' = "core"
    /\ pidFile' = TRUE
    /\ starts' = starts + 1
    /\ restarting' = FALSE
    /\ stopReq' = FALSE
    /\ UNCHANGED <<partVars, lock, cmd, pc, reply, outcome, executed>>

\* t.Context.Extend(beans...) opens the store; runServers binds and serves.
DaemonOpenStore ==
    /\ daemon = "core"
    /\ lock = "free"
    /\ lock' = "daemon"
    /\ daemon' = "listening"
    /\ UNCHANGED <<partVars, restarting, stopReq, pidFile, starts, cmd, pc, reply,
                   outcome, executed>>

\* The store is held by a CLI: Extend fails after the open timeout, Run
\* returns the error and the process exits, leaving its pid file.
DaemonOpenTimeout ==
    /\ daemon = "core"
    /\ StoreOpenTimeout
    /\ lock \in Clients
    /\ daemon' = "down"
    /\ UNCHANGED <<partVars, restarting, stopReq, lock, pidFile, starts, cmd, pc, reply,
                   outcome, executed>>

\* The signal goroutine sees the stop and calls server.Stop(): grpc's Stop
\* closes every connection, so each call in flight fails with Unavailable.
DaemonStopBegin ==
    /\ daemon = "listening"
    /\ stopReq
    /\ daemon' = "stopping"
    /\ outcome' = [c \in Clients |->
                     IF pc[c] = "inflight" THEN "unavailable" ELSE outcome[c]]
    /\ pc' = [c \in Clients |-> IF pc[c] = "inflight" THEN "decide" ELSE pc[c]]
    /\ Console!Abort({c \in Clients : pc[c] = "console"})
    /\ UNCHANGED <<jobVars, restarting, stopReq, lock, pidFile, starts, cmd, reply,
                   executed>>

\* g.Wait returns, core.Close() releases the store; if Restarting(), the
\* start command launches a new process, which writes its pid file.
DaemonClose ==
    /\ daemon = "stopping"
    /\ lock' = "free"
    /\ IF restarting
         THEN /\ daemon' = "core"
              /\ pidFile' = TRUE
         ELSE /\ daemon' = "down"
              /\ UNCHANGED pidFile
    /\ restarting' = FALSE
    /\ stopReq' = FALSE
    /\ JS!JobsLost
    /\ UNCHANGED <<conVars, starts, cmd, pc, reply, outcome, executed>>

-----------------------------------------------------------------------------

ClientStep(c) ==
    \/ AppRun(c)
    \/ ConfigArgsError(c)
    \/ ClientContextFails(c)
    \/ Call(c)
    \/ DecideConfig(c)
    \/ DecideStorage(c)
    \/ DecideCert(c)
    \/ DecideStop(c)
    \/ DecideReturn(c)
    \/ LocalOpen(c)
    \/ LocalOpenTimeout(c)
    \/ LocalExec(c)
    \/ KillServer(c)
    \/ ConsoleEnd(c)

DaemonStep ==
    \/ DaemonOpenStore
    \/ DaemonOpenTimeout
    \/ DaemonStopBegin
    \/ DaemonClose

Next ==
    \/ \E c \in Clients :
         \/ ClientStep(c) \/ Deliver(c) \/ HandleRequest(c) \/ HandleJob(c)
         \/ ConsoleGoroutines(c) \/ ConsoleUser(c) \/ ConsoleHandler(c)
         \/ JobStep(c)
    \/ DaemonStep
    \/ AppAddJob
    \/ StartDaemon

\* Every goroutine that can run eventually runs; the operator starting the
\* daemon, the user at a console prompt and the application registering
\* jobs are never forced.
Fairness ==
    /\ \A c \in Clients : WF_vars(ClientStep(c)) /\ WF_vars(Deliver(c))
                          /\ WF_vars(HandleRequest(c)) /\ WF_vars(HandleJob(c))
                          /\ WF_vars(ConsoleGoroutines(c))
                          /\ WF_vars(ConsoleHandler(c)) /\ WF_vars(JobStep(c))
    /\ WF_vars(DaemonStep)

Spec == Init /\ [][Next]_vars /\ Fairness

-----------------------------------------------------------------------------
(* Properties.                                                             *)

\* A console waiting for its user to type.
AwaitingUser(c) == pc[c] = "console" /\ con[c] = "prompt"

\* Every CLI command returns, or ends up waiting for its user at the
\* console's prompt: a call in flight is answered or aborted, a fallback to
\* the store never waits forever for a store the daemon holds, and the
\* console's main loop never waits forever on the barrier, even when the
\* stream fails under it.
EveryCommandReturns ==
    \A c \in Clients : <>[](pc[c] = "done" \/ AwaitingUser(c))

\* The console prompts for the next query only after the answer to every
\* query it sent has been written, as long as the stream is intact: the
\* barrier orders the receiver's output before the main loop's prompt.
AnswerShownBeforePrompt ==
    \A c \in Clients : con[c] = "prompt" /\ ~broken[c] => shown[c] = sent[c]

\* The job service implements the registry: the slice behaves as a bag of
\* names from which a cancel takes one registration, and a run starts only
\* a job registered when its goroutine looks it up.
JobsImplementRegistry == JS!Abstract!Spec

\* A stop command whose Shutdown(false) call failed while the daemon was
\* serving still brings that daemon down: KillServer sends SIGINT to the
\* pid in the pid file after any error, a refused call or a client context
\* that could not be built included, not only after Unavailable.  (A new
\* daemon can only be started once this one has stopped.)
StopEndsDaemon ==
    \A c \in Clients :
        (/\ cmd[c] = "stop" /\ pc[c] = "decide" /\ outcome[c] = "error"
         /\ daemon = "listening")
            ~> daemon \in {"down", "stopping"}

\* A restart the daemon acknowledged brings the daemon back to serving:
\* Shutdown(true), core.Close and StartCommand.Start end in a new process
\* that opens the store and listens.
RestartResumesService ==
    \A c \in Clients :
        (cmd[c] = "restart" /\ pc[c] = "done" /\ outcome[c] = "ok")
            ~> daemon = "listening"

\* A command takes effect at most once: the local fallback never re-runs a
\* command the daemon has already executed.  Reads are not recorded.
AtMostOnce == \A c \in Clients : executed[c] # {"remote", "local"}

=============================================================================

# TLA+ models of sprintframework's control plane

This directory holds TLA+ models of the concurrent parts of the daemon
framework under `src/`. Each model is checked with TLC. `PROJECT.json` lists
the components, runs, seeded-bug mutants, the mapping from definitions to
source lines, the findings and the hazards. This README explains them.

## The system and how its parts interact

The daemon (`run` command, `src/pkg/cmd/run_cmd.go`) creates a *core context*
with these parts:

- the configuration repository (`ConfigRepository`);
- the node service (`NodeService`);
- the job service;
- the storage beans.

It then calls `runServers` (`src/pkg/cmd/utils.go`). That function:

1. binds every gRPC and HTTP server;
2. runs each bound server's `Serve` in an errgroup;
3. starts a signal goroutine, which waits for SIGINT/SIGTERM/SIGHUP or for
   `Application.Done()`;
4. stops every bound server, and returns.

After `g.Wait` returns, the run command closes the core context and, if
`Application.Restarting()`, starts a new process.

The configuration repository is shared:

- `NodeService.PostConstruct` persists `node.id` through it;
- `AuthorizationMiddleware.PostConstruct` persists `jwt.secret.key` through it;
- the control service's `config set` writes through it;
- watches deliver its changes to subscribers.

CLI commands (`config`, `storage`, `cert`, `stop`, ...) first try the daemon
over gRPC. On `Unavailable` they open the same store in-process (`doInCore`).
`stop` falls back to `kill -2` of the pid in the pid file on any error.

## Modules

| Module | Models | Source |
|---|---|---|
| `ConfigRepository` | Set/doSet/notifyAll, Watch and its goroutine, cancel, unregister, close, Destroy | `src/pkg/core/config_repository.go` |
| `NodeService` | PostConstruct (node.id), every atomic step of Issue's CAS loop, clock, restarts | `src/pkg/core/node_service.go` |
| `ServerLifecycle` | runServers, Serve/Stop of both servers, Application.Shutdown, the restart decision | `src/pkg/cmd/utils.go`, `src/pkg/server/grpc_server.go`, `src/pkg/server/http_server.go`, `src/pkg/app/application.go`, `src/pkg/cmd/run_cmd.go` |
| `ControlDispatcher` | CLI commands (config, storage, cert, manager, stop, restart, status, job) against a daemon: gRPC call, fallback to the store, kill, store lock, daemon start/stop/restart | `src/pkg/cmd/*_cmd.go`, `src/pkg/cmd/utils.go`, `src/pkg/client/control_client.go`, `src/pkg/client/grpc_client_factory.go`, `src/pkg/core/badger_storage_factory.go`, `src/pkg/server/grpc_server.go` |
| `JobService` | AddJob, CancelJob, ExecuteCommand (list, run, cancel), the RunJob goroutine: findJob under the mutex, then the job outside it | `src/pkg/core/job_service.go` |
| `JobRegistry` | the abstract job service: a bag of registered names, requests started or dropped | (abstract specification) |
| `StorageConsole` | the storage console's prompt loop and receiver goroutine around the barrier channel, and the stream handler | `src/pkg/client/control_client.go` |
| `ControlAddress` | the CLI's connect address: the client factory's Object and getConnectAddress | `src/pkg/client/grpc_client_factory.go` |
| `ApplicationFlags` | keyValueFlags.Set, the -p map, RegisterServerArgs and the flag parsing of the process a restart launches | `src/pkg/app/application_flags.go` |
| `AuthorizationGate` | secret bootstrap in PostConstruct, GenerateToken, InvalidateToken, Authenticate, GetUser, HasUserRole, the setup and token commands, daemon starts and exits | `src/pkg/server/authorization_middleware.go`, `src/pkg/cmd/setup_cmd.go`, `src/pkg/cmd/token_cmd.go` |

Each `MC_<Module>` module extends its module for TLC. Where a constant needs
a value that a `.cfg` cannot write (keys as sequences), the MC module defines
it. `MC_ServerLifecycle` also extends `ApplicationFlags` and
`ControlAddress`, so that the lifecycle run checks the flags a restart passes
on and the address a CLI derives from the control server's listen-address. `ControlDispatcher`
composes `JobService` and `StorageConsole` with `INSTANCE`: the job and
console commands run against the same daemon and the same store lock as the
other commands.

### ConfigRepository

Each Set call is a setter with a program counter:

- `idle`
- `loadNum`: after doSet, reading watchNum
- `notify`: ranging over the map
- `send`: blocked in `wc.ch <- e`
- `done`
- `panicked`: sent on a closed channel

Each watch goroutine has a state in `wstate`:

- `new`
- `select`
- `callback`
- `unregister`
- `close`
- `closed`

The other variables correspond to the code like this:

| Model | Code |
|---|---|
| `watchMap` | the `sync.Map` |
| `watchNum` | the atomic handle counter |
| `ctxDone` | the watch's context |

The Range of `notifyAll` is modelled as a set of entries still to visit. That
set is taken when the Range starts, and an entry deleted before it is reached
is skipped. This is `sync.Map.Range`'s guarantee.

The unbuffered send is a rendezvous. The `Receive` action moves the change
from the blocked setter to the watch.

A key is a sequence of segments, so that `strings.HasPrefix` is `IsPrefix`. A
value is a model value, and the empty string (delete) is `NoValue`.

History variables:

- `snapshot`: the watches present when the Range began
- `delivered`
- `released`: the watches registered when Destroy ran

They exist only for the properties.

### NodeService

The state is:

- the two atomics `lastTimestamp` and `clock`;
- per goroutine: the id under construction (`idTime`, `idSeq`) and the local
  `old`;
- `persisted` (`node.id` in the store);
- `nodeId`;
- the wall clock `now`.

Each action is one atomic operation of `Issue`:

- load;
- `clock.Inc`;
- CAS;
- `clock.Store(0)`;
- reload with `SetTime`.

So every interleaving of goroutines between these operations is explored.

The environment has three actions: `Tick`, `Regress` (an NTP step back,
enabled by `ClockMayRegress`) and `Restart`. A restart loses the atomics and
keeps `persisted`.

`PostConstruct` reads `node.id` with `GetString`, and
`ConfigRepository.GetProperty` answers `""` both for an absent key and for a
`Get` that failed (`StoredNodeId`). So `GenerateNodeId` is enabled on every
start, and generates and stores a new id over the stored one when the read
failed; `LoadNodeId` is the read that succeeded.

The clock sequence that `uuid.New(TimebasedVer1)` leaves in a fresh id is the
constant `InitialClockSeq`. The uuid library is not in this repository.

### ServerLifecycle

The process has three kinds of goroutine:

- the main goroutine (`scan`, `bind`, `spawn`, `wait`, `close`, `core`,
  then `exited` / `restarted` / `killed`);
- one Serve goroutine per server (`idle`, `start`, `enter`, `serving`,
  `exited`);
- the signal goroutine (`none`, `notify`, `wait`, `stopping`, `done`).

The variables:

| Model | Code |
|---|---|
| `running[s]` | the server's `running` atomic |
| `closed[s]` | its listener having been closed |
| `sigCh` | the buffered signal channel |
| `appDone` | `Application.shutdownCh` being closed |
| `restarting` | `Application.restarting` |

`Bind` chooses any subset of the servers that can bind (`Bindable`): a
gRPC server whose `<bean>.listen-address` property is not set
(`Unaddressed`) always fails (`GrpcBindable`), and `net.Listen` may fail for
any server. The runs set `Unaddressed = {}`: a missing address is one more
way to fail, which the subsets already cover.

`SendSignal` delivers SIGTERM or SIGHUP. Before `signal.Notify` has run, a
signal kills the process.

`Shutdown(restart)` is the control service's Node command, i.e.
`Application.Shutdown`.

`CreateServers` is `doWithServers` creating the server beans; it may fail,
and the process exits. After `g.Wait` returns, `CloseServers` is the
deferred close of the server context, which destroys every server bean and
so calls its `Stop` (`StopAll`); `RunEnds` is the run command after
`core.Close`: it restarts exactly when `Restarting()` is true at that read.

A gRPC server's `Stop` runs `srv.Stop()` in a new goroutine. `stopper` holds
the servers whose goroutine is pending, and `SrvStop` is that goroutine's
step: it sets `srvStopped` and closes the server's connection. `Serve` is
split at `running.Store(true)` (`ServeStart`) and the entry into
`srv.Serve` (`ServeEnter`). If the stop goroutine has run in between,
`srv.Serve` returns `ErrServerStopped`, which is an error because its text
lacks "closed". `conn[s]` is a live client connection (`Accept`); the
control service's Node command can call `Shutdown` only over such a
connection, so a late Shutdown can still land after the stop loop has run
and before `srv.Stop` closes the connection.

The variable `rotation` says whether a lumberjack logger bean exists. It is
chosen in `Init` and never changes, so one run covers both configurations.

### ControlDispatcher

Each CLI process `c` runs one command `cmd[c]`, chosen at `Init`. Its program
counter `pc[c]`:

- `start`: `Application.Run` (`AppRun`). An argument that is not a command
  prints the usage and returns nil. With no argument and a "default"
  command, `args[1:]` of the empty slice panics, and the recovered panic is
  returned as an error (`DefaultCommand`);
- `idle`: before the call;
- `inflight`: the gRPC call is on the wire (`Call`); `grpc.Dial` does not
  block, so a call to a daemon that is not listening fails at once with
  `Unavailable`;
- `config` (`config set`) and `configRead` (`config get`, `dump`, `list`)
  first check their arguments: a missing or unknown sub-command, or `get` /
  `set` without a key, returns an error before any call
  (`ConfigArgsError`). Building the control client may fail on any command
  (`ClientContextFails`): that error is not `Unavailable`;
- `decide`: the reply is in (`Deliver`); one action per command file decides
  (`DecideConfig`, `DecideStorage`, `DecideCert`, `DecideStop`,
  `DecideReturn`);
- `opening` / `local`: `doInCore` opens the store (`LocalOpen`, or
  `LocalOpenTimeout` with badger's one-second open timeout) and runs the
  command on it (`LocalExec`);
- `kill`: `stop`'s `KillServer` sends SIGINT to the pid file's process;
- `done`.

The daemon is `down`, `core` (opening its store), `listening` or
`stopping`. `lock` is the store's exclusive owner: `free`, `daemon` or a
client. `HandleRequest` is the control service's handler, which is not in
this repository: it answers ok or error, and a `stop`/`restart` sets the stop
request. `DaemonStopBegin` is gRPC `Stop`: in-flight calls get `Unavailable`.
`DaemonClose` is `core.Close`; after a restart the start command opens a new
core (`StartDaemon` is the operator's start command). `executed` records
where each command that writes ran (`remote`, `local`); reads (`configRead`,
`status`) are not recorded, since running one twice changes nothing.

The `job` command reaches `JobService.ExecuteCommand` in the daemon
(`HandleJob`). The application's beans call `AddJob` (`AppAddJob`), and the
RunJob goroutines step on their own (`JobStep`). The `console` command opens
the `StorageConsole` stream. `ConsoleUser` is the user typing a query or
"exit". `ConsoleHandler` is the daemon's handler of the stream.
`DaemonStopBegin` breaks every open stream (`Abort`).

### JobService and JobRegistry

`jobs` is `t.jobs`, a sequence of names in registration order. Every method
holds `muJobs` for its whole body, so each is one step. The exception is
`RunJob`. `findJob` runs under the mutex (`runner` = `spawned` to
`running` or `done`), and the job runs after the mutex is released. The
job's outcome is not observable, so `JobReturns` ends it.

`JobRegistry` is what the service promises: a bag of names, and requests
that are later started or dropped. `JobService` refines it with
`registry <- ToBag(jobs)`. A spawned runner is a pending request, and a
running one is active. The dispatch run checks `JobsImplementRegistry`,
which is `JobRegistry`'s `Spec`, as a temporal property. `JobsLost` (the
daemon closing its core) refines `Forget`.

### StorageConsole

Each CLI process has its own stream, with these variables:

| Model | Code |
|---|---|
| `con` | the main goroutine |
| `rcv` | the receiver goroutine |
| `barrier` | the capacity-one channel |
| `toServer`, `toClient` | the stream's two directions |
| `closedSend` | `CloseSend` has been called |
| `broken` | gRPC Stop closed the connection |

The receiver's deferred `barrier <- -1` is its own step (`RecvDeferred`). It
blocks while the buffer is full. The handler is not in this repository. It
is modelled from the description: one line and one ready per query, and it
ends once the client has closed its side.

### ApplicationFlags

Strings are sequences over a small alphabet that contains `=`, so the split
at the first `=` (`KVSet`) is modelled as what it does. `PropsOf` folds
`KVSet` over the `-p` values. `ServerArgs` is the set of argument lists that
`RegisterServerArgs` can produce, one per map iteration order. The recursive
`ParseArgs` is `flag.FlagSet.Parse` with `-v` and `-p` registered.
`FlagsRoundTrip` says that every such list parses back to the same flags. A
key that is empty is dropped by `RegisterServerArgs`. Such a property can't
be looked up by name, so the comparison is up to named keys (`Named`).

### ControlAddress

A CLI process dials `<bean>.connect-address`, or, when it is not set, the
address `getConnectAddress` derives from `control-grpc-server.listen-address`
(`ClientConnectAddress`); with neither it fails, which `ControlDispatcher`
counts among `ClientContextFails`. Addresses are sequences of one-character
strings, so the prefix tests and the slice `listenAddr[7:]` are modelled as
what they do. The reference is `HostPort`, the split at the last `:` of
`net.SplitHostPort`, and `ReachedAt`, the address a listener is reached at.
`MC_ServerLifecycle` supplies four hosts (`""`, `0.0.0.0`, `127.0.0.1`,
`10.0.0.1`) and two ports, and `ClientDialsControlServer` checks every
combination once a client has connected to the control server.

### AuthorizationGate

The daemon goes `down`, `boot` (store open), `generated` (secret printed),
`persisted` (Set done), `up`. `StoredSecret` is what `GetString` gives: the
stored secret, or, when `StoreReadFails` holds, also `""` because
`GetProperty` drops the error of `Get`. `LoadSecret` is a non-empty read;
`GenerateSecret` follows an empty one, whether the key is absent or the read
failed. The setup command calls `Get` itself and returns its error
(`SetupSecret`). `PersistSecret` may fail, and `Exit` ends the process at any
point, losing `secretKey` and the revocation set `invalid`.

The setup command (`SetupOpen`, `SetupSecret`) exports a new boot token, opens
the store in-process when the daemon is down, reads or generates the secret
and prints an admin token. `TokenAuth` signs a token with any secret that was
printed. A token is a record of its secret, a serial number and its issuer.
`Accepts(t)` is `doAuthenticate`: not revoked and signed with `secretKey`.
A token also records whether its roles hold `ADMIN` (always for the daemon's
and setup's tokens, either way for `GenerateToken` and token auth).

One request at a time runs on the `up` daemon (`req`). `Authenticate` stores
the token's user in the context, or the anonymous user (`Anonymous`) for a
refused token or none. `MissRequest` is a handler reached without the
middleware: its context has no user (`Missing`). `CheckRole` is the handler's
`HasUserRole(ctx, "ADMIN")`. `GetUser` maps the anonymous user to "not ok",
and for `Missing` runs `doAuthenticate` at that moment. `EndRequest` drops
the context, and `Exit` drops it with the process. The
badger store is encrypted with the boot token (`OpensStore`). Signing and
verification are in `util`, which is not in this repository, and are modelled
as "signed with the same secret".

## Runs

| Run | Result | What it shows |
|---|---|---|
| `config_delivery` | pass | a Set that returns has delivered to every live matching watch; every Set returns; every watch present at Destroy closes |
| `config_send_on_closed` | violation | notifyAll sends on a channel the watch closed: Set panics |
| `config_watchers_converge` | violation | two Sets of a key notify out of order: a watch keeps a stale value |
| `ids_unique` | violation | CAS and `clock.Store(0)` are not atomic: duplicate ids |
| `ids_clock_regress` | violation | a clock step back makes ids decrease |
| `lifecycle_rotation` | pass | SIGHUP with rotation never closes a listener; a stop with all servers serving ends the run, through the deferred close, the srv.Stop goroutine and late Shutdown calls (with and without a lumberjack logger); a restart passes the same -v and -p flags to the new process; a CLI with only the control server's listen-address dials that server (`ClientDialsControlServer`) |
| `lifecycle_early_stop` | violation | a stop before a Serve goroutine sets `running` is lost: the daemon never exits |
| `dispatch_returns` | pass | the console never prompts before the answer to the last query is shown; every CLI command returns or waits only on its user; a stop whose Shutdown call failed while the daemon served still brings it down (`StopEndsDaemon`); the job service implements `JobRegistry` |
| `dispatch_double_exec` | violation | a call the daemon executed is aborted by gRPC Stop; the CLI runs it again locally |
| `dispatch_restart_lost` | violation | after an acknowledged restart, a CLI holding the store makes the new daemon's badger open time out: the daemon stays down |
| `auth_tokens` | pass | with reads of the store that succeed, every printed, unrevoked token is accepted by every later incarnation (`PrintedTokensAccepted`); a role check grants only an ADMIN token signed with the running secret, on both of GetUser's paths (`AdminOnlyGranted`) |
| `auth_secret_read_error` | violation | a `Get` of `jwt.secret.key` that fails at boot is taken for an absent key: the daemon prints and stores a new secret, and every token printed before is refused |

Findings (details in `PROJECT.json`):

- `config_send_on_closed`, `ids_unique`, `lifecycle_early_stop` and
  `dispatch_restart_lost` are bugs in the code.
- `config_watchers_converge`, `ids_clock_regress` and
  `auth_secret_read_error` are divergences from what `spec.md` says. The
  last: `spec.md` makes a persistence failure at bootstrap fatal, but
  `GetProperty` (`config_repository.go:79`) drops the error of `Get`, and
  `PostConstruct` regenerates the secret. `node.id` is read the same way and
  is regenerated too (`NodeService` reaches it; no run is spent on it).
- `dispatch_double_exec` is a gap in the spec: it treats `Unavailable` as
  "daemon not running", but gRPC's `Stop` also aborts calls that already ran.

Observations that are not runs:

- `Application.Run` with no arguments and a default command panics on
  `args[1:]` (`src/pkg/app/application.go:322`). The panic is recovered
  and returned as an error. The path is straight-line, and a unit test
  reaches it.
- A stop that races `srv.Serve`'s entry makes Serve return
  `ErrServerStopped`, which is an error. `spec.md` says that Serve returns
  without error on a stop. The error reaches only the log, because
  `run_cmd.go:144` overwrites `runServers`' error with `core.Close()`'s.
- A token revoked after `Authenticate` still passes `HasUserRole` for the
  rest of that request: the user in the context is not checked again. TLC
  reaches it in `auth_tokens`; `AdminOnlyGranted` allows it, as the code
  does.
- `createLogFile` (`run_cmd.go:58-73`) opens `<name>-startup.log` in the
  working directory, not joined with the log directory it computes.
- `verifyAuthToken` (`token_cmd.go:165`) builds an error and discards it;
  the nil user then panics, and `Run`'s recover returns the panic.
- When no server binds, `runServers` returns nil and the daemon exits
  without an error (`utils.go:245`). `spec.md` asks for a fatal error when
  zero listeners are bound. The path is a straight line of the code, and
  no property of `ServerLifecycle` tells its nil result from a normal stop.
- Revocation lives in process memory: `Exit` clears `invalid`, and a later
  incarnation accepts a revoked token again. `spec.md` calls this a design
  bound.
- `config dump` with a negative limit panics on `value[:limit]`
  (`config_cmd.go:189`); the panic is recovered by `Application.Run`.

Each property of a passing run has a seeded-bug mutant, an operator placed
just before the definition it replaces. Each mutant is listed in
`PROJECT.json`, and TLC finds the property violated when the mutant is
substituted.

## Bounds

- **ConfigRepository:**
  - Runs use two setters, one watch and one value.
  - The keys are `app.port` and `db.url`, and the watch prefix is `app`, so
    one key matches and one does not.
  - The convergence run uses two values.
  - Two setters and one watch are the smallest setting where a Range races
    an unregister and a second setter.
- **NodeService:**
  - The clock is bounded by `MaxTime = 3` ticks.
  - There are `MaxIds` ids and `MaxRestarts` restarts.
  - Three ticks allow a same-tick pair of ids, a new tick and a step back.
- **ServerLifecycle:**
  - Two servers (gRPC and HTTP).
  - At most two signals and two Shutdown calls.
  - That is enough for a HUP followed by a TERM, and for a restart request
    followed by a shutdown.
  - One of the two servers is gRPC (`GrpcServers`), so the `srv.Stop`
    goroutine races one Serve and the HTTP server's direct close races the
    other.
  - The flags use the alphabet {a, =}, values of up to three characters and
    up to two `-p` flags. That covers a value with no `=`, one with several
    `=`, an empty key, a repeated key and two keys in either map order.
  - The listen addresses cover both wildcard forms, loopback and another
    host, with one- and two-digit ports, so the slice at a fixed offset is
    checked on ports of different lengths. Port 0 is left out: the server
    then binds a port the client cannot know.
  - Any subset of servers binds, the empty one included.

- **ControlDispatcher:**
  - Two CLI processes.
  - Every command in the passing run; the violation runs keep the commands
    that take part.
  - At most one daemon start by the operator (`MaxStarts`).
  - `Commands` includes an unknown argument and no argument (`none`), with
    a default command.
  - One job name and two `AddJob` calls (`MaxJobs`), so a name can be
    registered twice and cancelled once. Two console queries
    (`MaxQueries`). A second name adds no case the properties tell apart
    and multiplies the liveness check of three temporal properties.
  - Two clients are the smallest setting where one client's stop races
    another client's call or fallback.
- **AuthorizationGate:**
  - Two secrets and two boot keys, so a regenerated value can differ.
  - `StoreReadFails` is FALSE in `auth_tokens`, which checks the protocol
    when the store answers, and TRUE in `auth_secret_read_error`.
  - Three daemon starts, two setup runs and three tokens issued on request.
  - One request in flight, with any printed token or none, through the
    middleware or not; revocation and exits interleave with it.
  - That is enough for a crash after the secret was printed, a restart, and
    a setup before and after the daemon's first start.

The models stop when the bounded callers are done, so `CHECK_DEADLOCK FALSE`
is used. The daemon's end states (`exited`, `restarted`, `killed`) are real
final states.

## Fairness

Only goroutine steps of the code are weakly fair:

- the watch goroutines, the setters, Serve, the signal goroutine and the main
  goroutine;
- the Go scheduler runs a runnable goroutine eventually.

Subscribers' cancellations, callbacks' decisions, signals, Shutdown calls and
server failures are never forced. Nothing in the code makes them happen.

`ControlDispatcher`: each CLI process, the delivery of its call, the
daemon's handler and the daemon's own steps are weakly fair. So are the RunJob goroutines, the
console's receiver goroutine and the stream handler. These steps are never
forced:

- the operator starting the daemon;
- the console user typing;
- the application's `AddJob` calls.

Accepting a connection (`Accept`) in `ServerLifecycle` is a client's choice
and has no fairness.

`NodeService` and `AuthorizationGate` check only safety.

## Not modelled

See `components` in `PROJECT.json`. Dependency injection, TLS, NAT/DNS,
logging and the HTTP pages are not modelled: they are I/O or one-shot
construction.

The token signing functions, the uuid library, the control service handlers
and the start command are not in this repository. The definitions that stand
for them are marked `spec_modelled` in the map.

Not modelled yet:

- token expiry, `UserContext` and `ParseToken` (no caller in this
  repository);
- the resource service's template cache, the storage factories' path and
  boot-token handling, and the logger factories. These are construction
  steps with no concurrency that another component depends on.

## Plan

Done: `ConfigRepository`, `NodeService`, `ServerLifecycle`,
`ControlDispatcher` (with config reads), `AuthorizationGate` (with the
role check), `JobService` with its refinement of `JobRegistry`,
`StorageConsole`, `ApplicationFlags`, `ControlAddress`.

Next:

1. A composition of the lifecycle, the dispatcher and the configuration
   repository under one daemon incarnation.

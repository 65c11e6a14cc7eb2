# Zo Tunnel in TLA+

Zo Tunnel publishes local HTTP services: a client behind a NAT opens one control
connection to the server and claims a client id; the server serves
`<client_id>.<domain>` and relays each public request to that client over a
stream of a yamux connection. This directory holds TLA+ models of the program in
`src/`, the TLC configurations that check them, and TLAPS proofs about them.

## The system

Paths are under `src/crates/`.

| component | state | operations | what makes it correct |
|---|---|---|---|
| Control sessions (`zo-tunnel-server/src/server.rs`) | one task and one driver task per connection | accept, authenticate within 10 s, grant or refuse, register, wait for the driver, unregister | only admitted clients are routed; a lost client's id comes back; nobody waits for ever |
| Registry (`registry.rs`) | concurrent map id -> `ClientEntry` | register, unregister by id, get, list | exactly the live session of an id is in it |
| Yamux driver (`server.rs`, `spawn_yamux_driver`) | select loop, command channel, heartbeat counter | poll the connection, open streams on command, heartbeat | callers are answered, loss is noticed, a dead client is given up, a live one is not |
| HTTP proxy (`proxy.rs`) | per request: the entry it found, two gauges | route, limit, look up, open a stream, relay | a request stays in its tunnel, gauges add up, a lost tunnel settles it |
| Rate limiter (`metrics.rs`) | per key: window start and count | `check` | bursts bounded, quiet keys never refused |
| Metrics (`metrics.rs`) | counters and gauges | increments, snapshot | gauges equal what they measure |
| Server lifecycle (`server.rs`) | tasks, listeners | run, shut down | cleanup on every way out |
| Caddy integration (`caddy.rs`) | our endpoint, the fallback endpoint | register, unregister, watchdog, TLS check | what was configured before and beside us is not lost, we get our place back, a shutdown ends |
| Dashboard (`dashboard.rs`) | sessions with a TTL | login, logout, read-only API, TLS check | expired sessions are refused |
| Tunnel client session (`zo-tunnel-client/src/client.rs`) | tunnel status, one connection | connect, authenticate, serve streams, cancel | status comes true, whatever its local service does |
| Tunnel manager (`tunnel_manager.rs`) | map id -> handle, configuration in memory | start, stop, add, update, remove, restart, stop all, reconnect loop | at most one live task per tunnel, with the entry of the configuration, none without a handle; the name is served in the end |
| Client configuration (`config.rs`) | YAML files | load, save, edit | memory and file agree, names are distinct |
| Client web UI server (`web_server.rs`) | the current manager | connect, disconnect, tunnel API, upgrade | one manager at a time; a restart resumes what was there |
| Client process (`main.rs`) | PID file, processes | foreground, start, stop, status, upgrade, uninstall | the PID file names the running client; nobody else is signalled |
| Wire protocol (`zo-tunnel-protocol/src/lib.rs`) | none | frame codec | decode inverts encode, bad frames are refused |
| Self update (`self_update.rs`) | the installed binary | check, download, replace, uninstall | a failure or crash leaves a binary |

How they interact: an accepted connection gets a `handle_client` task, which
spawns a driver and puts the driver's handle in the registry. A public request
(one task each) passes the limiter, takes the entry of its id from the registry,
sends the driver a command and awaits a stream. On the other side the tunnel
manager runs one reconnect loop per tunnel, whose session answers the streams.
The manager belongs to the web UI, which makes a new one for each connect; the
web UI belongs to a foreground process, which commands in terminals start, stop,
upgrade and remove through its PID file, its signals and its binary.
Everything runs on a multi-threaded tokio runtime: tasks interleave at any
shared access, futures are dropped at any await by a timeout, an abort or a
hang-up, connections are lost at any time. `PROJECT.json` lists the hazards that
follow, each at its line.

## Modules

| module | models | extends |
|---|---|---|
| `SubdomainLease` | what the control plane promises: one holder per name, one lease per connection, no reserved name | - |
| `ControlPlane` | `accept_clients`, `handle_client`, `Registry`, the driver as its handler sees it | - |
| `Proxy` | `handle_proxy_request` over the live control plane | `ControlPlane` |
| `YamuxDriver` | `spawn_yamux_driver` and `YamuxHandle::open_stream` in detail | - |
| `RateLimiter` | `RateLimiter::check` with concurrent calls | - |
| `TunnelManager` | `TunnelManager`, `TunnelsConfig` and the API calls that use them | - |
| `Caddy` | `CaddyManager`, its part in `Server::run` and in `api_tls_check`, Caddy's endpoint and the others who set it | - |
| `ClientSession` | the reconnect loop of a tunnel around `client.rs`'s session, for tunnels that claim one name, with the server's part of the handshake | - |
| `ClientApp` | `AppState`: connect, disconnect, restarts, `credentials.yaml` and `tunnels.yaml` | - |
| `ClientProcess` | the commands, the foreground process, the self-restart, PID file and binary | - |
| `ServerProofs` | theorems about `ControlPlane` and `Proxy` | `Proxy` |
| `YamuxDriverProofs`, `RateLimiterProofs`, `CaddyProofs`, `TunnelManagerProofs`, `ClientSessionProofs`, `ClientAppProofs`, `ClientProcessProofs` | theorems | the module they are about |
| `MC...` | instances for TLC | the module they instantiate |

Operators whose name begins with `Mut` are plausible mistakes in the operation
next to them: put in its place, each makes the property it is paired with in
`PROJECT.json` fail. No specification uses them.

**ControlPlane.** `pc[c]` is the place of the `handle_client` task of connection
`c`; one action per step between two accesses to shared state. `Register` is one
step because `DashMap::entry` holds the lock of the entry. `Unregister` removes
by id, as the code does. `RegisterRejected` marks the driver "aborting": `abort`
takes effect at the driver's next yield. `DriverOutOfHandles` (all handles
dropped) can only happen to such a driver, because the handler and the registry
hold a handle each until the handler returns. `DriverStalls` is the stall of
`YamuxDriver` as seen from here: such a driver does nothing any more, so its
handler and its entry stay. A write of an `AuthRes` to a peer
that is gone may fail or succeed, as with a TCP socket.

**Proxy.** `rpc[r]` is the place of the request task; `entry[r]` is the
`ClientEntry` it found, kept after the session is unregistered. `TunnelFails`
stands for the four error returns around the tunnel: they do the same to the
state. `HangUp` is the drop of the handler's future when the public connection
closes: nothing of the function runs after it. Whether the limiter passes a
request is a choice.

**YamuxDriver.** yamux is external and modelled from how the driver uses version
0.13: bytes move only when the connection is polled (`Polled`), streams are
acknowledged by the first frame the client sends on them, a stream that was
dropped still sends what it has queued and then its reset, at the next poll,
`poll_new_outbound`
waits while `MaxBacklog` (256 in yamux) are unacknowledged, and the stream limit
(512) closes the connection. One tick is 5 s, a heartbeat is due every 3 ticks
and may take 2. The driver polls in its select loop only, so in the body of a
branch no stream advances. That is also why the arm that resets
`missed_heartbeats` can be read in `MissedAfterPing` but is not reached.

`SilenceLimit` is `HEARTBEAT_TIMEOUT_SECS` in ticks, which ends the history
variable `frozenFor`; `DriverAssumption` states what the constants of `lib.rs`
satisfy: five intervals and one timeout, 85 s, fit into its 90 s.

**RateLimiter.** One key (entries of the map are independent). `now[c]` is the
instant that the call `c` has read, between `Instant::now()` and the lock of its
entry. Instants are ages in ticks, so the clock is not bounded. `Lags` bounds how
long a call may be preempted in between, by less than a second. `allowed` is
history: the ages of the last calls that were let through, as far back as
`BurstBound` looks.

**TunnelManager.** One action per access to the map of handles or to the
configuration. An edit of the configuration is one step: it is synchronous under
the write lock, save included. `Spawn` (the vacancy check and the spawn) and
`Insert` are two, because nothing is held between them. A call spawns at most
one task, so tasks are named after calls. A call that awaits may be dropped
(`CallDropped`). The ids on which two calls worked at once are collected in the
history variable `raced`. The initial states are those after `start_all`, which
runs before anybody else has the manager. A manager that was disconnected is not
connected again: `AppState::connect` makes a new one.

**ClientSession.** `at[t]` is where the task of tunnel `t` is, `link[t]` its
connection as the server sees it, `reply[t]` the `AuthRes` on its way. All tunnels
claim one name, as clients on several machines, or one client before and after a
restart, do: tunnels of other names do not meet. Of the server only the order of
its steps is kept: it answers (`Answers`), then looks the name up (`Registers`),
and a connection that was lost before or after that still gets there
(`RegistersLate`, the holder `Ghost`) and leaves later (`GhostLeaves`).
`ControlPlane` has those steps in full. `ServiceHangs` is a local service that
never answers a stream, which its own task waits for; streams that hang can fill
yamux's backlog, and then the server's driver of that connection may stall
(`DriverStalls`), which keeps the name also when the connection is lost. For a
connection that is already lost the model allows the stall without looking at
what hung on it, which is more than the server does. `GoesMute` is a server that accepts and
never answers: nothing in the client bounds that wait. The backoff counts
seconds, doubled up to `MaxBackoff` (30 in the code).

**ClientApp.** One action per access to `inner` or to a file; connect holds no
lock between its first step, the disconnect, and its last, the store. A file is
written in two steps, because `fs::write` truncates first: in between, and after
a crash, it is `Torn`, which `TunnelsConfig::load().unwrap_or_default()` takes for
an empty configuration. A handler of the tunnel API works on the manager it was
handed out, also after a disconnect took that one: add, update, start and restart
go on to start a tunnel there (`WritesTunnels`, `StartCall`, `StartsTunnel`).
`stray`, `late` and `faulty` are history: connects overlapped, managers that were
taken while such a call held them, and which files lost an update.

**ClientProcess.** `proc[d]` is where the client with PID `d` is: a place of
`cmd_foreground`, or what became of the PID. `start` spawns the client and does
not wait for it, so a child that ends is a zombie as long as its parent runs,
and `is_process_alive` counts it as alive. A PID may be given to another program
(`Reused`) at any time; `snatched` notes those that got it between a command's look
and its signal. `procfs` says whether the system has a /proc: Linux has, macOS, for
which releases are built too, has not, and there `is_our_process` takes
whoever has the PID for the client, and `current_exe()` has no suffix. `cmd[u]` is the command in terminal `u` and the PID it read, `Script`
the shell that restarts the client after an upgrade in the web UI; `exe` is the
path that shell is given, "(deleted)" where the kernel says so. `unlinked`
clients run a file that was removed, where the kernel tells. Five commands share most of their actions
because they share their code's shape: read, signal, poll, kill, remove. A crash
may hit a client at any place, the copy of an upgrade included.

**Caddy.** `main[s]` is where `Server::run` is between its calls of the admin
API, `watch[s]` the watchdog beside it. A GET and the PATCH that follows it are
two steps, and so is a PATCH that fails although it was applied. Any body of a 200
is taken for an endpoint, also the `null` that Caddy may answer for a key that is
not there (`Null`), which becomes the fallback and is put back by `unregister`.
That another application deletes the key is left out. `ask` holds the
checks of foreign domains: each keeps the read lock of the fallback while it
waits for an answer, and tokio's lock lets nobody pass a waiting writer
(`Granted`). `Die` covers crashes, SIGTERM (tokio's `ctrl_c` is SIGINT only, and
the systemd unit sends SIGTERM) and the error returns of `run`. A PATCH in
flight at the end of a process is applied then or never, not later. `wanted`
and `broken` are history: what another application set last, and whether one of
the ways in which the code loses it has occurred since.

## Runs

| run | instance | result |
|---|---|---|
| `control_plane` | 3 connections, a free and a reserved name, a good and a bad token | passes |
| `proxy` | 2 connections, 2 names, 2 requests | passes |
| `gauges_after_hangup` | as `proxy` | `ActiveConnectionsLive` violated |
| `yamux_driver` | 2 callers, channel of 1, backlog of 1, 2 streams | passes |
| `rate_limiter` | limits 0..3, second of 3 ticks, lag 0 or 2, 3 calls at once; calls symmetric | passes |
| `tunnel_manager` | 2 ids, 2 names, 3 calls; calls, ids and names symmetric | passes |
| `caddy` | 1 server, 2 other applications, 2 TLS checks, 3 replacements, 2 failed requests | passes |
| `client_session` | 2 tunnels of one name, good and bad tokens, backoff up to 4, 3 troubles | passes |
| `client_app` | 2 connects or disconnects, 2 tunnels, any number of edits, starts and restarts; calls and names symmetric | passes |
| `client_process` | 2 PIDs, 1 terminal and the restart script, with and without /proc | passes |
| `heartbeat_live_client` | 1 caller, roomy limits | `DeadMeansSilent` violated |
| `upgrade_restart` | as `client_process` | `UpgradeComesBack` violated |

Why the bounds are enough. A conflict in the registry needs two sessions of one
name, and a third shows that a rejected session does not disturb the winner's
successor. A request that outlives its session needs that session and the one
that follows it under the same name; two requests show that gauges of different
sessions do not mix. In the driver, one place in the channel with two callers
gives a full channel, a caller that waits in it and one that waits before it; a
backlog of one and two streams reach both limits of yamux. `MaxMissed` is the
real 5. `rate_limiter` uses three ticks a second so that a window may start in,
before and at the end of another second; the log of allowed calls ends where
no property looks further.
Two of the three calls of `tunnel_manager` race on a tunnel and the third
updates, stops or replaces what they left; a name can move between the two ids.
In `caddy` a first replacement meets a server that has a fallback, a second the
watchdog between its read and its PATCH, a third the shutdown; failures hit a
read and a write. Servers may be started again without bound.
In `client_session` two
tunnels meet as rivals, or as the connection before and after a restart; a
trouble is a lost connection, a failed connect, a mute server or a restart, and
three of them let a loss fall on a connection that replaced a lost one; a
backoff of 4 needs three failures in a row to be reached. In `client_app` two
calls overlap, and the manager that a restart of the process makes is the third
that meets what they left. In `client_process` a PID is
used once, so two suffice for a client and its successor, and a crash of one
leaves the stale file that the other's commands meet. One terminal and the
script are two commands at once: the properties that exempt `raced` states say
what one command after the other guarantees, and the flag is dropped when no
client runs any more. Both PIDs being used up, and every tunnel stopped for
good, are ends of the instance and not of the program: `MCNext` adds a stutter
there, and any other deadlock is an error.

What the violations show:

- *heartbeat_live_client*: no client is ever answered to the driver's
  satisfaction. A client that supports heartbeats loses its session after
  five timeouts, about 85 s after it connected, and reconnects.
- *gauges_after_hangup*: the dashboard's active connections count a request whose
  visitor hung up during the relay for ever (`src/README.md:489` calls the metrics
  live). The tunnel's own gauge leaks with it.
- *upgrade_restart*: the restart command is built from `current_exe()`, which for
  a file that was replaced before ends in " (deleted)"; the shell rejects the
  parenthesis and the client stays away. `RestartComesBack` is what does hold:
  once the script runs, the client comes back.

Seen while modelling and not run, because the step itself shows it: `uninstall`
returns `Ok(())` for "no" as for "done", and `cmd_uninstall` goes on to stop the
client and to remove `~/.zo-tunnel` (`Declines`; `main.rs:469` says the client is
only stopped after the user confirms).

What the passing properties except, each an interleaving or a failure that the
code does not handle:

- `LossEndsDriverUnlessStalled`, `OpenReturnsUnlessStalled`: with 256 streams
  unacknowledged (a local service that accepts and does not answer is enough),
  the next request stops the driver for good; the session stays registered
  after its client is gone. `LostClientsFreeTheirIdUnlessStalled`,
  `LostTunnelSettlesRequestsUnlessStalled` and `NameGetsServedUnlessStalled` except
  the same stall from the outside: the id stays taken, requests wait for ever, and
  every reconnect under the name is refused.
- `GaugesExact`: a hang-up during a relay leaves both gauges raised for ever, so
  the property speaks of gauges no hang-up has touched; `gauges_after_hangup` is
  the rest.
- `NoOrphanUnlessRaced`, `RunsWhatIsConfigured`, `DisconnectStopsAll`:
  `contains_key`, spawn and `insert` are not one step. Two calls on one tunnel
  leave a task that keeps the name and that nobody can stop, or one that serves
  an old entry; `raced` holds the tunnels this can have happened to.
- `NoStrayManager`, `RestartResumes`: two connects at once leave a manager that
  runs and is not stored. `NoStrayManager` also excepts a manager that was taken
  while a call of the tunnel API was at work on it (`late`): the call starts its
  tunnel after `stop_all`, and nobody can stop it.
- `ForeignProcessesUntouched`: without /proc `stop` and `uninstall` signal whoever
  has the PID of the file, and with it one who got the PID in the instant between
  the check and the signal. `RestartComesBack` holds without /proc, too, at the
  price of a foreign process that has the PID by then.
- `NoTunnelForgotten`: a save that is cut short leaves an empty configuration, and
  one that overlaps a reconnect is lost by the manager that was loaded before it.
- `FileNamesTheClient`: two commands at once can leave a client the file does not
  name.
- `BinaryLostOnlyInTheCopy`: the old binary is removed before the new one is
  copied, and an end in between leaves none.
- `NameGetsServedUnlessStalled`: a server that accepts and never answers holds a
  tunnel in Connecting.
- `ChainKept`: the comment above it names the ways, among them a process that
  dies as Caddy's endpoint and the watchdog's PATCH that meets `unregister`. Two
  servers on one Caddy become each other's fallback, so one is assumed.
- `WatchdogReclaims`, `ShutdownEnds`: a fallback that does not end its response
  body keeps the read lock, which both wait for.

The limiter's comment calls its window sliding; it is fixed, and `BurstBound` is
what the code does give: at most `2 * limit - 1` calls in any second, `3 * limit - 1`
when calls may be late. TLC finds both bounds reached.

## Fairness

`ControlFairness`: every ready step of a handler is taken (the runtime schedules
ready tasks; the 10 s timeout makes a silent handshake ready; socket writes end),
a lost connection reaches a driver that runs (`configure_tcp_keepalive`), an abort
takes effect. Nothing is assumed of clients, nor that a driver in good health ends,
and nothing of a driver that has stalled in `poll_new_outbound`: it is enabled for no
step (`DriverStalls`), and the properties that need it say `UnlessStalled`.
`ProxyFairness` adds the steps between awaits and the error of a dead driver;
nothing makes a tunnel client answer. `RateLimiter`, `TunnelManager` and `ClientApp`
are checked for safety only and state no fairness. `CaddyFairness` lets the steps of
a server and the timeouts of its requests happen; nobody has to start or stop a
server, and a stalled body need not end, which is the exception both liveness
properties name. In `YamuxDriver` the loop, the callers'
pending sends and the clock are fair, the client is not.
`SessionFairness`: the task of a tunnel runs and its sleeps end, and a server that
is not mute answers, registers and, unless its driver has stalled, notices lost
connections, which are the liveness properties of `ControlPlane`; nothing makes a
connect succeed, a link stay up or a local service answer.
`ProcessFairness`: commands, clients and the script go on; a graceful shutdown
need not end (a browser may keep its connection open), nobody has to run a
command, and the user need not answer a prompt with yes or no in particular.

## Proofs

For any set of connections, ids, tokens and requests (`tlapm` checks every step):

- `TypeCorrect`, `RegistryExact`, `RoutedAreAdmitted`,
  `EntriesLeaveWithTheirDriver`. `RegistryMatchesSessions` is not inductive
  alone: a session that is past the handshake must have a claimed id that its
  token admitted, and one that awaits or has joined a driver must have started
  it. `ControlInv` adds these per-place facts (`SessionShape`), and then each step
  keeps the registry exact (`StepRegistry`): `Register` because the entry was vacant,
  `Unregister` because of exactness itself.
- `LeaseImplemented`: initial states map to initial states, `Register` to
  `Grant`, the steps that close a session to `End`, all others to stutters. With
  the proxy beside them the sessions still do (`LeaseImplementedWithProxy`).
- `ProxyTypeCorrect`, `GaugesAreExact`, `RequestsStayInTheirTunnel`. The gauges
  are sets counted: each action moves one request into or out of the set of
  counted requests, the cardinality of that set moves with it, and a hang-up
  leaves its request in that set (`GaugesCounted`, which is inductive where
  `GaugesExact`, which speaks of the live ones only, is not). `ProxyInv`
  adds that a request past its lookup holds an entry, and that the entry's
  connection was admitted under the target; the control plane never changes a
  claimed id after the handshake. The invariant is closed under control steps by
  the lemmas of the control plane. Both parts are in `ServerProofs`.
- `CaddyTypeCorrect`, for any number of servers, and `ChainIsKept`, for one
  (`OneServer`) and any applications, replacements, faults and checks.
  `ChainKept` alone does not survive a PATCH: `Bookkeeping` adds that a server
  about to send one remembers what it read, that while the watchdog has seen
  another endpoint nobody else sets ours, and that fallback and watchdog go with
  the manager. The ends of a process share one lemma (`ExitKeepsChain`), and the
  two places that set our endpoint another (`PatchKeepsChain`).
- `YamuxDriverProofs`, for any callers, limits and intervals: types, and that a
  frozen client is dropped in time (`FrozenIsDropped`). The bound holds because of
  a countdown: `Left` is how many ticks the loop takes at most until enough
  heartbeats are missed, every tick takes one off it, and `frozenFor + Left` never
  exceeds `SilenceLimit` (`Countdown`). It only counts down because no heartbeat is
  ever answered in time, which is a theorem of its own: each that ends counts as
  missed (`EveryHeartbeatIsMissed`; its frames leave when the connection is polled
  again, after the verdict). And except in the stall, which no step of anybody ends (`StallIsForEver`, the reason why the
  properties except it).
- `RateLimiterProofs`, for any limits, lags and calls: types, `BurstsAreBounded` and
  `QuietKeysAreServed`. What is counted lies in the log of allowed calls, so no sum
  is needed: the call that opened the window is the `count`-th last
  (`OpenerInWindow`), and calls before it are as much older as windows are apart,
  for three windows back (`WindowsApart`). A burst of a whole third window would
  need a call more than two seconds, less a lag, before the last.
- `TunnelManagerProofs`, for any calls, ids and names: all five properties of the
  run. They need each other: that a live task has the entry of the
  configuration rests on its being the one in the map, since only that one is
  stopped before an edit. `Inv` adds what each place of a call implies
  (`CallShape`, `Progress`: after the stop of an update its tunnel has no task),
  which task belongs to which call (`TaskShape`), that two calls on a tunnel
  outside `raced` cannot be (`AloneUnlessRaced`), and what a disconnect has
  done so far (`AfterDisconnect`). `StoppingLeavesNoOrphan` serves every
  operation that begins with a stop.
- `ClientAppProofs`, for any calls and names: types, `NoStrayManager`,
  `RestartResumes` and `NoTunnelForgotten`. `RestartResumes` speaks of moments
  without calls; `CredsKnown` says what the file holds at each place of a
  connect, and `OneByOne` that without `stray` there is one connect at a time.
  `TunnelsKnown` does the same for `tunnels.yaml` and a configuration that was
  loaded and is not stored yet, and `AtWorkKnown` says which managers a call that
  edits or starts can be at work on: the stored one, or one noted in `late`.
- `ClientProcessProofs`, for any PIDs and terminals: types,
  `ForeignProcessesUntouched`, `BinaryLostOnlyInTheCopy` and
  `TheFileNamesTheClient`. `AimShape` says whom a command that is about to signal
  aims at where there is a /proc: never another program, unless it got the PID after
  `is_our_process` had looked. For the PID file the invariant follows the
  keeper, the one client that is past its decision over the file. As long as
  commands come one after the other (`InOrder`), at most one command is active and
  one client has yet to decide (`OneAtATime`); the keeper is in the file or being written there (`KeeperNamed`); who claims the file has found
  no keeper (`ClaimsAlone`); a command works on the keeper, and removes the file
  or spawns a client only where there is none (`AimAtKeeper`). `Known` and
  `UpgraderShape` say that a PID that was never given out is in no file or
  command, and that an upgrade ends with whoever runs it.
- `ClientSessionProofs`, for any tunnels and bounds: types, and two invariants that
  the prover reaches beyond the run's temporal ones: the name is routed only to
  a tunnel with a session of its own or to a connection nobody is behind, and
  Connected is shown only for an accepted token. `LinkShape` ties the place of
  the task to the connection the server sees.

Assumptions: `ConstantsAssumption`, `CaddyAssumption`, `ManagerAssumption`,
`AppAssumption`, `SessionAssumption` and `ProcessAssumption` (sentinels outside
their sets, bounds that are numbers), `RequestsFinite`, `DriverAssumption` (the
missed heartbeats fit into the silence that is allowed, as the constants of
`lib.rs` do) and `LimiterAssumption` (a call is late by less than a second).

Every invariant and every action property that a passing run checks is proved, and
so is the refinement. Only model-checked are the liveness properties: the prover
has neither fairness nor ENABLED. The three violations are TLC's counterexamples.
Correspondence of `SessionFairness` with `ControlPlane` is by reading.

## Not modelled

- Server configuration and command line (`config.rs` and `main.rs` of the server),
  and the systemd functions of `self_update.rs`: parsing and calls of other
  programs, no state that steps of anything else depend on.
- Dashboard (`dashboard.rs`) but for `/api/tls-check`, which is in `Caddy`: its
  endpoints read; the login table is a map whose entries one guard drops.
- The frame codec of `lib.rs`: a pure function over bytes. Here a bad frame is a
  read that fails. Messages that nothing sends are left out.
- Version comparison, checksums and downloads of `self_update.rs`: every step that
  can fail fails in `ClientProcess`, whatever the reason.
- A write of the PID file that fails, and several users on one machine.
- Byte contents, HTTP bodies, TLS, logging, browser code, scripts.

`PROJECT.json` names the reason for each component. What could be added is the
agreement of the composed client and server in one state space: `ClientSession`
keeps the order of the server's steps and takes their fairness from
`ControlPlane`, which is a correspondence by reading and not a checked
refinement.

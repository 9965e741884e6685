# Verification of Solon

TLA+ models of Solon, checked with TLC on small instances and proved with
TLAPS where the argument does not depend on the instance. Solon is a Docker
engine for Windows: a Windows service owns a Linux virtual machine, an agent is
PID 1 of that machine, and the two talk over Hyper-V sockets. Paths below are
relative to `src/crates/`.

## The system and its modules

| Part | Source | Module | Root | Proofs |
|---|---|---|---|---|
| Wake on demand | `solon-service/src/sleep.rs` | `Sleeper` | `Sleepers` | `SleeperProofs` |
| Engine lifecycle | `solon-service/src/engine.rs`, `settings.rs` | `Engine`, implements `DataDisk` | `Machine` | `EngineProofs` |
| Shared drives, `state.json` | `engine.rs`, `settings.rs` | `StateFile` | `Host` | `StateFileProofs` |
| PID 1: dockerd, the reaper, shutdown | `solon-agent/src/system.rs`, `main.rs` | `Pid1` | `Machine` | `Pid1Proofs` |
| Event hub, published ports | `solon-agent/src/events.rs`, `ports.rs`, `solon-service/src/ports.rs`, `engine.rs` | `Ports` | `Notices`, `Traffic` | `NoticeProofs` |
| One relayed connection | `ports.rs`, `docker_proxy.rs`, `solon-agent/src/forward.rs`, `solon-hvsock/src/relay.rs` | `Relay` | `Streams`, `Traffic` | `StreamProofs` |
| Requests of the Docker proxy | `docker_proxy.rs` | `DockerProxy` | `Traffic` | |
| Instances of the Docker pipe | `docker_pipe.rs` | `DockerPipe` | `Streams`, `Traffic` | `StreamProofs` |
| Control pipe | `ipc.rs`, `engine.rs`, `solon-client/src/control.rs` | `Control` | `Notices`, `Traffic` | `NoticeProofs` |
| Local names, hosts file, authority | `domains.rs`, `engine.rs` | `Domains` | `Notices`, `Traffic` | `NoticeProofs` |
| Exec and shell sessions | `solon-agent/src/execstream.rs`, `shell.rs` | `Session` | `Answers`, `Traffic` | `AnswerProofs` |
| DNS relay | `solon-agent/src/dns.rs` | `Dns` | `Pools`, `Traffic` | `PoolProofs` |
| Connections of the file system | `solonfs.rs`, `fileserver.rs` | `FsPool` | `Pools`, `Traffic` | `PoolProofs` |
| Calls of the agent | `agent_client.rs`, `solon-agent/src/rpc.rs` | `AgentRpc` | `Answers`, `Traffic` | `AnswerProofs` |
| Shared folders | `solonfs.rs`, `fileserver.rs`, `solon-core/src/fs.rs` | `SolonFs`, `FsRenames` | `Host` | |
| Trace | `trace.rs` of agent and service, `ipc.rs` | `Trace` | `Host` | |
| Probes of the trace | `solon-trace-ebpf/src/main.rs`, `solon-agent/src/trace.rs` | `Probe` | `Host` | |
| HTTP proxy of the local domains | `domains.rs` | `HttpProxy` | `Host` | |
| Network of the machine | `network.rs` | `Network` | `Host` | |
| Backup, restore, clone, import | `solon-client/src/backup.rs`, `volumes.rs`, `import.rs` | `Volumes` | `Host` | |
| Update | `solon-client/src/update.rs` | `Update` | `Host` | |

*How they meet.* The service creates the machine, records it in `state.json`,
connects to the agent and waits for dockerd on the event stream; from then on
an event loop and an exit watcher keep the announced state up to date. Port
relays and the domains proxy ask the sleeper before each connection; docker
events reach the sleeper through the agent's hub and the engine's event loop.
The Docker proxy shares a drive before a container that needs it is created.

*Roots and layers.* `Sleepers`, `Machine`, `Traffic` and `Host` each join parts
that share no state: `part` says which of them runs, the others stay in an
initial state, and one run checks all of them. `Sleepers` has the sleeper twice,
with no fault around it and with all of them; `Machine` extends `Engine` and
`Pid1`; `Host` extends `StateFile`. The parts of `Traffic` that theorems are about
are joined one level below it: it extends `Notices` (`Ports`, `Control`,
`Domains`), `Streams` (`Relay`, `DockerPipe`), `Answers` (`Session`, `AgentRpc`)
and `Pools` (`Dns`, `FsPool`). A layer has a specification of its own
(`NoticesSpec`, `StreamsSpec`, `AnswersSpec`, `PoolsSpec`), in which its parts
interleave freely. A step of a root is, by its definition, a step of a layer or
leaves the layer alone, so that what holds of the layer holds of the root; the
properties of the layers are the ones that the runs of the roots check. That a
step of a layer is a step of one part and leaves the others alone is the lemma
`...Parts` of each proof module.

*What makes it hard.* The service can be killed while its machine lives on, and
finds it again by `state.json`; the host can lose power at any step; a machine,
dockerd or the agent may die or fall silent during any wait; tasks, blocking
threads, connections and docker events interleave between awaits; several tasks
rewrite one file; answers come late, on connections and ports that serve again.
`PROJECT.json` lists the hazards line by line with the properties that cover
them.

*Mutants.* A definition whose comment calls it a *mutant* is a plausible bug in
the action that follows; no specification uses it. For every property of a
passing run, one of them, put in place of its action, makes TLC report a
violation (`PROJECT.json` pairs them).

*History variables.* The modules let everything go wrong at any moment and note
what did in variables that no step reads (`mishaps`, `missed`, `loss`,
`crossed`, `stolen`, `hasty`, `mixed`, `harmed`, `trouble`, ...). A property
that needs some fault to be absent says so itself, so that one run covers all
faults and the theorems need no assumption about them. A property whose name
ends in `Else` is what a comment of the code promises, with the exceptions that
the code really has. Where the exception contradicts the comment, the property
without it is a run of its own that TLC refutes, or the disagreement is listed
under *Findings*.

## Runs

| Run | Module | Shows |
|---|---|---|
| `sleepers` | `Sleepers` | the list of sleeping containers is exact, wake-ups come first, open connections keep awake, idle containers sleep; with faults, what is left of it, and nobody waits for ever |
| `machine` | `Machine` | `Engine`: one machine, on record, nothing left behind, the data disk contract, operations end, announcements come true. `Pid1`: no status stolen, no stale announcement, quiet power-off, no zombie stays |
| `traffic` | `Traffic` | listeners follow the containers; streams whole; requests forwarded; state shown; names and the user's lines in the hosts file; exit code last, calls get their own answers; places and connections conserved; ends are passed on and nobody waits for ever |
| `host` | `Host` | lists resumed once, drives remembered, ports exact; facts, exchanges, folders, network, volumes, installer |
| `sleeper_race`, `engine_early`, `statefile_ports`, `domains_lines`, `ports_early`, `relay_ack`, `update_twice`, `folders_rename` | | violations, see *Findings* |

The bounds of the runs are constants named `Max...`; each one only ends a run
(it appears in a guard), and the theorems hold for all of its values.

## Wake on demand: `Sleeper`

A container that was reached through Solon (a published port or a local domain)
and stays idle is paused; the next connection unpauses it before it is relayed.

*State.* `known`, `tracked`, `conns`, `idle` and `sleeping` are the tables of
`State` (the `Instant` of `Activity.last` becomes the set `idle` of containers
whose delay has run out). `agent`, `never` and `enabled` are the agent handle
and the settings. `connPc`/`connTo` say where each connection's task is,
`loopPc`/`cur`/`todo` where the pause loop is. The per-container lock is not a
variable: `Locked(c)` reads it off the program counters. `docker` and `events`
are dockerd's state and the docker events that have not reached the service.

*Steps.* A step is what happens between two awaits: one critical section of
`state`, or one docker command in the guest. `on_connection` is `OnConnection`,
`TakeOpLock`, `Unpause`, `ForgetSleeping`; the drop of a `ConnGuard` is `Close`
and, in the task it spawns, `DropGuard`; the loop is `LoopCandidates` to
`LoopInsert`. A docker command may fail for a reason of its own (agent gone,
timeout), with or without its effect.

*Time.* `Tick` says that a container's idle delay has run out. The delay is at
least 60 s (`sleep_settings`), a command answers within 40 s and docker events
arrive at once, so the delay does not run out in the middle of an operation on
the container or with docker events pending.

*Runs.* `sleepers` has both worlds. Without interference (two containers, two
connections) it checks the exactness of `sleeping` and that wake-ups come first,
that an open connection keeps its container awake, and that a container left
alone falls asleep. With every fault switch on (one of each) it checks that a
pause is forgotten only in the ways that `PauseLostOnlyTo` names
(`PausesKeptElse`), and that no connection waits for ever (`ConnectionsServed`).
`sleeper_race` shows a connection that is relayed to a paused container: it is
counted after the loop computed `late` and before the loop inserts the container
in `sleeping`, so it finds nothing to wake.

*Limits.* With user pauses, crashes or failing commands, `sleeping` does not
describe dockerd any more: the user may unpause a container and pause it again
before the service hears of it, a crash forgets the list while the pauses stay,
a failed undo leaves a container paused and unlisted; and when a container dies
and returns, the guard of an old connection counts down in the new entry, so that
`IdleDecisionSound` needs that none dies. The exactness properties are checked, and proved, without those faults; `PauseLostOnlyTo` says what is left
of them with the faults.

*Bounds.* Two connections to one container are what every race here needs; a
second container shows that nothing leaks from one to the other. One outside
failure and two pending docker events are enough for each fault path.

*Fairness.* The runtime runs every ready task, a docker command answers or
times out, tokio's mutex is first come first served (strong fairness for taking
it), and time passes. Nothing is assumed of users, peers or crashes.

*Proved* (`SleeperProofs`), for any containers and connections:

- `Typing`, under every fault, and with it the lemma `Exclusion`: `Locked`, which
  is read off the program counters, excludes as the lock does.
- `IdleDecision` (`IdleDecisionSound`), while no container dies and the service
  lives. The loop reads a counter, the property speaks of connections, so the
  invariant `CountInv` says that `conns[c]` is the number of connections whose
  guard counts for `c`; the cardinality lemmas are `CountsOnConnection` and
  `CountsDropGuard`.
- `SleepingList` (`SleepingIsAccurate`), `PausedIsListed` (`PauseRemembered`),
  `WakesPaused` (`WakerFindsPaused`) and `WokenFirst` (`WokenBeforeRelayed`), under
  `Quiet`: no outside pause, stop,
  failure or crash. `QuietInv` follows the loop and the wakers through their
  steps (what they know of `docker[c]` while they hold the lock) and needs
  `QuietQueue`: a wake-up still to be announced means that the container is not
  idle, so the loop cannot pause it before the late event takes it off the list.

## The engine: `Engine` and `DataDisk`

*State.* `vm` is the life of each machine ever created (HCS's view), `dockerUp`
and `stream` what happens inside the current one and what its agent has sent;
`disk` the part of `state.json` about the machine (`vm_id`, `clean_shutdown`);
`running`, `stopping`, `state` the service's fields. `pc` is the step of the one
start or stop that holds the operation lock and `cur` its machine; `evTask` and
`watchers` are the event loop and the exit watchers, which may outlive a stop.

*Steps.* start is `StartBegin`, the reattachment (`Reattach`, `NoReattach`),
`CleanOrphans`, `CreateMachine`, `SaveState`, `Boot`, `ReachAgent`, the wait for
dockerd (`AttachEvent`, `AttachTimeout`), `SpawnTasks`, `Publish`, `SetReady`;
an error at any step is `ProvisionFails` and then the cleanup of `StartFails`.
stop is `StopBegin`, `StopIdle` or `StopMark`, `AskGuest`, `KillMachine`,
`StopSave`, `StopEnd`. `HandleEvent`, `WatcherSeesExit` and `WatcherGivesUp` are
the tasks. Outside: machines and dockerd die, dockerd comes (back) up, the
service is killed, the power is cut.

*Contract.* `DataDisk` is the promise: one machine at most has the disk open,
and the clean mark is off before it is opened and for as long as it stays open.
`DataDiskContract` maps `writers` to the machines that are on (to none once a
terminate has failed, after which nothing is promised).

*Runs.* `machine` checks one machine at a time, that the running one is on
record, that no finished operation leaves one behind, that `Ready` is not said
of a dead machine, the refinement, that operations end and that deaths, and
dockerd's comings and goings, end up in the announced state. `engine_early`: a
machine that dies after the tasks are spawned and before start announces it is
`Ready` for ever.

*Bounds.* Three boots: one to be orphaned, one to replace it, one more to meet
what the second left. Two events in the stream: one to be read, one racing it.

*Fairness.* Every wait of start and stop has a deadline and the runtime
schedules every ready task. dockerd, users and faults are free.

*Proved* (`EngineProofs`), for any number of boots and under every fault:
`Typing`, `SingleMachine`, `Recorded`, `DataDiskRefinement`, `NoOrphan`,
`ReadyAlive`.
`OneMachine` is not inductive: `OwnerInv` adds what each step of start and stop
knows. Before `create` nothing is alive (`Creation`); from then on the operation's
machine is the only one alive, and from `boot` on the one on record (`Ownership`);
numbers above `boots` are unused (`Numbered`), so the next machine is a new one.
The refinement needs `CleanInv` too: the clean mark is on disk only while no
machine is on. `ReadyAlive` needs where a death is: `Living` says that the end of
a dead machine's stream is on its way to the event loop or announced, and
`Announcing` how the announced state follows start and stop.

## Shared drives and `state.json`: `StateFile`

*State.* `file` is what the three writers rewrite (drives, list to resume);
`share`, `resume` and `stop` hold their private copies between load and save.
`ports` is the service's table of shares and `vmPorts` the machine's own, which
outlives the service. Port 9100 + i is i + 1 here. The list noted by the stop
that ends the n-th start is the number n. `Start` is atomic: `Engine` has its
steps.

*Runs.* `host`: a list is resumed at most once and shared drives are
remembered, unless a save failed or two load-change-save sequences overlapped;
shares have ports of their own and the table is the machine's, unless the
service was killed beside its machine, or HCS kept a share that it was told to
withdraw or whose addition it reported as failed. `statefile_ports` shows what a
kept share leads to: the error of `remove_share` is dropped, so its port goes to
the next drive.

*Bounds.* Two drives: one that has a port and one that is given the next, in the
table and in the machine; three starts: one to note a list, one to use it, one to
use it again.

*Assumed.* A resume task, which sleeps two seconds, is over before the stop and
start that follow it are; a save is atomic.

*Proved* (`StateFileProofs`), for any finite set of drives and any number of
starts: `ResumedOnce`, `DrivesRemembered`, `TablesAgree`. Each says "unless a save
was lost" with `FileKept`. `CopiesCurrent`: a task between its load and its save
has the file. `ListsUsed`: the list in the file is of an earlier start, and one
that was used is not there any more. `Mounting`: while a drive is mounted, it is
the one that the tables of the service and of the machine differ in. The first
free port exists because a finite set of numbers has a bound (a least-number
argument stands in for induction), and `boot_shares`, a recursive function, is
only used through what it keeps.

## PID 1 of the machine: `Pid1`

*State.* `proc` is the table of processes, one of each name: containerd,
dockerd, a command, an orphan. `tracked` is the set of that name; `sup`, `job`,
`reaper`, `boot` and `down` are the steps of the supervisor, of a thread that
runs commands, of the reaper, of the preparation of the disk and of the
shutdown. `ready` is the last of EngineReady and EngineDown that was broadcast.

*Properties.* `TrackedNotStolen`: the reaper never takes the status of a child
whose thread is there to read it. It does take those of commands run with
`output()`, which are never tracked, of a child between its fork and the
insertion of its pid, and of one whose thread is elsewhere for more than five
seconds; `stolen` keeps the worst of these. `ReadyIsWatched`: outside its watch
the supervisor has broadcast EngineDown, unless a status was taken from a thread
that was elsewhere. `QuietPowerOff`: the disk is unmounted with dockerd silent,
unless dockerd still served after ten seconds, or the supervisor had looked at
`shutting_down` already and dockerd did not serve yet when the flag was set
(`hasty`). The look (`CheckShutdown`) and the forks that follow it are steps of
their own, so the window between them is in the model; a shutdown that falls
into it is a finding. `Pid1Progress`: zombies go, and a dockerd that answers is
announced.

*Bound.* One command beside the supervisor's two children: the reaper looks at
one zombie at a time. *Fairness.* The reaper, the watch and the thread of the
command are loops of their own threads; none is assumed of processes.

*Proved*, for any number of commands: `NothingStolen`, `AnnouncementsHold`,
`PoweredOffQuietly`. The reaper decides in one step and takes in another, so
`ReaperHolds` says that what it is after is still a zombie, and nobody's;
`WaitedIsTracked` that a waited child stays tracked until its own thread has
read it; `WatchedIsThere` that the status of an announced dockerd is there to be
read; `Served` follows the shutdown against the starts.

## Between host and machine: `Traffic`

*`Ports`.* dockerd's events wake the agent's watcher, which lists the
containers again and broadcasts the list; a new subscriber is sent a snapshot
and registered in two steps; attach keeps the first list, the event loop the
later ones; `apply` replaces listeners, whose sockets close later than their
tasks are aborted. `ListenersCurrent` = types, `AnnouncedRelayedLater` (what
the snapshot publishes has a listener, unless the last list came before start
was over: `unrelayed`) and `RelayTargetsCurrent` (an open listener leads to the
address of the last list, with the same exception). `ports_early` is the first
without the exception, as the comment of `ports.rs` has it. `RelaysFollow`: once
docker is quiet, the listeners are those of its containers, unless a change went
unseen (`docker ps` failed, a broadcast fell between the snapshot of a subscriber
and its registration, a container was renamed) or a port was given up
(`missed`).

*`Relay`.* One connection of each kind from a client to a server, each way a
queue of numbered messages with an end. The agent answers the header of a port;
for docker it connects to dockerd's socket, or closes without a word.
`StreamsWhole` says that each side hears a prefix of what the other sent and that
the end comes after everything, except for what is lost: bytes that came along
with the acknowledgement of a port (`loss = "ack"`; `relay_ack` is the property
without this exception), and what a failed write leaves unread (`"cut"`).
`ConnectionsEnd` says that ends reach the other side, except that of dockerd for
a docker client that has not ended itself: the proxy only flushes.

*`DockerPipe`.* `AnswerNotCut`: an instance is disconnected only when its client
has read everything, because the thread that writes flushes first.

*`DockerProxy`.* A stream of characters cut at any place: `ProxyForwards` says
that dockerd gets the requests in order, nothing added and nothing held back,
with the mounts translated in a create whose length is known and at most
`MAX_REWRITE_BODY`, and each drive shared, or its `ensure_share` failed, before
it is named. Creates in chunks or with a larger body go on as they are; a head
that `parse_head` does not know, or that is longer than `MAX_HEAD`, turns the
connection into a raw copy. A client that pipelines after chunks (`Pipelined`)
is the exception that the code has.

*`Control`.* `ShowsStateElse`: a subscriber that has read everything shows the
state, unless two setters crossed between the change and the announcement; a
receiver that lags loses old states and not the last.

*`Domains`.* Blocking threads rewrite the hosts file and outlive the task that
awaits them; the authority is made in three steps that a crash may cut.
`DomainsSound`: names follow the table and the user's lines stay, unless a
thread outlived its task (`mixed`) or a crash or an edit met a write (`harmed`).

*Bounds.* One host port with two addresses and three changes replace a container
behind a port twice; `MaxEvents` caps changes and lives together. Two messages
each way tell order and loss. Two instances and two setters race, one piece of
an answer and its end tell a cut answer from a whole one, and a channel of one
lags at once. Two threads, two starts and one change overlap one rewrite of the
hosts file with another. `DockerProxy` has no constants: its requests are a
fixed list of kinds, a body of up to eight characters stands for 8 MiB and a head
of up to two for 1 MiB, and the run covers every way to cut them.

*Fairness.* Every task, thread and accept loop of the service and of the agent
is scheduled; a listener that waits for its port tries again. Nothing is
assumed of clients, servers, docker or the engine.

*Proved*, for all values of the constants: of `NoticesSpec` `ListenersFollow`,
`SubscriberShows` and `NamesOnHost`, of `StreamsSpec` `StreamsArriveWhole`, each
with the exceptions named above.

- `PortsInv`: from the moment the event loop runs, the listeners are those of
  the snapshot (`Follows`), unless the last list came before start was over; it
  needs that a socket belongs to an entry of `active`. Its core is a lemma about
  `apply`, which makes the listeners those of the list whatever they were.
- `RelayInv` cuts the stream at each hop: `Carries(q, a, b)` says that a queue
  holds the messages after `a` up to `b`. `Upward(a, b)` says that the server has
  those up to `a`, the socket those up to `b`, the relay the rest; `Downward` the
  same for the way back, behind the acknowledgement (`Acknowledged`). `Phases`
  relates the steps of the two ends.
- `PipeInv`: `unread` is 0 from the flush on, and only the thread that flushed
  disconnects.
- `ControlInv`: the state of now was sent, or a setter is about to send it
  (`Announcing`), and what a subscriber reads last is the newest that was sent
  (`Newest`); the lag of the channel drops from the other end.
- `HostsInv` says, while nothing went wrong, that one thread works at a time, and
  that it has the user's lines while the file has not; `AuthorityInv` that the
  certificate appears after the key is whole and the trust after both.

### Answers and pools, also in `Traffic`

*`Session`.* A command or a terminal for a client: the program, a heir that
keeps its output open, two pumps, the watcher of the hang-up, and pids and
descriptors that serve again once they are free. `ExitComesLast`, a part of
`AnswersInOrder`: the exit code is the last frame, after all that was written.
That a signal may reach another process's pid is in the model (`strays`) and no
property: nothing excludes it.

*`Dns`.* Threads ask the upstream servers in turn; an answer may come late to a
port that another question has got. `PlacesConserved`: IN_FLIGHT counts threads
at work; `AnswersQuestion`: what is passed on carries the identifier of the
question; `TableBounded`: the table of names keeps its bound, one entry per
address.

*`FsPool`.* The service opens a fixed number of connections per machine, the
agent takes one for each request. `ConnectionsConserved`: the living ones in the
pool and in use are those that a loop of the service serves; `DeadBelowLive`:
those of a dead service lie below, so that a call takes one only when every
living one is in use.

*`AgentRpc`.* Calls of several tasks over one connection, whose answers arrive in
two pieces; the rest of `AnswersInOrder` is about them. `AnswersMatch`: a call
returns its own answer; `FailsOnlyLate`: with no timeout, no call fails;
`LateAnswersHarmlessElse`: nor because of another one's timeout, unless it cut a
line or numbers were sent out of order.

*Bounds.* Two threads and one port make a late answer reach a later question; a
table of two is full at once, and three addresses with one per answer
(`MaxIps`) fill it and drain it; two connections, two mounts and three lives have
a dead connection beside living ones; two callers and three calls have one late
answer, one call that reads it and one that waits for the lock.

*Fairness.* Threads, pumps and the watcher are scheduled, a wait with a deadline
ends. Nothing is assumed of the host, of programs or of upstream servers.

*Proved*, for any threads, servers, mounts, connections, lives, callers and
writes: of `AnswersSpec` `AnswersKeepOrder`, of `PoolsSpec` `PoolsHold`.

- `SessExit`: what a stream wrote is in the pipe or was sent, frame by frame.
  `SessPlaces` says what is over before `handle` writes the exit code.
- `DnsInv` is the property with its types, in which a thread that learns has an
  answer to its own question. `KeptRoom` says what `remember` leaves: room for an
  entry and none of the address.
- `FsTypes` adds that no connection is of a later life and that a machine that
  is gone took its pool along; `ConservedStep` counts the three sets.
- `CallsInv`: `Calm` says that, while nothing was cut or sent out of order, every
  number on its way is at most the last one sent and pieces alternate
  (`Halves`). `Punctual` says where the one answer is while nothing has timed out
  (`Alone`, `Silent`).

*Assumptions.* Threads and mounts are finite; MAX_NAMES is at least two, because
`remember` drains half of a full table (it is 4096 in the code).

## On the host: `Host`

*`Trace`.* A fact passes from the agent's hub to the collector, to the hub of the
service, which keeps a history, and to a subscriber. *`Probe`.* The eBPF program
notes who opened a socket, the kernel gives its address again; the agent names
the two ends. `FactsKept`: a subscriber misses nothing between the history and
the stream, and knows the status of the probes unless it changed between the
greeting of the service and its registration (`raced`); a fact is put down to
the container that opened the connection, unless a socket was freed without a
transition that the probe sees (`vanished`). What a subscriber saw is a set: a
fact told twice is not told apart.

*`HttpProxy`.* Two tasks relay requests and responses and pair them:
`ExchangesPaired`, over pipelining, interim and bodiless responses and early
answers; a body is never read as a head, unless an upgrade was refused.

*`SolonFs`.* The inode table, the caches, one file that moves between two
folders, and a second name that Windows takes for the same. `MountSound`: the
tables agree; an open file stays the one that was opened, unless a folder was
renamed around it or it was removed; the caches are current while only the mount
writes, nothing fails half way and no answer is lost. `FilesSurvive`: a file is
destroyed only by an unlink of its name or by a rename onto it, be it that the
rename fails. *`FsRenames`* adds a history of what renames destroyed:
`folders_rename` refutes that the target of a rename is replaced or left alone.

*`Network`.* One HNS network, made anew at each start: `NetworkSound` says that
what is returned is there, with its endpoint alone on it, and that no network
that could be listed (`blind`) and was there at the look (`later`) is written
with its prefix. A wider network that holds the range is not seen by the code.
*`Volumes`.* Backup, restore, clone and import, step by step: `VolumesSound`,
nothing is written over, unless a volume appeared behind the look or the list
failed (`unseen`), and nothing is counted that was not done, unless the wait for
an export failed (`cut`). *`Update`.* `InstallerWholeElse`: what bears the
installer's name and what is launched is the whole installer, unless two
downloads overlap; `update_twice` is the property without the exception.

*Bounds.* A history of one, a channel of one, two facts and one life: a fact
leaves the history while a subscriber joins, and the next one makes it lag. Two
sockets, one address, two containers, two connections: both the socket and the
address serve again. Three requests pipeline around an upgrade. Five inodes: the
two folders, the root and two for a file that is looked up again. `Network`, `Volumes` and `Update` have no
constants: their ranges, names and chunks are fixed, and TLC's search of them is
complete.

## Findings

| Run | What it shows |
|---|---|
| `sleeper_race` | a connection counted after the loop computed `late` and before it inserts the container in `sleeping` is relayed to a paused container (`sleep.rs:320`) |
| `engine_early` | a machine that dies after the tasks are spawned and before start is over is announced `Ready` for ever (`engine.rs:188`) |
| `statefile_ports` | the error of `remove_share` is dropped, so the port of a share left behind goes to the next drive (`engine.rs:908`) |
| `domains_lines` | two rewrites of the hosts file overlap and lose the user's lines (`domains.rs:246`) |
| `ports_early` | a list of ports that comes before start has stored `running` is published and not relayed (`engine.rs:616`) |
| `relay_ack` | the first bytes of a server that speaks first are dropped with the `BufReader` that read the acknowledgement (`ports.rs:182`) |
| `update_twice` | two downloads write one `.part`, and one of them launches a file that is not what it verified (`update.rs:247`) |
| `folders_rename` | a rename that changes only the case of a name destroys the file, one that fails destroys its target (`fileserver.rs:278`) |

Four more disagreements have no run of their own. The models contain them, and
the property named excepts that case:

- `ConnectionsEnd`: dockerd's close does not disconnect a docker client
  (`docker_proxy.rs:138`), against `docker_pipe.rs:269`.
- `NetworkSound`: a range that a wider network of the host routes already is
  chosen (`network.rs:288`), against `network.rs:9`.
- `VolumesSound`: a volume is counted as imported though the wait for its export
  failed (`import.rs:229`), against `import.rs:233`.
- `QuietPowerOff`: containerd and dockerd are started after `shutting_down` was
  set, when it is set after the supervisor's look (`system.rs:623`), against
  `system.rs:851`.

## What is proved and what is only model-checked

The proof modules state, for every value of the constants, the invariants and
the refinement named above, with the action properties `WokenBeforeRelayed` and
`IdleDecisionSound`. Each invariant was model-checked before it was proved. The
constants' assumptions are the `ASSUME`s of `Sleeper`, `Engine`, `StateFile`,
`Pid1`, `Notices`, `Streams`, `Answers` and `Pools`: bounds are naturals, sets that
are counted are finite, and a thread does not have the name of a step.

Only model-checked:

- Liveness (`ConnectionsServed`, `IdleContainersSleep`, `OperationsEnd`,
  `Announcements`, `Pid1Progress`, `RelaysFollow`, `ConnectionsEnd`,
  `WaitsEnd`): fairness and ENABLED are beyond TLAPS. That a wait
  ends is stated as `[]<>(nobody waits)`: no one is left waiting for good.
- `ProxyForwards`, `NetworkSound`, `VolumesSound`, `InstallerWholeElse`: their
  modules have no constants, and TLC's search of them is complete.
- `FactsKept`, `ExchangesPaired`, `MountSound`, and the action properties
  `PausesKeptElse` and `FilesSurvive`: not proved.

## Not modelled

The calls into HCS and HNS (they are the environment of `Engine`, `StateFile`
and `Network`), byte transport over vsock, the boot's mounts and network set-up,
`main.rs` of the service (its effect is a start, a stop or a kill), TLS and the
certificates of each name, the choice of projects whose bodies are kept, the
parsing of DNS records, of the release and of SHA256SUMS, the images of an
import and the files of a project, and of the shared folders: times, `statfs`,
`readlink`, `fsync`, error numbers and the snapshot that an open directory keeps.
Durations appear only in what may happen before what. The protocol types, the
masking of text, the port scan, the command line, the desktop application and the
vendored FUSE library have no state of their own, or are third-party code.

# A verification project for webmcp

webmcp is a bridge: a daemon on the owner's machine keeps one WebSocket to a
gateway, the gateway opens *sessions* for remote agents, and each session gets a
backend of its own on the machine, a local MCP server run as a child process
(stdio) or an MCP endpoint reached over HTTP. The source is Rust, under
`src/src/`; paths below are relative to that directory. These TLA+ modules model
it, TLC checks them on small instances and TLAPS proves the most important
properties for every size.

## 1. Inventory

| Component | State it keeps | Operations | Hard behaviour | What makes it correct |
|---|---|---|---|---|
| Session table, `relay/mod.rs` | `sessions` (sid -> handle), backends, admission, `in_flight` and `confirming` per session, the open-confirmation count | open, deliver, oversized, close, reconfigure, shutdown, drop; one task per session; one task per dialog | the main loop awaits inside handlers while tasks remove themselves; a bounded queue in each direction; `stop` gives up after 5 s; a reload ends sessions | the table is current and within its caps; no task is lost; no call is lost; evictions spare busy sessions; ends are reported; slots come back; the main loop returns |
| stdio backend, `relay/stdio.rs` | the child, a deadline, the line reader | spawn, write, read, reap, kill | one deadline serves the idle limit and the drain after an exit; lines are bounded | what a dying child wrote is forwarded; an exit ends the session soon |
| HTTP backend, `relay/http.rs`, `relay/sse.rs` | upstream session id, running POSTs, the listener, the event in progress | initialize, POST, GET stream, DELETE | concurrent answers, initialize first, idle only without POSTs; bodies cut anywhere | order of initialize, no answer after the end, events whole and in order |
| Tool policy, `policy.rs` | the listing ids in flight, the catalog learned from listings | inbound, outbound, learn | a call and a listing race; ids are the client's | hidden tools stay hidden and are not callable |
| Confirmation dialog, `confirm.rs` | none | ask the owner, with a time limit | outlives its session | a call is forwarded only if allowed |
| Connection, `connect.rs` | socket, outbound queue, ping counter, backoff | handshake, keepalive, dispatch, classify the close | reconnects, replacement by a second daemon | fatal closes stay down, others reconnect |
| Approvals, `approvals.rs` | agents file, last notifications | observe, approve, revoke, on, off | two processes and two files, a prompt between reading and saving, a full file, a clock that is set | an edit is not lost, the waiting list is exact, only what was seen is approved |
| Config file and watcher, `config.rs`, `reload.rs` | config.toml, its temporary name, the stamp last seen | load, edit, save, poll | no lock around read-modify-write; a stamp is mtime and length | the file is always whole; every edit is seen |
| Pairing, `pair.rs`, `keys.rs`, `device_auth.rs` | key file, config file, device code | start, poll, persist | a crash between two files; a config loaded before a long wait | key and device id belong together |
| Instance lock, `lock.rs` | lock and pid file | acquire, drop, probe | a pid read before it is written, a file left by a dead process | one daemon at a time |
| Background service, `service.rs` | the definition on disk, the one loaded | install, uninstall, the waits of a reload | a supervisor that takes its time; exit codes decide about restarts | an install replaces the old process; the daemon stays down only for a reason |
| Discovery, `discover.rs`, with `up` | none | find, name, resolve, attach | names that collide; a run that fails halfway and is repeated | aliases are valid and distinct; nothing is attached unasked |
| Commands, `main.rs`, `passkey.rs` | none of their own | read-modify-write of the config | see config file | see config file |

Interaction: `connect.rs` reads frames and calls `Relay::handle_*` one at a time;
session tasks, dialog tasks and the relay itself send frames through one bounded
queue to a writer task; the keepalive loop polls the config watcher and calls
`Relay::reconfigure`; the commands run in other processes and reach the daemon
only through files.

## 2. Modules

| Module | Models | Kind |
|---|---|---|
| `Relay` | `relay/mod.rs`: the session table, its handlers, the session and confirmation tasks | specification and properties |
| `MCRelay` | values of Relay's constants (server tables, admission rules, symmetry) | TLC |
| `RelayProofs` | theorems about Relay: types, the table, the calls, the last word of a session | TLAPS |
| `Session` | what both kinds of session are given: the idle limit of `SessionCtx`, and bounds | constants |
| `Stdio` | `relay/stdio.rs`: the select loop of one stdio session | specification and properties |
| `StdioProofs` | theorems about Stdio, the refinement of Fifo among them | TLAPS |
| `Fifo` | what Stdio promises of the child's stdout | abstract specification |
| `HttpSession` | `relay/http.rs`: the select loop of one HTTP session, its exchanges and its end | specification and properties |
| `HttpSessionProofs` | theorems about HttpSession, the refinement of Delivery among them | TLAPS |
| `Delivery` | what HttpSession promises of the messages for the upstream | abstract specification |
| `MCBackends` | a session of each kind side by side; a behaviour runs one of the two | TLC |
| `Policy` | `policy.rs`: what a session's tool rules let through | specification and properties |
| `ConfigFile` | `config.rs`, `reload.rs`, the commands of `main.rs` that edit the file, `remote_detach` of `connect.rs` | specification and properties |
| `ConfigFileProofs` | theorems about ConfigFile | TLAPS |
| `Connection` | `connect.rs`: dial, handshake, keep-alive, verdicts, backoff, `--once` | specification and properties |
| `ConnectionProofs` | theorems about Connection | TLAPS |
| `Pairing` | `login` and the pairing half of `up` (`main.rs`), `pair.rs`, `device_auth.rs`, `keys.rs` | specification and properties |
| `PairingProofs` | theorems about Pairing | TLAPS |
| `Daemon` | `lock.rs`, `service.rs`, the `connect` and `service` commands of `main.rs` | specification and properties |
| `DaemonProofs` | theorems about Daemon | TLAPS |
| `Approvals` | `approvals.rs` and its commands in `main.rs` | specification and properties |
| `PartsProofs` | theorems about Policy, Approvals, Discovery and EventStream | TLAPS |
| `Discovery` | `discover.rs` and the attaching of `up` (`main.rs`) | specification and properties |
| `EventStream` | `relay/sse.rs` and the loop of `relay/http.rs` that feeds it | specification and properties |
| `Parts` | Policy, Approvals, Discovery and EventStream side by side, their constants open | composition |
| `MCParts` | values of the constants of Parts; a behaviour runs one of the four | TLC |

The modules stand side by side and meet where the code does. What one of them
takes as given another one has: Relay takes any verdict on a call, and Policy
says which one; Relay takes a backend as an answering or failing thing, and Stdio
and HttpSession are two; HttpSession takes messages, and EventStream has how bytes become
them; Relay and Connection take a config that changes at any moment to any
value, and ConfigFile has how it changes; Connection takes copies of a device that
run at once, and Daemon has how many one directory allows; Approvals and Discovery
take saves that are whole, which ConfigFile says. Each of these is an over-approximation
in the module that takes it, so a safety property checked there holds of the
composition.

Operators whose name ends in an underscore and a defect (`Tick_StaleMisses`,
`Open_OnPath`, ...), marked `mutant`, are no part of a specification: each
is a plausible bug in the definition that follows it, and a property of the runs
fails when it takes that definition's place.

### 2.1 Relay

| Code | Model |
|---|---|
| `Relay.sessions`, `SessionHandle`, `SessionCtx` | `table` (sid to session number), `session`, `fate` for a handle taken out of the table |
| `Activity.in_flight`, `.confirming`, `open_confirmations` | `in_flight`, `confirming`, `open_confirmations` |
| `handle_open` / `open`, `deliver`, `oversized`, `close`, `reconfigure`, `shutdown`, `Drop` | `open`, `OpenAfterEviction`, `deliver`, `oversized`, `close`, `reconfigure`, `shutdown` and `Closed`, `Abandon` |
| `stop` with its five seconds | `BeginStop`, `EndStop`, `StopTimeout` |
| the task of `spawn`, `emit`, what backends do | `TakeMessage`, `EmitSent`, `EndItself`, `EndSilently`, `Killed`, `RemoveSelf`, `Report`, `Reap`, `Answer`, `Stray` |
| the confirmation task | `asks`; `OwnerAnswers`, `ReleaseAllowed`, `ForwardAllowed`, `ReleaseDenied`, `ReplyDenied` |
| the outbound queue and the writer | `out` (a count), `writer`; `SendReply`, `WriterSends`, `WriterDies` |

The main loop runs one handler at a time. Every `await` in one is a step boundary:
the handler leaves `fate`, `stopping`, `reply` or `opening` set, and other tasks
run before it goes on. `owed`, `told`, `hung_up` and `strays` are the environment's
own account, which the properties compare the relay's state with.

`note_from_backend` lowers the count for every message that has an id and no method,
whatever it answers (`Settle`). A backend may send one that answers no call it holds:
a second answer, an id nobody used, an error with id null. `Stray` is that, and
`strays` counts them: the properties about the count allow one call for each, no more.

Abstracted: a message is a call (its id and any verdict of the policy) or
anything else; the 5 s of `stop`, the 60 s of a dialog and the idle limit may run
out at any moment; which idle session is the oldest is not tracked, so any idle
one may be evicted; the second lookup of the table when a queue is full happens
in the same step as the first; `abort` takes effect at once where a task waits, and one
that has returned from `run` still looks for itself in the table (`AbortAt`, "dying");
requests and notifications that a server sends of its own accord have a method, leave
the counters alone and are left out; a stdio session may be idle while a call is
under way, as in the code; an http session that is ended loses the answers that wait
for room (its POSTs are aborted), a stdio one sends them first.

### 2.2 Stdio and Fifo

`rx`, `pending`, `line`, `left`, `exited` are the variables of `run`: the
receiver, `pending`, the `LineReader`, the deadline, `exited`. `Closed`, `Recv`,
`Write`, `WriteFails`, `Read`, `ReadEof`, `Wait`, `Expire` are the arms of the
`select!`, `Forward` and `ForwardFails` the await inside the arm that has a line.
Pieces of a message and chunks of a line are split anywhere. stdout is a stream of
bytes and newlines, and `ends` an account of where the newlines in it are;
`TakeLine` is `read_line_bounded` on one chunk, in its two cases, with the limit in
`Gather`. A message to the child is `MsgBytes` bytes. A process of the
child's own may hold the pipes after the child is gone, as launchers do. A failed
spawn is Relay's `EndItself`.

`Fifo` says what stdout promises: items come out one by one, in order, whole and
once until the session ends. `LinesArrive` is the refinement (`INSTANCE Fifo WITH
...`): what is put in is `Lines`, the length of each line between two of `ends`, what
comes out is `handled`, and the session is over once `why` is not "running". The run
checks it with fairness: each line comes out in the end, also while a child that stops
reading keeps a message from going in. No such promise is made of stdin, only that
what went in is whole: each byte is the one that follows the last (`StdinWhole`).

### 2.3 Policy

`catalog`, `listing` are the fields of `Policy`; `inbound_*` and `outbound_*` are
`inbound` and `outbound`, one action per outcome. The server (external) lists any
page at any time, answers in any order, fails a request, drops one the agent
cancelled, and numbers its own requests out of the same ids. A tool's hints are
kept in the three classes the code tells apart; pages are functions from names to
them. The agent does not reuse an id that is open, as JSON-RPC asks of it.

### 2.4 ConfigFile

`names` and `data` are the directory entry and the inodes of `config.toml` and
its temporary name, so that a rename under another writer's open file does what
it does on disk. `Open`, `Write`, `Rename` are the three system calls of
`write_private`, `Command` is a command's load and change, `remote_detach` the
daemon's; `Crash` kills a command between any two of them. `Stat`, `Load`,
`LoadFails` are `ConfigWatcher::poll`. A file's bytes are the config they spell or
`Torn`; where one writer's text goes over the longer one of another in the same file,
the tail stays, and the two together may be torn or spell any config (`mixed` says that
it happened). Times come from a coarse clock that may stand still over an edit.
Credentials are all in `agents.json`.

### 2.5 Connection

| Code | Model |
|---|---|
| `run`, its match and `backoff_delay` | `phase` waiting / dialling / stopped, `attempt`; `Dial`, `Retry`, `Leave` |
| `connection`, `handshake`, `next_frame` | phases hello, auth, verdict; `Dialled`, `Refused`, `Handshake`, `HandshakeTimeout`, `Start` |
| `keepalive` | phase live, `task`; `Tick`, `Changed`, `Unblocked`, `WriterEnded`, `Incoming` |
| `close_error`, `classify`, `is_fatal` | `Verdict`, `Fatal` |
| `write_loop` and its queue | `writer`, `out`; `WriterSends` |
| the end of a `--once` run | `Goodbye` |

Several daemons serve the same device: on one machine `lock.rs` forbids it, a copied
config directory does not. Any of them may be one of the `strangers`, started with a key
the gateway does not hold, as between the two files of a re-pair: the upgrade is
refused with 401 bad_signature (`Dialled`) or the handshake with `unauthorized`
(`Reject`). The gateway (external, modelled from the frames and
close codes `connect.rs` handles) keeps one socket per device and gives it to the
newest authenticated connection. A link is up, cut (both ends learn of it) or
silent (neither does). `Reset` is a write that fails at an end the gateway has closed
while the close frame is still unread: the select may see the writer's error first, and
the verdict in that frame is lost.

Time is counted in ping intervals: a handler takes less than one, so the loop
reads at least one waiting message per interval, and the writer gets a ping out on
a link that stands. A dial is answered or fails. SIGTERM, a crash of the daemon
and the jitter are left out; `attempt` saturates where the delay does.

### 2.6 HttpSession and Delivery

| Code | Model |
|---|---|
| the `select!` of `run` | `Cancelled`, `Take`, `Join`, `DeadlinePasses`; `loop` is "initializing" while `run` awaits the headers of initialize |
| a task of `tasks` | `task[e]` of an exchange `e`, the POST of a message or the listener after it |
| `send`, `consume`, `stream`, `listen` | `Ask`, `Headers`, `Finish`, `Fail` |
| `emit` | `Emit` keeps the version and the time, `Emitted` is the frame on the connection's queue |
| `tasks.shutdown`, `terminate` | `Abort`, `Terminate`, `Deleted` |

Names that Stdio has too begin with `Http` here (`HttpInit`, `HttpNext`, ...), so that
`MCBackends` can extend both.

A body is the messages it carries, parsed: the JSON body, a batch and an event
stream differ in when they arrive, and here they may arrive at any time. Answers
with an error status are among the exchanges that fail or end after one message. A
task that panics is one that failed. An aborted task may still take steps until the
abort reaches it. `asked`, `issued`, `told`, `silence` are the upstream's and the
agent's account, which the properties compare with the session's.

`Delivery` says what the upstream gets: no exchanges and no loop, but messages that
go out when they may. They may overtake each other, since each POST is a task of its
own; none overtakes an initialize that was not answered (or given up, which ends the
session); each has the session id there was. `HandsOver` is the refinement: what is
out is the POSTs of `asked`, an initialize is unanswered while the loop is
"initializing" and its POST is out, and a session is over when its tasks are. With
fairness: a message that may go goes, unless the session ends first. `HandsOver` adds
that a cancelled session ends.

### 2.7 Pairing

`login` and `up` begin with the config they load (`Begin`), `up_steps` decides
whether anything is to be paired, `pair` or `start` and the polls register a fresh
key, `OpenKey`, `WriteKey`, `RenameKey`, `SaveConfig` are `persist`. Polls have a
clock of ticks: `Sleep` is the head of the loop in `wait`, with its local expiry;
`Approved`, `Pending`, `SlowDown`, `Lost`, `Refused` are what a poll comes back
with. `device.key` and its temporary name are directory entries and inodes, since
two runs share the name. `Stop` kills a run, or fails its write, between any two
steps. A config is the device it names and whether it requires approval;
`Attach` saves the one a run of `up` has had in memory since it began, and
`ApprovalsOn` is another command that turns approvals on meanwhile. Which answers `check_endpoints` rejects is not modelled,
only that it may (`Misdirected`).

### 2.8 Daemon

| Code | Model |
|---|---|
| `connect_cmd`: config, key, lock, serve | places of a process; `LoadConfig`, `LoadKey`, `Fatal`, `Signal` |
| `InstanceLock::acquire`, a system call at a time; `Drop` | `Open`, `TryLock`, `ReadPid`, `Clear`, `WritePid`; `Drop` |
| `daemon_running` | a process of kind "probe" |
| the definition's `KeepAlive` / `Restart`, and exit codes | `AfterExit`, `Exits` |
| `reload_launchd` | `Bootout`, `Poll`, `Polled`, `Bootstrap` |
| `systemctl daemon-reload`, `enable`, `restart` | `Reload`, `Restarted` |
| `uninstall` | `Uninstall`, `Remove` |
| `launchd`, `systemd` (external) | `job`, `main`, `loaded`; `Supervise`, `Gone`, `Login` |

The lock is on the file, not on its name: `path` is the file the name is bound to,
`holder` and `text` belong to files. A process may crash, be killed or be signalled
at any place; before it serves nothing catches the signal, which systemd counts as a
clean end and launchd as a failure. `file`, `loaded` and `runs` number the definitions, so that an old
process under a new definition is visible. launchd goes on removing a job for a
while after its process is gone ("going"), and refuses a bootstrap as long; it
kills a process before the polls of an install run out (`DaemonAssumption`).

### 2.9 Approvals

`required` and `approved` are config.toml, `agents` is agents.json, `mem` and
`notified` the daemon's `Recorder`. A command that asks has two steps, what it read
before its prompt (`ChooseToApprove`, `ChooseToKeep`) and what it does after
(`approve`, `turn_on`), with anything in between. Times are those of a wall clock
that may be set; a save may fail; the daemon may stop, and starts from the file, or
afresh when it cannot be read (`Afresh`): what it said is then lost with the next save.
`hist` and `saved` are an account of who was seen since and of what of it reached the
file, `tried` of everybody who ever came to the approval check.

### 2.10 Discovery

`found` is what `discover` returns for the files in `tables`. Names and aliases are
sequences of characters, since the aliases are what the property is about, with
lengths scaled down. `FirstFree` looks for a number among those of `Number`: the
code's counter has no end that a list in memory could reach, hence the assumption that
there are more numbers than servers. `PickNamed` is `--attach` with any names, `PickAsked` the
prompt, `AttachNext` one attach and save; `Again` is another run of `up`, wherever the last one ended, and it
discovers anew: `Edit` is another tool that changes its file in between, so that a
name or an alias may mean another server by then. That an alias is in use is all `up`
looks at before it says "already attached".

### 2.11 EventStream

`line`, `data`, `hasData` are `SseParser`; `push` takes a chunk `Byte` by `Byte`.
The server writes lines of every kind with either line ending; a chunk ends anywhere.
`Expected` is the reference: from the lines that were read whole (`WholeLines`), not
from bytes, an event is the data of the lines between two blank ones (`Payload`).

## 3. Runs

Every run ends with no error, but for `connection_fight` and `pairing_approval`, each of
which shows a divergence.

| Run | Configuration | Asks |
|---|---|---|
| `relay_table` | two sids, one place, a server that changes, turns exclusive and disappears, one credential that is approved or not | Does the table stay current and within its caps although `open` awaits between its checks and the insert (`TableCurrent`, `WithinCap`)? Does any session end without its close frame (`NoSilentEnd`)? Do two processes of an exclusive server overlap (`ExclusiveProcess`)? |
| `relay_traffic` | one session, two calls, stdio and http, every failure, fairness | Is any call lost (`NoCallLost`)? Does the main loop always come back, is every end reported (`MainReturns`, `EndIsReported`)? |
| `relay_evict` | two sessions, both stdio or both http, compete for one place, with a call each and one stray message of a backend | Does the count follow the calls (`CountFollowsCalls`)? Are calls that still run spared by an eviction, but for one to each stray, so that nothing is lost but answers that wait for room (`EvictionSparesCalls`)? Is what is sent of an evicted session sent before the eviction is reported, are closed sessions quiet (`CloseIsLast`), dialog slots counted (`DialogsCounted`)? |
| `backends` | stdio: messages of two bytes, lines up to one byte, a pipe of two. http: two messages, each initialize or not, one relayed message, every failure, a cancellation at any moment. Fairness of both | Does stdout implement `Fifo` while stdin may be stuck (`LinesArrive`), is stdin never torn (`StdinWhole`), does a session end as idle or over the limit only when it is (`EndIsEarned`)? Do requests carry the session id and the version they must (`HeadersFollow`), is a session idle only without POSTs (`IdleIsQuiet`), does nothing follow the DELETE (`DeleteIsLast`), does the session implement `Delivery` and a cancelled one end, even when initialize is never answered (`HandsOver`)? |
| `config_edits` | one command process and the daemon, two edits, one failed read, fairness | Is the file whole and every reported edit kept while edits do not overlap (`ConfigIsWhole`, `NoLostEdit`); however they do, does every edit reach the daemon (`EditsAreSeen`)? |
| `connection_turns` | two copies, one with `--once`, each with the device's key or another, any one fault, one edit | Does a daemon stop only for what the gateway decided (`FatalIsEarned`), does only one whose notice was lost take the socket back (`TurnsNeedALostNotice`), is a live link kept (`AliveIsKept`), does the gateway know the set (`GatewayKnowsTheSet`)? |
| `connection_online` | two copies, a link that breaks loudly, silently or under a write, fairness | Is one of them online in the end, for good (`StaysOnline`)? |
| `connection_fight` | two copies, one write that fails at a closed end | The first divergence below |
| `pairing` | two runs of `login` or `up`, forced or not, on a fresh or a paired directory, killed anywhere | Do key and config belong together (`KeyMatchesDevice`), do polls keep the interval and the expiry (`PollsKeepTheirDistance`), does waiting for the owner end (`PairingEnds`)? |
| `pairing_approval` | one run, approvals turned on at any moment | The second divergence below |
| `daemon` | three processes by hand, of the service or probing, four events (starts, crashes, signals, installs, uninstalls, logins), macOS or Linux, fairness | Does one daemon serve, and does the lock file name it (`OneDaemon`)? Is the service given up only for a verdict or a signal (`DownForAReason`)? Does an install leave no old process and never fail for one that is slow (`InstallApplies`)? Does the service come up once nothing else holds the lock (`ServiceComesUp`)? |
| `parts` | Policy: two tools (one with a name past the limit), two ids, three requests, every rule. Approvals: two credentials, room for one, a clock of two values, two faults. Discovery: two files of up to three names that collide and may change between runs, two picks. EventStream: four lines, chunks of up to seven tokens | Are listings filtered, do listings and calls agree, does no call skip the owner unearned (`ListingsFiltered`, `ShownIsCallable`, `UnaskedIsHarmless`)? Is the waiting list exact (`ListIsExact`)? Are aliases valid and distinct, is what was asked attached (`AliasesFit`, `AttachesWhatWasAsked`)? Are the events those written (`EventsAsWritten`)? |

`parts` runs four specifications that share no variable: a behaviour takes the steps
of one and leaves the others at their beginning. Its states are those of four runs, as
those of `backends` are of two. `relay_evict` leaves the config alone (`Steady`):
a table that switches the kind of its server is `relay_traffic`'s.

### Divergences

`NeverTakeTurns`: "two copies never take turns evicting each other" (`docs/PROTOCOL.md`),
but when a write to the closed end fails before the loop has read the close frame, the
error is retried, the frame's verdict is lost, and the replaced copy takes the socket
back. `TurnsNeedALostNotice` says that nothing else makes it.

`PairingKeepsApproval`: "pairing again never turns local approval off" (`pair.rs`), but
what carries over are the settings of the config the run loaded before it waited for
the owner: approvals turned on meanwhile are off again when it saves.

Seen while modelling, each without a run of its own:

- "At the cap, a session with a request still running is never evicted"
  (`tests/relay_mock.rs`), but any message of the backend with an id and no method
  lowers the count of what runs, and at zero the session may go. `CountFollowsCalls` and
  `EvictionSparesCalls` say how far: one call for each such message.
- `EXIT_DRAIN` is "after the child exits, how long its remaining stdout is still drained"
  (`relay/stdio.rs`), but a line or a message taken in that time sets the one deadline to
  the whole idle time, and again with each further one.
- `webmcp approvals revoke` reports that the credential's next session waits
  (`main.rs`), but a `remote_detach` of the daemon that loaded the config before the
  revocation and saves it after puts the credential back (`connect.rs`).
- `Relay::shutdown` "returns once all backends are stopped" (`relay/mod.rs`), but
  `stop` gives up after five seconds (`StopTimeout`).
- Only idle sessions are evicted (`docs/PROTOCOL.md`), but one whose answers wait for
  room in the outbound queue counts as idle, and an http session that is evicted then
  loses them: its POSTs are aborted (`relay/http.rs`).
- "A request still running counts as traffic" (`relay/http.rs`), but when the
  deadline passes after it ended, the idle time is counted from the last message:
  a session whose long POST ended without one may be closed at once.
- A second initialize in one HTTP session keeps the first session id; an
  initialize cancelled before its headers arrive leaves its upstream session alone.
- A re-pair killed between its two files leaves the new key with the old device.
  "The reverse is harmless" holds of a first pairing (`pair.rs`, `persist`); here the
  next `up` says "already paired" (`KeyMatchesDevice` excuses it as `broken`).
- `up` saves the config it loaded before its prompt: edits made meanwhile are lost.
- `up` calls a server attached when its alias is in use, whatever that server is; one
  killed between two attaches of a choice at the prompt does not ask again.
- The comment of `reload_launchd` has launchd kill a process after 20 s, the
  definition written says `ExitTimeOut` 15 (`service.rs`); either is within its polls.
- A supervised `connect` that starts while a forced re-pair is between its two files
  reads the old config with the new key. The gateway rejects it, and a verdict is a
  clean exit: the service stays down although the pairing ended well.
- Two runs of `up` share `device.key.tmp`: one may write its key under the other's
  config (`overlapped`).
- The backoff starts over only when a connection ends with success, which without
  `--once` none does (`connect.rs`, `run`); the dial has no time limit of its own
  (`connection`).

### Bounds

`MaxOpens`, `MaxStrays`, `MaxEdits`, `MaxFaults`, `MaxRequests`, `MaxSent`, `MaxWritten`,
`MaxClock`, `MaxErrors`, `MaxEvents`, `MaxPicks`, `MaxServers`, `MaxLines`,
`MaxChunk`, `Runs` cap what the environment does; everything else is what
the code has, scaled down.

- Relay: two sessions over the connection's life are the least with which one is
  evicted, replaced under its own sid or stopped while the other ends. Queues of
  one fill at once. A hazard needs one alias and one credential: the handlers
  compare them and never relate two. One stray message makes the count one too low and,
  with a call each, zero. Splitting the dimensions over
  runs (table, traffic, eviction) is what lets each be explored in full.
- Stdio: a message of two bytes is torn in the middle, a line of one byte with a
  limit of one meets both sides of the limit, two ticks of idle time and one of
  drain tell the two uses of the deadline apart.
- HttpSession: two messages are an initialize with one behind it, before it, or
  another; one relayed message is the answer that names the version, or any other;
  two ticks tell a whole idle time from part of one.
- Pairing: two runs follow each other or overlap; a code that lasts three ticks is
  polled at most three times, with a slow_down in between; a request may take as
  long as the interval.
- Policy: two ids give two overlapping requests and a server request under the
  id of each; three requests let a listing follow a call and a listing.
- ConfigFile: two edits overlap in every way with three system calls each; a
  clock of three has edits within one tick and between two.
- Connection: two copies evict each other; one fault at every point of both; two
  missed pongs are the least at which one late pong is distinguished from a dead
  link (`ConnectionAssumption` has `MaxMissed` above one; the code's default is
  larger). A queue of one blocks the loop's every send.

- Daemon: three processes are one that holds the lock, one that loses it and one of
  the service, or a probe at the worst moment; four events are a start, an install
  and a crash or signal of either. Polls and tries of two are the least that meet
  `DaemonAssumption`, which asks that a kill and the linger after it fit within them.
- Approvals: two credentials and room for one fill the file; which of several oldest
  ones goes is a choice the model leaves open. Two readings of the clock tell a record
  that is older from one that is as old. Two faults are a stop and a start that cannot
  read the file, or a save that failed before a stop.
- Discovery: aliases of at most three characters; the names are one to be lowered,
  one that looks like an alias made unique with a number, and one with no character
  that is allowed, each in either of two files, with and without a server attached
  before; two picks are an attach and its repetition, and one server attached when `up`
  is run again is one whose alias may mean another by then.
- EventStream: four lines are an event, its end and the beginning of another; a limit
  of five tokens is met from both sides by a line and by data of several lines.

### Fairness

- Relay: the runtime runs a task that can run (`MainStep`, `TaskStep`, the
  confirmation tasks), a socket write ends or times out (`WriterSends`), and the
  queue serves waiting senders in turn, hence strong fairness of `Report`. Nothing
  is assumed of the gateway, of a backend's answers, or of `Failures`.
- Stdio: `select!` polls its arms in random order, so one that stays ready is
  taken (`Read`, `Arm`); the connection's writer makes room or fails (`Forward`).
  Nothing is assumed of the child.
- HttpSession: `select!` takes an arm that stays ready (`Cancelled`, `Take`), tasks run
  (`Ask`), an abort takes effect, the DELETE has a time limit. Nothing is assumed of
  the upstream: a message of Delivery waits for the initializes before it alone, and goes
  if they are answered.
- Pairing: time goes on, a request ends by its time limit, and a run that is not
  killed makes its next system call.
- ConfigFile: the poll's ticker goes on and a command that began its save makes
  its next system call.
- Connection: arms that are ready again and again are taken (strong fairness of
  `Incoming` and `Changed`: random order), a sender blocked on the queue has its
  turn (`Unblocked`, `Goodbye`), timers expire, the gateway answers. Faults are
  never forced, and bounded.
- Daemon: a process makes its next step and the supervisor starts what is due. Nobody
  is made to crash, to end or to run a command.
- The four of `parts` have no liveness property and assume no fairness.

`CHECK_DEADLOCK FALSE` stands where the system may really stop: when the bounded
environment has nothing left to do (ConfigFile, Pairing, Daemon, the specifications
of `parts`), or every copy of a device has stopped (Connection). Relay and Stdio say themselves where they end
(`Terminated`, `Over`), and any other stop is an error.

## 4. Proofs

Each theorem holds for all values of the constants under the module's one
`ASSUME` (and, of Stdio and HttpSession, the one of `Session`, which both extend), checked
by `tlapm` to the last leaf.

| Theorem | States |
|---|---|
| `RelayProofs!TypeCorrect` | `[]TypeOK` |
| `RelayProofs!AlwaysCurrent`, `AlwaysWithinCap`, `OpeningAlwaysFits` | `[]TableCurrent`, `[]WithinCap`, `[]OpeningStillFits` |
| `RelayProofs!NeverSilent`, `NeverSideBySide` | `[]NoSilentEnd`, `[]ExclusiveProcess` |
| `RelayProofs!DialogsAlwaysCounted`, `NoCallEverLost`, `CountAlwaysFollows` | `[]DialogsCounted`, `[]NoCallLost`, `[]CountFollowsCalls` |
| `RelayProofs!EvictionAlwaysSparesCalls`, `CloseIsAlwaysLast` | `EvictionSparesCalls`, `CloseIsLast` (action properties) |
| `StdioProofs!TypeCorrect`, `StdinAlwaysWhole`, `EndIsAlwaysEarned` | `[]TypeOK`, `[]StdinWhole`, `[]EndIsEarned` |
| `StdioProofs!LinesImplementFifo` | `Spec => Out!Safety`: the refinement of Fifo |
| `HttpSessionProofs!TypeCorrect`, `HeadersAlwaysFollow` | `[]HttpTypeOK`, `[]HeadersFollow` |
| `HttpSessionProofs!DeleteIsAlwaysLast`, `IdleIsAlwaysQuiet` | `DeleteIsLast`, `IdleIsQuiet` (action properties) |
| `HttpSessionProofs!SessionDelivers` | `HttpSpec => Up!Safety`: the refinement of Delivery |
| `ConnectionProofs!TypeCorrect`, `FatalOnlyIfEarned`, `SomeoneAlwaysStays` | `[]TypeOK`, `[]FatalIsEarned`, `[]SomeoneStays` |
| `ConnectionProofs!AliveAlwaysKept`, `GatewayAlwaysKnowsTheSet` | `[]AliveIsKept`, `[]GatewayKnowsTheSet` |
| `ConnectionProofs!TurnsAlwaysNeedALostNotice` | `TurnsNeedALostNotice` (action property) |
| `ConfigFileProofs!TypeCorrect`, `AlwaysWhole`, `NeverLost`, `AlwaysServedWasSaved` | `[]TypeOK`, `[]ConfigIsWhole`, `[]NoLostEdit`, `[]ServedWasSaved` |
| `PairingProofs!TypeCorrect`, `KeyAlwaysMatchesDevice` | `[]TypeOK`, `[]KeyMatchesDevice` |
| `PairingProofs!PollsAlwaysKeepTheirDistance` | `PollsKeepTheirDistance` (action property) |
| `DaemonProofs!TypeCorrect`, `AlwaysOneDaemon`, `AlwaysDownForAReason`, `InstallAlwaysApplies` | `[]TypeOK`, `[]OneDaemon`, `[]DownForAReason`, `[]InstallApplies` |
| `PartsProofs!TypeCorrect`, `AlwaysListingExact`, `AlwaysFiltered`, `AlwaysCallable`, `AlwaysHarmless` | of Policy: `[]TypeOK`, `[]ListingExact`, `[]ListingsFiltered`, `[]ShownIsCallable`, `[]UnaskedIsHarmless` |
| `PartsProofs!ApprovedAlwaysTried`, `ListIsAlwaysExact` | of Approvals: `[]ApprovedTried`, `[]ListIsExact` |
| `PartsProofs!AliasesAlwaysFit`, `AttachedAsAsked` | of Discovery: `[]AliasesFit`, `[]AttachesWhatWasAsked` |
| `PartsProofs!EventsAlwaysAsWritten` | of EventStream: `[]EventsAsWritten` |

**Relay.** `Typed` is TypeOK by groups of variables with `StopOK`: the handle
`stop` waits for was taken out of the table and told to end. Without it the type of
`reply` is not inductive: the close frame that follows carries that handle's fate. `TableInv` adds `Numbered` (a session in the table was
numbered, once), `TableCurrent`, `WithinCap` and `OpeningStillFits`. The caps need
the last one: `open` inserts after an await on the strength of what it saw before
it, so the invariant has to say that what it saw is still so. No step lets go of a
running task (`Kept`): it stays in the
table or among the handles about to be stopped, or it is told to end. All steps but
the one that spawns do so in the same way (`HoldsOn`), so what follows needs two
cases where the model has thirty actions. For `NoSilentEnd`, `Heard` adds that the main
loop sends nothing while it waits for a task (`Quiet`), that what it ends silently is
what the gateway closed (`Hung`), and that a task aborted on its way out had lost its
place before (`DyingOut`): who removes itself late finds nothing of its own. `ExclusiveProcess` uses that an open found
nobody on the alias, and that a handle taken out of the table has its sid to itself
until it was stopped.

`Dialogs` counts the confirmations by their tasks: the flags of the sessions and the
dialogs that hold one are in bijection, so the count comes down by one with each.
`Calls` says of every live session where each call that the gateway waits for is: in
the queue, at the backend, with the owner, on its way out, in exactly one of them and
once. `in_flight` follows the size of the union of the first three: it is never above it,
and below it by one for each stray message at most (`Counted`); `owed` is what is in
any. `EvictionSparesCalls` follows: who is evicted has a count of zero, so what it owes
beyond answers on their way is a call for each stray (`FewAreLeft`).
For `CloseIsLast`, `Stands` says that a session in the table runs or ended by itself,
`LastWord` that who is reported is gone, and `Spared` that an evicted session's
answers went out before the main loop got back from its `stop`; `Done` is what it
kept true of that session while other handlers ran.

**Stdio.** `In`: messages are numbered as they were sent and taken in that order
(`Order`), which makes the next byte after any the one `Write` puts out. `Stream` says
where in the output the loop is: `ends` has every newline in order (`Broken`), the
pipe has the end of what was written (`Piped`), and what the loop holds of a line are
the bytes since the last newline it consumed (`Inside`). Then the first newline in the
pipe is the next entry of `ends` (`NextEnd`), a `forward` is a `Get` of Fifo, and the
line that is given up is one the child wrote. `Timed` adds the deadline to the time it
has run: until the child is gone they are `Idle` together.

**HttpSession.** `Order` puts the exchanges in the order the loop gives them: an
initialize whose headers are not in is the one the loop waits for, a listener follows
its POST, no exchange is left at the DELETE. `Accounted` ties what the upstream and the
agent have seen to what the session keeps. `FlightOK` is the count of POSTs the loop
has started and not joined; `in_flight` has no meaning of its own without it.
`IdleIsQuiet` needs `ClockOK`, that the time the loop measures is the one of silence.
For `SessionDelivers`, `Passed` says that an exchange past "ready" is out, and that an
initialize the loop took is out unless it is the last one taken and the loop waits for
it or ended at it. Then whatever the loop has taken may go (`Behind`): an `Ask` of a POST
is a `Go`, the headers are an `Answer` or an `AnswerLate`, a loop that ends gives up
the initialize it waits for, and all else is a stutter.

**Policy.** `Inv` is TypeOK, `Book` (ids of open requests are unique, each answer
on its way belongs to an open request and answers it once, a call held for the
owner was asked about, the listing ids are those of the open listings), the
promises themselves and `CatalogHarmless`: the catalog calls no tool harmless that
no listing did.

**Connection.** `Local`, for each daemon: one that waits or dials has nothing of
a connection, one not past the handshake has no result and got nothing but a
challenge (`Bare`); the miss counter is zero where the loop is not running and
below the limit where it is (`Counts`); a verdict in the inbox, or taken from it,
was earned (`Earned`), by a revocation, a replacement or a key that is not the
gateway's; only verdicts stop a daemon (`Stops`). `Newest` says that of those with the
device's key somebody's connection was not replaced. `Bare` is there for one step: a welcome
clears the daemon's `ousted`, which contradicts `Earned` unless no notice of an
earlier eviction can be left in its inbox. A step touches one daemon (`Others`),
except for `Welcome` and `Revoke`, which are proved for all at once.

`Linked` goes on from there with what both ends of a link know of each other. `Wire`
and `Over` say when a link stands, `Word` that a gateway that let go of a connection on
a link that stands has said why, and says nothing after it. `Alive`: a ping not yet
answered is queued or its answer is to be read, so that a pong is missed at most once
on such a link, which is less than `MaxMissed`. `Noticed`: a notice of an eviction that was not
lost, with its link or behind a writer's error, is in the inbox or was taken. `Knows`: the last servers frame in the queue, or
what the gateway has if there is none, is the set served; with --once no ping is
answered before the set was heard, which is why the pong ends such a run.

**ConfigFile.** Every edit is a `Begin` with some fields and a config that differs
in those alone (`EachEdit`). `Meant` says that whatever is in a file, is about to be,
or is served was saved by somebody, or is torn, as long as nobody wrote over another's
longer text (`mixed`); it needs no assumption on who else overlaps. `Solo` is what holds while nobody has: one edit at a time, `path` and `tmp`
are different files, the temporary file is empty between open and write and holds
the new text after (`Progress`), and the edit agrees with config.toml in every field
that is not its own. The rename then changes exactly the fields it reports. That a
save finds a file to create is a count: a save that has yet to open its file leaves
one more file than the others can have open (`UnusedExists`).

**Pairing.** `Typed` is TypeOK with the pace of the polls (`Paced`) and `Apart`: the
temporary name of the key is not a second name of the key. That a run finds a free
inode is a count: each run holds at most one. `Solo` is what holds while no two runs
overlap: the run that is under way knows the config as it is (`Own`), the temporary
file is its own, and between the two renames the key file has its key.
`KeyMatchesDevice` alone is not inductive, because the save that repairs it rests on
what the run wrote three steps before.

**Daemon.** `Locked`: the file bound to the name `daemon.lock` is the only one anybody
opens or locks, because nobody unlinks it, and whoever serves wrote its pid there.
`Owned`: the supervisor's process is one it started. `Installing` says, for every
place of an install, what the supervisor has done by then; with the assumption that
a kill and its linger fit within the polls, no install gets past its last one.

**Approvals.** The file has records of those alone that the last save was about, the
daemon of those it has seen, and every command approves from the file or from its
memory of it. Whoever is in one of them, or approved, tried this machine (`Attested`), whatever
was forgotten since; a start that cannot read the file begins with a blank account
(`BlankMatches`). For
`ListIsExact` the records are compared with the account (`Matches`): a record is there
for each credential that was seen, but for those that at least as many others as there is
room for pushed out, and not the newest. `trim` takes the oldest record of a file that is
over its room; that there is one is the least element of a finite set in a
well-founded order, which is one induction, and the library's (`HasLeast`). The
assumptions on the constants of Approvals, Discovery and EventStream are those of
`Parts`, which brings all four specifications to the runs of `MCParts` and to these proofs.

**Sequences.** Discovery and EventStream compute with recursive functions and with
`FlattenSeq`, the library's, which is one. `HasLeast` gives an induction over a *set* of
numbers (`Induction`), which takes no operator, so the provers can use it. With it
there is such a function (`JoinsExists`, `NamedExists`, `FedExists`) and only one
(`JoinsAgree`), and flattening has the laws one expects: one more part goes to the end
(`FlattenNext`), nothing is in it that is in no part (`FlattenElements`), it is as long as
its parts allow (`FlattenLen`), it begins as the first part that is not empty does
(`FlattenHead`).

**Discovery.** `SanitizeValid`: whatever the name, what is left of it begins with a
character of its own and has none but those allowed. `CandidatesDiffer`: no two numbers
give the same candidate, because the number is what follows the last dash; so with more numbers
than servers one is free, and it fits (`UniqueValid`). `AliasInv` is that for what was
found. In `AttachInv`, each server still to attach or attached in this run is one that
was `Wanted`, and each thing asked for is `Served`: what it means is still to attach, was
attached in this run, or its alias was in the config when the run began (`Settled`). The last is
what holds when the code says "already attached", and the one exception the property
makes. Nothing in it relates two runs, so the files may change between them.

**EventStream.** `Reads` says where the parser is: w lines are read to their end, the
buffer has the part of the next one that was read, and the parser `Knows` what those w
lines say: the events are theirs and `data` is the payload since the last blank one.
It is kept by each token (`ReadsToken`; a line takes effect at its line feed alone,
`LineEnds`), hence by a chunk of any length (`ReadsChunk`). What is written later
changes nothing of it, and w is `WholeLines` because later lines end later.

What is proved and no run checks (the types of all modules, `ListingExact`,
`OpeningStillFits`, `SomeoneStays`, `ServedWasSaved`, `ApprovedTried`) costs the runs
no time.

Model-checked only:

- liveness (`MainReturns`, `EndIsReported`, `EditsAreSeen`, `StaysOnline`,
  `PairingEnds`, `ServiceComesUp`, and of `LinesArrive` and `HandsOver` that a line or
  a message that waits comes out and a cancelled session ends): it needs ENABLED, which the
  provers do not reach. Their safety parts are `LinesImplementFifo` and `SessionDelivers`.

Every safety invariant and every action property of the runs that pass is a theorem.

## 5. Not modelled

- Two dialogs "on this machine" are counted per connection; a dialog outlives the
  one that opened it. Needs Relay over successive connections.
- A dial that is never answered, SIGTERM during a connection and the jitter of the
  backoff (`connect.rs`).
- What `discover.rs` reads out of other programs' files: only which servers it finds.
- `webmcp service status`, listings, argument parsing, the
  passkey prompt (`main.rs`, `passkey.rs`, `output.rs`): they read and print.
- Redirects, headers and TLS of HTTP backends (`relay/http.rs`): an exchange answers
  or fails.
- Validation of a config entry's fields (`config.rs`): a file spells a config or none.
- `signing.rs` (cryptography), `proto.rs` (types of messages), `error.rs`,
  `platform.rs` (wording and constants), the npm launcher.

## 6. Plan

Done, in this order: Relay and its proofs, Stdio with Fifo, ConfigFile, Policy and
its proofs, Connection and its first proofs, HttpSession, Pairing; Daemon, Approvals,
Discovery, EventStream; the proofs of ConfigFile, Daemon and Approvals; the proofs of
Pairing, HttpSession and Stdio, and of what was left of Relay, Connection and
Approvals; the proofs of Discovery and EventStream; Delivery and its refinement. Ahead:

- A Relay that lives over several connections, for the dialogs a connection leaves
  behind.

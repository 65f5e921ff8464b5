# vmflow in TLA+

vmflow is a port forwarder: a daemon that listens on TCP and UDP ports, forwards
what arrives to a target under per-rule speed limits and traffic quotas, and is
reconfigured while it runs through a local HTTP API, a terminal interface, a
Telegram bot or an MCP server. It installs itself as a service, updates and removes
itself, keeps certificates, and has a reverse tunnel. This directory holds TLA+
models of the parts where goroutines, answers, failing writes and restarts meet,
the TLC runs that check them on small instances, and TLAPS proofs for every value
of their parameters.

`PROJECT.json` maps each definition to the Go lines it models and lists the
runs, the mutants, the hazards and the theorems. All paths below are relative to
the repository.

## 1. The system

### Parts, state and interactions

| Part | Source | State | Operations | Model |
|---|---|---|---|---|
| Quota ledger | `engine/quota.go`, `internal/statsstore/quota.go` | used and durable bytes per rule and period, the flush guard, pending and error flags, `quota-state.json` | reserve, finish (refund), runFlush, SaveExact, load | `QuotaLedger` |
| Rate limiter | `engine/traffic_control.go` | token bucket, FIFO queue of waiters, a turn channel each | wait, cancel, popHeadLocked | `RateLimiter` |
| TCP runner | `engine/tcp.go` | connections, slots, the two copy loops and the idle timer of each | accept, dial, relay, half-close, idle close, Stop | `TCPRunner` |
| UDP runner | `engine/udp.go` | session map, upload queue and byte account per session | read loop, uploader, reader of the target, idle sweep, removeSession, Stop | `UDPRunner` |
| Session and connection budgets | `engine/limits.go` | active and limit | tryAcquire, release, SetUDPMaxSessions | `SessionBudget` (abstract), `UDPRunner`, `TCPRunner` |
| DNS resolver | `dnsresolver/resolver.go` | cooldown per source | lookup, failover | `DNSResolver` |
| Rule manager, statistics collector | `engine/manager.go`, `engine/stats.go` | running rules and their runner sets; counters and metadata | Start, Restart, Stop, Remove, StopAll, ApplySnapshot, transaction with Commit and Rollback | `RuleManager` |
| Configuration store | `controlapi/config_store.go` | the YAML file, its revision, a staged temporary file | load, Stage, Commit, Discard | `ConfigStore` |
| Bot manager | `bot/manager.go` | current bot, generation, its goroutine | Apply, Stop, Running | `BotManager` |
| Control API | `controlapi/server.go`, `config_management.go`, `config_bot.go` | reloadMu, degraded flag, start-up baseline | PUT rules, PUT bot, reload, bot start and stop | `ControlPlane` |
| MCP write tools, bot commands | `internal/mcpserver/tools_write.go`, `bot/handler.go` | calls under way, questions in the chat | upsert, delete, enable; /stop, /start_rule, /toggle and their buttons | `ManagementClients` |
| Terminal interface | `tui/model.go`, `management.go`, `bot_editor.go`, `editor.go` | snapshots shown, draft, precheck, bot form, requests under way | refresh, edit, precheck, apply, reload, save, rebase | `TUI` |
| Tunnel | `tunnel/` | session registry, remote listeners, pending opens, UDP peers | hello, open, data connection, reconnect, reload, stopAll | `TunnelServer` |
| Certificate store | `certstore/store.go`, `internal/certpath` | metadata and manual certificates in memory, `certs.json`, key and certificate files | Import, Delete, Obtain, recordACMECert, Load | `CertStore` |
| Daemon, statistics store | `cmd/vmflow/main.go`, `internal/statsstore` | process phase, flusher, `stats.json` | start, flush, shut down, be killed | `Daemon` |
| Native service | `internal/service` | unit, plist or service entry; loaded definition; process | Install, Start, Uninstall and their rollbacks | `NativeService` |
| Host commands | `cmd/vmflow/init*.go`, `internal/uninstaller`, `internal/updater`, `internal/clientconfig`, `tui/service_recovery.go` | configuration, marker, profile, binary, cache | init, service, update, uninstall, recovery screen | `HostLifecycle` |
| Parsing, ACME, metrics, translations, relay commands | the rest | | | not modelled (section 7) |

How they interact: a TCP connection or a UDP session takes a slot of its budget,
waits on the limiter of its rule and direction, reserves quota bytes, writes, and
gives back what it did not write; it records what it wrote in the collector. The
rule manager starts and stops the runners and, in a transaction, undoes what it
did. The control API stages a configuration file, has the manager apply its rules,
and commits or undoes both; its clients work on copies they read earlier and send
the revision of the copy back. Shutdown stops the rules and saves the exact quota
counts and the statistics. The host commands change what the service manager runs.

### What is hard

- **Quota.** Bytes are granted before the file that records them is saved. A
  watermark (used plus a chunk) is saved in the background by a single flusher
  outside the mutex; saves fail, the process crashes, the calendar turns between
  a reservation and its refund, the clock goes backwards.
- **Limiter.** The turn is handed on by closing a channel from two places (paying
  and cancelling) while the next waiter may be cancelled too: a second close
  panics, a missing one blocks everyone behind.
- **Runners.** Several goroutines look at one session or connection, the idle timers
  with values that others change; each ending must give its slot back once; Stop
  races connections being accepted and dialled; an old session's goroutine may end
  after its client has opened another under the same address. Lookups cut off by
  Stop must not count against the name servers other rules use.
- **Manager.** A batch moves rules between ports, fails in the middle, and has to
  be undone while other programs take ports and traffic goes on being counted.
- **Control plane and its clients.** File, rules, session limit and bot are four
  stores changed one after the other, each step of which can fail, with an editor
  writing the file and a power loss between rename and directory sync. Clients hold
  old copies, give up waiting for a PUT that goes on, and press buttons of questions
  asked long ago. In the terminal interface answers arrive in any order.
- **Tunnel.** A client reconnects while its old session still ends; a reload, a
  replacement, a read loop and the shutdown all stop listeners; the open timeout
  races the data connection.
- **Files of several steps.** A certificate is a key, a certificate and metadata; an
  installation is a profile, a configuration, a marker, a service definition and
  commands to a service manager. Any step fails, any failure is rolled back, and
  the rollback can fail as well.

## 2. Modules and their correspondence to the code

Each module abstracts payloads, names and messages to model values or small
numbers and keeps the control flow: what is a critical section of a mutex, a
system call, a channel operation or a call of the store in the code is one action.

**`QuotaLedger`** has one action per critical section of `QuotaLedger.mu` or call
of the store. `reserve` is split where it releases the mutex: `ReserveGrant` and
`ReserveDeny` (gate down), `ReserveRetry` (gate up, cooldown over: the caller
flushes itself and comes back in `RetriedGrant` or `RetriedDeny`),
`ReserveFailBusy` (another goroutine is saving). A reserve that fails and changes
nothing is no step. `Finish` is the reservation's finish with any number of bytes
written. `runFlush` is `FlushSnapshot`, `FlushSaved` or `FlushFailed`, and
`FlushDrained`; a failed save may or may not have replaced the file, since the
directory sync comes after the rename. `BeginStop`, `ConnExit` and `SaveExact` are
the shutdown, `Crash` and `Restart` lose memory and read the file back. Days and
months are numbers, ordered like the calendar strings of the code; `MonthOf` is any
monotone calendar. `wire` records what was really forwarded, `lossy` that the
process once ended with unsaved bytes, which the code accepts by design.

**`RateLimiter`**: a call of `wait` enqueues, waits for its turn channel, looks at
its context, polls the bucket and sleeps, with `leave` for `cancel` and `popHead`
for `popHeadLocked`. `closes` counts the closings of each channel. Tokens are
whole units, and the timer may fire early, on time or late.

**`SessionBudget`** is the abstract specification of a budget: the holders of its
slots, whose number an acquisition never brings over the limit, each slot released
by its holder once. `UDPRunner` (all rules, a limit that moves) and `TCPRunner` (one
rule) implement it; their `ImplementsBudget` instantiates it with a refinement mapping
from open sessions and connections in their goroutine.

**`UDPRunner`**: `loop` is the read loop inside `handlePacket`, `up` and `down` the
two goroutines of a session, `sweep` the idle sweep, `phase` the progress of Stop.
`mu` says who holds `runner.mu` over more than one step: the read loop while it
dials, and the sweep, which reads `queuedBytes` and `lastSeen` of each session in
two steps. `Account` and `Push` are separate because the byte account and the queue
are. Runners share `active` and `limit`.

**`TCPRunner`** and **`DNSResolver`**: the accept loop reserves a slot and starts the
goroutine of a connection, which dials through the resolver's ordered sources, tracks
itself, and selects between its two copy directions, the context and the idle timer.
A query ends in its own step, with what its error does not tell (`reply`: an answer, a
failure, or cut off by Stop); the look at the context that decides whether the server is put
into cooldown comes after it. A direction reads, waits for the limiter or the quota with
`pend` raised, writes and half-closes. Stop cancels, closes the listener, closes what it finds tracked, and waits.

**`RuleManager`**: `applyMu` serialises the operations, so `mode` is the operation in
progress. Starting a runner set binds one socket per step, so that other programs
(`PortTaken`, `PortReleased`) and `Traffic` come between. A failed restart starts
the old rule again; a transaction keeps a journal that `Rollback`, or the failure of
an item, undoes backwards before the collector is restored.

**`ConfigStore`, `BotManager`, `ControlPlane`**: the first two are libraries of
actions over their own variables, the third composes them. `reloadMu` admits one
operation, `job`, with the document it read, the one it wants and the runtime it
found. A PUT goes through stage, apply, second look, rename and directory sync; each
may fail, and the failure branch contains all the undoing the handler does. The rule
manager appears by the outcomes of its transaction: applied, rolled back, or rolled
back with failures (`Mixed`). The editor writes at any step, and `Restart` is a stop
of the daemon or a power loss that takes back an unsynced rename. `StartupApply` is the
start's own Apply of the bot settings: the daemon serves before it, and it neither takes
`reloadMu` nor reads the file again (`booting` holds the settings the start read). The ghost
`overtaken` says that the bot it put in place is not the one expected by then.

**`ManagementClients`** composes `ControlPlane` with the clients that change one rule:
`calls` are the MCP calls and button presses under way, `puts` the PUTs sent and not
yet served (a call that was given up leaves its PUT behind), `asked` the questions of
the chat, which survive the daemon.

**`TUI`** is the terminal interface's event loop: one action per message or key that
touches the daemon, requests as goroutines with a snapshot of what they send, and the
refresh barrier. `epoch` counts the changes of the configuration, which the interface
does not see.

**`TunnelServer`**: a hello brings its own list of tunnels (`Specs`). Its registration is
split where the code releases the registry's mutex: `FindPrevious`, `Evict` (the previous
session is taken out and its listeners collected) and `Evicted`, then one listener at a time,
then the entry. `Actors` are those that stop listeners (a replacing hello, an ended read loop,
a reload, stopAll), each with the keys it still has to stop (`work`). The ghost `overlap` says
that a hello began to listen while another session of its client, with other tunnels, had
listeners (section 5). A public connection opens, waits for its data connection or
the timeout, and is piped.

**`CertStore`**: `Import`, `Delete` and `recordACMECert` as lists of file operations,
each of which may fail and is then undone step by step; a crash leaves the files, and
`Load` reads them. Two ghosts name the domains whose certificate is lost: `torn` those whose
files or entry a partial failure or a crash left unlike the memory, `claimed` those whose
manual entry a `Load` gave to the ACME certificate of another domain.

**`Daemon`, `NativeService`, `HostLifecycle`** are three layers of one model. `Daemon`
is a process from `Launch` to `Exit`, with its periodic flusher and the last save.
`NativeService` is a transaction over service manager commands (`tx` holds the ones
left), for systemd, launchd and the Windows service manager, with the rollback each
platform has (`rollbackInstall`, and `rollbackFails` for a command of the rollback itself).
`HostLifecycle` adds the commands of the operator; init runs `profile`,
`elevate`, `save`, `install` and the restores that follow failures. `rollbackManagedConfig`
removes configuration, marker and directory one after the other: `left` is what it could not
remove, which on launchd and Windows may be the directory without any failure, because the
daemon keeps `stats.json` there; `saved` is what init reports to the operator, and `torn` that the
configuration is gone although the rollback reported an error.

The modules named **`...Proofs`** hold the theorems: `LimitProofs` about `QuotaLedger` and
`RateLimiter`, `ControlPlaneProofs` about `ControlPlane` with `ManagementClients`, `HostProofs`
about `HostLifecycle` with `Daemon` and `NativeService` and about `CertStore`, the others about
the module they are named after. The `MC` modules hold the values of constants, the
constraints and the symmetry of the runs.

## 3. Runs

| Run | Instance | Checks |
|---|---|---|
| `quota_core` | one rule, two connections, two background flushers, limit 3, chunk 2, two failing saves, two crashes or stops; fair | `SettledMeansStored`, `QuotaNeverExceeded`, `StopCompletes` |
| `quota_periods` | daily and monthly limit, four days in two months, four clock changes in either direction, one restart | `UsageExact` |
| `limiter` | three calls, requests of one and two bytes, burst two; fair | `OneTurn`, `RateBound`, `EveryCallEnds` |
| `udp` | a metered and an unmetered rule, one client, two session objects, queue of one, limit moving between one and two; fair | `SessionsExact`, `StoppedStaysEmpty`, `ImplementsBudget`, `SweepSparesBusy`, `RemovesOnlyItsOwn`, `StopEnds` |
| `tcp_runner` | two connections, one slot, two name servers; fair | `StoppedIsClean`, `ImplementsBudget`, `IdleSparesPending`, `StopSparesResolver`, `StopEnds` |
| `manager_tx` | two rules, two sockets, nine rule variants, twelve snapshots, two units of traffic | `NoListenerLeak`, `RollbackFailsOnlyIfDisturbed`, `CollectorMatchesRules`, `RollbackRestores`; deadlock |
| `control_plane` | two rules, two limits, two bot settings, two bot goroutines, one edit, two commands (an MCP caller and a chat) | `RuntimeInStep`, `AckedIsDurable`, `OneBot`, `NoLostUpdate`, `OnlyAsNamed` |
| `tui` | two rule sets, two bot fields with two values, two changes by others, three keys | `ValidatedIsPrechecked`, `NeverShowsOlder`, `SaveKeepsRemoteFields` |
| `tunnel` | two sessions of one client, one with two tunnels and one with the second of them, two public connections, one reload | `ServingHasListeners`, `NoStrayData`, `ReloadDisconnects` |
| `certs` | two domains, single and shared requests, three certificates, two failing file operations, two crashes | `MetadataMatchesFile`, `ServesAcknowledged` |
| `install` | three platforms, two service definitions, two tokens, two commands, two failures, one unit of traffic | `CleanRestartKeepsCounters`, `FailedInstallRestores`, `CredentialsTogether`, `OperatorFilesSurvive`, `BinaryOutlivesService` |
| `init_committed` | the same with one command and one failure | `CommittedKeepsProfile` is violated |

Why the bounds are enough for what each run is about:

- Two connections and two helpers give a reserve during a save, a retry during a
  save, and a second flusher that would break the guard. Limit 3 with chunk 2 has
  one full chunk, one cut by the limit, partial grants and a full quota. Two
  failures allow a retry that fails again. For any number of these the safety
  properties are proved (section 6), as they are for all the runs below.
- Four days with two kept past periods make a prune happen and make the clock come
  back to a pruned day; one byte a day and two a month suffice to see a period granted twice.
- Three waiters are a head, one behind it that is cancelled as it gets the turn, and
  one that must still be reached. The gap between polls is bounded where the bucket
  is full anyway.
- Two session objects are a session and its successor under the same key; two rules
  over a budget of one or two meet every order of the last slot. Two connections over
  one slot are one that has it and one that is refused or gets it afterwards; the
  second lookup meets the health the first one left.
- The rule variants of `manager_tx` contain renames, policy changes, a move to
  another port, swaps, a rule that needs both sockets in either order, disabled,
  invalid and duplicate rules. Two units of traffic tell a counter lost from a
  counter added twice.
- `control_plane` explores two scenarios (`Focus` in `MCControlPlane`): every operation
  and failure without single-rule commands, and commands against other PUTs, an edit
  and restarts. An edit falls before the read, between read and stage, before the
  second look, or after it; a degraded daemon is then only reloaded or restarted, and the
  start's Apply during an operation, or a restore of the bot that failed, is explored without
  edits and with one session limit. Two commands are a call and a press, two presses of one
  button, or a call after one that was given up.
- Three keys suffice to change, precheck and apply, or to save and rebase, while two
  changes by others make an answer stale and a stale one older than another.
- Two sessions of one client are a session and its replacement, or a replacement
  that is itself cut off; the third session that could replace both shows nothing
  new, because the registry only compares with the one it holds. Their lists differ and
  share a tunnel, so that a replacement takes over some listeners and drops others.
- Two failures are a failure and a failing rollback; two crashes a crash during the
  work and one during recovery; three certificates one to keep, one that fails and
  one that follows.
- Two commands are an init and an uninstall, an installation over another, or a
  command and its retry. The constraint `Topics` keeps traffic, the recovery screen
  and the update cache to explorations of their own.

The objects of the models are used once (a call, a session, a connection, a command),
so all runs but `manager_tx` reach states without successors, and deadlock is not
checked there: what must still happen is stated by the liveness properties. Symmetry
is used only in runs without liveness properties.

## 4. Fairness

Go runs every goroutine that can run, so each goroutine's steps are weakly fair, as
are the steps that system calls end: the store answers, a write has a deadline, a
read returns once its socket is closed, a timer fires. The `select` of a TCP
connection is strongly fair: an idle timer that is set again and again does not
make it miss a direction that has ended. Nothing a client, an operator or a target
does is fair: no datagram, reply, reserve or edit need happen.

## 5. What the models found

- **A late error takes the profile back** (`init_committed`, `cmd/vmflow/init.go:125`). When
  the configuration of a user init was saved and only the marker or the directory sync
  failed, `executeInit` keeps the new client profile, as `controlapi/setup_config.go:26`
  demands; its caller restores the old one all the same, because the error is not an
  `initServiceInstallError`. Configuration and profile then hold different tokens.
- **Acknowledged bot settings are replaced by the old ones** (`RunsAsAcknowledged`,
  `cmd/vmflow/main.go:370`). The daemon serves requests (lines 364-366) before it applies the
  bot settings it read at its start. A PUT of bot settings that is answered 200 in between is
  followed by that Apply: the file has the new settings, the bot runs with the old ones or is
  stopped until the next PUT, bot start or restart, and the daemon does not say degraded.
  `README.md:654` says that a save "persists to `config.yaml`, and rebuilds the bot goroutine in
  place". To see it: `control_plane.cfg` with `INVARIANT RunsAsAcknowledged` alone.
- **A restart loses an import** (`ImportsSurviveLoad`, `certstore/store.go:115`). `Load` files an
  ACME entry under every name it lists, over a manual entry read before it. After an ACME
  certificate for b and a, an import of a and a restart, memory has the ACME entry for a;
  the next operation writes `certs.json` without the manual one, and after one more restart a
  serves nothing, although its files are whole and nothing failed. Line 67 says that Load
  "reads persisted metadata and manual certificates from disk". To see it: `certs.cfg` with
  `MaxFailures = 0` and `INVARIANT ImportsSurviveLoad` alone.
- **A configuration reported as saved is gone** (`SavedIsOnDisk`,
  `cmd/vmflow/init_service.go:278`). `rollbackManagedConfig` removes the configuration first, and any
  later error, for example a directory in which the daemon left `stats.json`, counts as saved.
  The operator reads "Configuration saved: %s" (`internal/i18n/locales/en.json:118`), and the
  profile keeps a token no configuration holds. To see it: `install.cfg` with `MaxFaults = 1`,
  `MaxCommands = 1` and `PROPERTY SavedIsOnDisk` alone.
- **The end of a session stops the listeners of another** (`tunnel/server.go:305`). Two hellos of
  one client that name different tunnels can both succeed, since only the ports decide.
  `unregisterSession` collects listeners by client id and stops them by key, so the end of
  either takes those of the other down, whose client stays connected without tunnels. No document speaks of
  two sessions of one client with different tunnels; `ServingHasListeners` excepts it (`overlap`).
  To see it: drop `~overlap` from `ServingHasListeners` and run `tunnel.cfg`.
- **The gate need not lift** (`GateLifts` under `TrafficSpec`, `engine/quota.go:196`). A
  reserve that the gate rejects sets `flushPending` even while a retry is saving;
  `runFlush` clears the error only when it finds `flushPending` false, and goes round
  again otherwise. As long as rejected reserves arrive during each save, every save
  succeeds and the rule stays blocked. The comment at line 29 promises a gate "until
  one succeeds". To see it: `quota_core.cfg` with `SPECIFICATION TrafficSpec`,
  `MaxFailures = 1`, `MaxCrashes = 0` and `PROPERTY GateLifts` alone. `TrafficSpec` adds
  clients that keep sending, which makes the counterexample stronger.
- **A crash loses more than one chunk** (`CrashUndercountWithinChunk`,
  `engine/quota.go:249`). While one save is in flight further chunks are granted, so the
  loss is bounded by the duration of the save and not by "one durable chunk per rule
  and period" (line 30). To see it:
  `quota_core.cfg` with `SPECIFICATION Spec`, `Conns = {c1}`, `MaxCrashes = 1` and
  `INVARIANT CrashUndercountWithinChunk` alone.
- **A rolled back removal loses traffic** (`CountersExact`, `engine/manager.go:829`).
  The counter is restored from the value read when the transaction began; what the
  rule carried from then to its removal is missing, although the comment says the
  deleted counter's history is merged. `CountersKept` states what does hold. To see it:
  `manager_tx.cfg` with `INVARIANT CountersExact` alone.

## 6. Proofs

Each proof module extends the module it is about, with no fairness and none of the
runs' constraints: the sets of rules, connections, sessions, callers, sockets and
snapshots, the sizes, the limits and the bounds are arbitrary. Assumed of the constants
is what the code guarantees or what makes a value a value:

| Assumption | Says |
|---|---|
| `QuotaAssumption` | limits are naturals, the chunk and the requests positive, months monotone in days, connections and flushers different goroutines |
| `LimiterAssumption` | positive rate and burst, no request above the burst (`minimumTrafficBurst`) |
| `ConnAssumption` | naturals as limits; the callers of the resolver are the connections |
| `UDPAssumption` | naturals as limits, datagrams counted as at least one byte, runners are no sessions |
| `ManagerAssumption` | a rule has an id and at least one socket, none twice (`buildRunners`); a snapshot is a list of rules |
| `ClientsAssumption`, `NilAssumption` | a document maps ids to a state; tools and buttons are different callers |
| `TunnelAssumption` | each hello has a list of at least one tunnel (`tunnel/server.go:182` refuses others); the reload and the shutdown are no sessions |
| `StoreAssumption` | the domains are a list without repetition, a request is a list of at least one of them |
| `ServiceAssumption`, `TrafficAssumption` | the platform is one of the three, the bounds are naturals |
| `NoneAssumption` | only the following |

Besides, `None` (`Absent` in `CertStore`), the nil pointer of the code, is no member of the
sets whose members it stands beside. TLC evaluates all of them on every run.

The argument has the same form everywhere. The property is not inductive, so it is
strengthened by what the other variables are meanwhile; TLC checks the strengthening on
the run of the module; one lemma per action, or per conjunct and group of actions,
shows that a step keeps it; temporal logic does the rest.

**Quota ledger** (`LimitProofs`). `SettledMeansStored` says nothing while a save
runs, so `CoverInv` says where the watermarks are meanwhile: pending, or in the snapshot
being saved, or in the store. That needs `FlightInv` (one flusher, and a pending bump has
a flusher or a gate) and `WatermarkInv` (the watermark covers the usage and keeps to the
limit, in memory, in the snapshot and in the file). `QuotaNeverExceeded` follows from
`WireInv`: every forwarded byte of a retained period is counted, in memory, or while the
process is down in the file; a crash of a settled process keeps it by `CoverInv`.
`RetryInv` (a connection that flushes is inside its retry) lets a grant after a retry
preserve them. `UsageExact` has an invariant of its own, `ExactInv`: a refund is
cut at zero, so a period must count at least what is still reserved in it. That sum over
goroutines is the size of a set with one pair for each reserved byte.
Lemmas about the period maps say what a prune keeps
(`RetainedKept`, `CurrentKept`), what the two caps allow (`AllowedBound`), and what
growing the watermark gives (`GrowBound`).

**Rate limiter** (`LimitProofs`). To `QueueIsLive`, `OneTurn`, `OnlyHeadPolls` and
the types it adds `TurnInv` (a call that has not started has an open channel, needed
when it enters an empty queue) and `BucketInv` (grants and tokens together come from the
burst and the refills, from which `RateBound` follows). The heart is `LeaveFifo`:
removing any entry of the queue, and closing the next head's channel exactly when the
head left, keeps one turn at the head.

**TCP runner** (`TCPRunnerProofs`). `SocketInv` and `TrackInv` tie open and tracked sockets
to the deferred calls still ahead of a goroutine, `CountInv` the two counters to the sets
of goroutines they count: `StoppedIsClean` is what is left of them when all are gone.
`CutInv` (a query is cut off only once Stop has cancelled, and waits for its look at the
context) gives `StopSparesResolver`: the look finds the context cancelled whatever happened
since the cut. `PendInv` (pending is one ticket per waiting copy loop, and a loop that began to wait after
the timer looked has renewed the last activity) is what `IdleSparesPending` needs of a
timer that reads both values one after the other.

**UDP runners** (`UDPRunnerProofs`). `LockInv` and `TableInv` carry the uniqueness of a
client's session over a dial that holds the mutex; `HandInv` and `QueuedBytesExact` the byte
account over the uploader's steps; `SweepInv` (what the sweep found without work and
without traffic has none) the two reads of the sweep. The sum over a queue is a recursive
function: that it is the sum of its elements, and what appending and taking the head do to
it, is proved by taking the least length for which it fails (`LeastNatural`,
`PartialExists`).

**Session budget.** `RunnerImplementsBudget` and `RunnersImplementBudget` prove the
refinement of `SessionBudget`: initial states map to initial states, and each step to an
acquisition, a release, a change of the limit or a stutter. The counters are shown to be
the cardinality of the mapped set of holders, which needs that the acquiring goroutine was
none of them and the releasing one was.

**Rule manager** (`RuleManagerProofs`). `ListenInv` is `NoListenerLeak` socket by socket. A
transaction needs its journal: `JournalInv` says there is one entry for each rule changed,
with the rule that ran before; `RestInv`, that a rule without an entry runs as before.
`PortsInv` is why a rollback finds its ports free: for every prefix of the journal, the
rules that would run once the later entries are undone want different ports, none taken by
another program. An entry leaves those states as they were (`AppendThen`), undoing the
last one leads to the next of them (`DropThen`), and a busy port then contradicts
`PortsInv` (`BusyDisturbed`). `CountInv` and `BeforeInv` follow the counters that survive and
those that were dropped, from which `CollectorMatchesRules` and the last clause of
`RollbackRestores` follow. As a by-product the branch of `rollbackSteps` for a stopped rule
that runs again is shown to be dead (`UndoStoppedStep`).

**Control plane and clients** (`ControlPlaneProofs`). The theorems are about
`ClientsSpec`, the composition with the clients. While an operation is under way the
runtime is not in step, so `RulesInv`, `BotJobInv` and `ReloadInv` say for each of its stages
which of the runtime and the values remembered for the undo still agrees with the file;
`SourceInv` (the document read is the one named, and until the rename the file is that
document) gives `NoLostUpdate`, and with `PutOK` (a PUT is the document its client read with
the one change) `OnlyAsNamed`. `BotInv` ties the polling bots to the current one. The start's Apply comes in at any stage of an
operation, so what `BotJobInv` and the clause for no operation say of the running bot is said
of a bot that is not `overtaken`; the next operation that applies a bot makes it true again.

**Tunnel server** (`TunnelServerProofs`). `ServeInv` is about who may take a listener down: a
key an actor still has to stop has a listener whose session no longer counts on it, and
is for that actor alone (`WorkInv`, `WaitInv`); so what a starting or registered session counts
on is there (`HeldInv`). All of it holds until an `overlap`: before, the listeners of a client are
of sessions with the same tunnels (`Alike`), so that a session which takes one key over takes
over all, and the keys collected by client id are those of a session that is past. `FoundInv` says
that what a hello found before it released the mutex is a session. `ReloadInv` follows the sessions registered when the access list was
swapped, `DataInv` the data connection by where its goroutine is.

**Terminal interface** (`TUIProofs`). `RpcInv` (the draft does not change while the daemon
looks at it), `FetchInv` and `ShownInv` (no answer that may still be taken, nor what is
shown once the draft goes, is older than the last change heard of), `EditorInv` and `SaveOK`
(a form, and each save under way or given up, differs from its base in fields typed into).

**Daemon and host commands** (`HostProofs`). `CounterInv` says where the counters are: in a
daemon that serves or has stopped serving, or, when there is none or it has just saved, in the
file; and that a flusher with a snapshot in hand exists only while the daemon is up, which is what
stopping it before the last save is for. `HostInv` has `FilesInv` (a directory that carries a
marker, or that the init under way may claim or has made, holds nothing of the operator's, from
which `OperatorFilesSurvive` follows) and `CmdInv` (for each step of init, which of profile and
configuration hold the new token, what the restores would bring back, and what a rollback
left when it failed half way; from it `CredentialsTogether` follows, the inits whose
configuration is gone all the same (`torn`) excepted).

**Native service** (`HostProofs`). A transaction is a list of commands, so `ServiceInv` is one
statement for each list that can be left: the rests of `installSystemdUnit`'s list with what
`systemctl` has already been told (`SystemdForward`), the rests of the rollback with what
has been put back unless a problem was noted (`SystemdBack`), and the same for launchd
(`LaunchdForward`, `LaunchdBack`: what the probe reported is what launchd holds, and the old job
is still the only one) and Windows (`ScmForward`, `ScmBack`). Lemmas give head, tail and
membership of every such list, so that each step is a command at a known place; the end of
the last list is `FailedInstallRestores`. Each lemma covers a command that succeeds, that
fails before its effect, and that fails after it. `LaunchdInv` and `ScmInv` (what a manager that
holds no definition cannot be running) and `RestInv` (the same between transactions, unless a
rollback reported itself incomplete) carry the argument from one transaction to the next.
`BinaryInv` adds that an uninstallation which found no service, or removed it without an error,
goes on without a daemon, and gives `BinaryOutlivesService`. These theorems are about `HostSpec`,
the composition of all three layers, with any number of commands, faults and restarts.

**Certificate store** (`HostProofs`). `OpInv` says for every step of an operation what it has
changed in memory and what it remembers for the rollback, `PairAt` and `PairInv` the same for the
two files, `MetaInv` whether `certs.json` lists the entries in memory or those before the
operation. `ServesAcknowledged` is about a store that is up and idle; `ServeInv` is what survives
until then: for each domain neither `torn` nor `claimed`, what a restart would load (`Loads`) and
what a rollback would put back is promised. The hard part is `Load`: it reads the entries of
`certs.json` in their order, a later one winning, as the function `loadedMeta` that picks the
last of the entries that claim a domain. That a
last one exists among the indexes of a sequence is taken from `WellFoundedInduction`.

**Model-checked only:** the liveness properties (`StopCompletes`, `EveryCallEnds`,
`StopEnds`), since fairness and ENABLED are out of the prover's reach. Every invariant and every
action property of the passing runs is the subject of a theorem. `CommittedKeepsProfile`,
`RunsAsAcknowledged`, `ImportsSurviveLoad` and `SavedIsOnDisk` are false (section 5). That a rest of a list is taken in finitely many steps, so that a
transaction ends, is liveness too and not stated.

## 7. What is not modelled

- In the modelled parts: a ledger without a store; token fractions; source-address
  filters and the packet pool; the YAML merge of managed fields and file metadata;
  request decoding and the verdict of the precheck, which comes before any state
  changes; the tunnel's wire format; PEM parsing and the migration of old certificate
  names; prompts and the entry of rules in init, `--no-auth` (`cmd/vmflow/init.go:307`), and an
  elevated helper that is killed after its save, whose error counts as unsaved
  (`init_service_elevated.go:41`).
- A crash between the key and the certificate of a pair (`internal/certpath/certpath.go:178`) is a
  step of `CertStore`, but nothing is promised of the domain afterwards (`torn`): it serves nothing,
  and if it had no pair before, later imports are refused as incomplete.
- The host commands run one at a time, so a start from the recovery screen comes before or after an
  uninstallation, never in the middle of one.
- Narrower than the code, without effect on the properties: a listener fails because its
  socket is taken (`PortTaken`), which stands for any error of Listen; the idle sweep of the UDP
  runner does not begin once Stop has cancelled; the terminal interface asks for a reload
  only while it shows a configuration; systemd's `is-active` does not fail for a unit whose
  file is missing.
- Terminal interface: rendering, scrolling, filters, rates and form fields, which show
  state and change none that is shared.
- Configuration parsing, precheck, translations, directories, logging, metrics:
  sequential, without shared state.
- The HTTP proxy and HTTPS runners, the ACME manager and the certificate review are not
  part of the default build.
- The runtime facade and the relay commands are thin wrappers; the daemon uses neither.

Hazards the models do not cover are in `PROJECT.json` with the reason. Two known
windows stay outside any property: an edit between the second look and the rename,
which no call of the store can close, and the degraded flag, which a reload clears
whatever set it.

## 8. Plan

1. An abstract quota (a counter per period that never passes its limit), with
   `QuotaLedger` shown to implement it.
2. An abstract transaction (rules applied or as before), with `RuleManager` shown to
   implement the one `ControlPlane` assumes of it, and the same for an installation.
3. Liveness of a service transaction under fair commands.

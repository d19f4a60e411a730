# go-data in TLA+

go-data is a system dashboard: one Go process that reads `/proc`, `/sys` and the
Docker engine once a second, keeps a short window of snapshots in memory,
raises alarms, watches SSH logins and incoming connections, and serves all of it
over HTTP behind a login. This directory holds TLA+ modules of the parts of it
that have state or order to get wrong, TLC configurations that check them on
small instances, and TLAPS proofs of every safety property and refinement that
TLC finds to hold, for every value of the constants.

Paths and line numbers are those of the repository, without the leading `src/`.

## 1. Inventory

One goroutine runs the collection loop (`internal/app/app.go:61-72`); one more
runs for each of the Docker collector, the SSH watcher, the connection watcher
and the session purge; `net/http` adds one for each request, and
`MultiStore.Save` one for each snapshot and store. They share memory under a
mutex for each component, two SQLite tables, and three files.

| part | state it keeps | operations | what is hard | what makes it correct |
|---|---|---|---|---|
| account store, `internal/users/store.go` | tables `users`, `sessions` in SQLite, one pooled connection | Create, Update, Delete, Authenticate, VerifyPassword, CreateSession, SessionUser, DeleteSession, PurgeExpiredSessions | multi-statement transactions, failures and crashes between the statements, early returns that hold the only connection | an active admin remains; no session outlives its account; names are unique; a credential change ends sessions in the same commit; the connection always comes back |
| login limiter, `internal/auth/session.go:217-269` | a map ip+username to failures and first failure | blocked, fail, reset, a sweep | a slow bcrypt check between blocked and fail; two boundary comparisons of one window | failures are bounded; nobody is blocked without cause; a block ends, by right only |
| session server, `internal/auth/session.go`, `internal/api/handler_users.go`, `app.go:97-134` | each request's snapshot of its account | middleware, login, logout, password change, account administration, purge, seeding at start | several store calls in one handler with nothing held between; stale snapshots; restarts | the store's promises survive every interleaving; ended sessions stay ended; live ones end for a reason; an admin falls only by another's hand |
| event log, `internal/security/eventlog.go` | capped list, file rewritten whole | Append, Recent, load | death or a full disk in mid rewrite | order and cap; a death loses at most the event in hand |
| connection watcher, `internal/security/connections.go` | pairs active at the previous poll | poll, over the decoded tables | two tables read one after the other while connections change; bytes in the machine's order | who stays is noticed, and is logged again only after a gap; an entry is the socket's |
| SSH watcher, `internal/security/ssh.go` | path, inode and offset | poll: Stat, Open, Read | rotation and truncation between the system calls; reads that end inside a line | no line is replayed; lines ahead of it are reported |
| metric window, `internal/storage/{memory,multi}.go` | a Go slice of the last 300 snapshots | Save, GetAll | saves in goroutines of their own; a slice handed out and then appended to | it is a window of the last snapshots saved; what a reader holds does not change |
| history chart, `internal/api/{handler_stats,metric_lookup}.go` | none | bucket averages of a metric over the window | metrics missing from some snapshots; the last, shorter bucket | a chart has about the points asked for and loses or repeats no sample |
| uptime log, `internal/uptime/log.go` | sessions in memory and in a file | Observe once a tick | reboots, restarts, a boot time that is computed and rounded | exactly the newest session is in progress; recorded ones stay |
| alarms, `internal/alarm/alarm.go` | active alarms, published list | Evaluate, Latest | gauges that vanish, alarms that change severity | Since is the onset; the list is the snapshot's |
| Docker collector, `internal/collector/docker.go` | last counters, inspection cache, pacing, published list | refresh every few seconds | containers change between the calls of a refresh; calls fail; counters start over | rates are growth that happened, and no traffic is lost |
| container view, `docker.go`, `docker_ports.go` | none | port chips, memory without cache | ports in any order, twice, in both protocols; unsigned subtraction | chips stand for exactly the ports; memory never underflows |
| rates, `internal/collector/{net,diskio,process,system}.go` | the previous counter table | deltas each tick | devices vanish and return with counters at zero; reads fail | a compared counter never shows growth it has not had; a rate spans one reading |
| CPU usage, `internal/collector/{cpu,system}.go` | the previous `/proc/stat` lines | percentages each tick | failed reads, hotplug, iowait that decreases | what is shown is what was spent since the last good reading |
| host disks, `internal/collector/host.go` | none, read once | attribution of mounts to disks | stacked devices; two mount namespaces | a filesystem is shown under the disk it stands on, with its own bytes |
| single readings, `internal/collector/{memory,thermal,disk}.go` | the zones and mounts resolved at start | one reading a tick | figures the kernel leaves out or contradicts; zones that fail; mounts that change | the memory adds up; one zone is the CPU's; no filesystem followed is missing |
| configuration and start, `internal/config/config.go`, `app.go` | the environment, `config.json`, one `users.db` for each data directory | Load, Build, openUserStore | three sources and a legacy flag; starts that die half way; settings that change in between | who answers is protected as asked, somebody can get in, accounts are left alone |
| collection loop, `app.go:61-72`, `storage/{multi,influx}.go` | window and alarms | collect, save, evaluate, sleep | goroutines that stall or never return; restarts | alarms and charts agree; a dead database stops nothing |

Parts that are not modelled: basic authentication (a stateless comparison),
socket counts (six numbers copied out of one file), the host's hardware
identity and USB devices (read once from DMI and sysfs), the handlers that
encode what another part returns, the record types, and the web pages.

How the parts interact: the session server calls the store and the limiter; both
watchers append to an event log of their own; the loop collects, saves, observes
the uptime and evaluates the alarms, in that order, and every other call is a
read of a published copy. Apart from the session server no part waits for
another or reads what another is about to write.

## 2. Modules

| module | models | built on |
|---|---|---|
| `UserStore` | the store's methods, each one atomic: the abstract specification | |
| `UserStoreTx` | the same methods statement by statement, with failures and crashes | implements `UserStore` |
| `LimiterOps` | the limiter's three methods as functions of its table | |
| `LoginLimiter` | concurrent logins as the limiter sees them | `LimiterOps` |
| `SessionServer` | the handlers over the store and the limiter | `UserStore`, `LimiterOps`; implements `UserStore` |
| `EventLog`, `ConnWatcher`, `ProcTCP`, `SSHWatcher` | the security watchers, and the decoding of the tables one of them reads | |
| `MetricWindow` | the window of snapshots as its users see it: the abstract specification | |
| `MetricStore` | the same window with Go's slices and arrays | implements `MetricWindow` |
| `History`, `UptimeLog`, `Alarms` | what becomes of a snapshot | |
| `CollectionLoop` | the loop, its Save goroutines, InfluxDB and restarts | `MetricWindow`, `Alarms` |
| `DockerCollector`, `ContainerView`, `Rates`, `CPUUsage`, `HostDisks`, `HostReadings` | the collectors | |
| `Settings` | how the server comes up, dies half way and comes up otherwise | |
| `MCSessionServer`, `MCSecurity`, `MCMetrics`, `MCProcess` | constants for TLC | the modules above |
| `UserStore_proofs`, `UserStoreTx_proofs`, `LimiterOps_proofs`, `SessionServer_proofs` | theorems about the login | the modules named, and one another |
| `Security_proofs` | theorems about the limiter, the event log, the two watchers and the decoding of tables | `LimiterOps_proofs` |
| `Records_proofs` | theorems about the window, the uptime log and the alarms | |
| `Collectors_proofs` | theorems about Docker, ports, memory, rates, CPU, disks, single readings and charts | |
| `Process_proofs` | theorems about the start and the loop | |

`MCSessionServer` looks at `SessionServer` from two sides, chosen in the initial
state (`side`): two requests racing while the clock stands, or one at a time while
it goes on. The others put several modules side by side whose variables are
disjoint and which never call each other: `MCSecurity` the watchers and
`LoginLimiter`, `MCMetrics` the collectors and what becomes of a snapshot,
`MCProcess` the start, the loop and `UserStoreTx`. They extend all of these
modules, so that TLC evaluates their assumptions and checks the very definitions
the theorems state. A variable `part`, chosen in the initial state, says which of
them moves; the others rest in an initial state. A property of one module holds of
the side by side composition exactly if it holds of the module alone, since no
step of another touches its variables, so the product of their state spaces would
show nothing more. Where parts do interact they are composed in earnest:
`SessionServer` over `UserStore` and the limiter, `CollectionLoop` over the window
and the alarms. Every module has its own specification and can be checked by
itself (`EventLog`, `SSHWatcher`, `UptimeLog`, `DockerCollector` and
`LoginLimiter` are, for the violations below).

An operator marked *Slip* is a version of the definition after it with a mistake
somebody could make there. No specification uses one; each is kept to show that
the property named for it in `PROJECT.json` notices when it takes the
definition's place.

### How state and actions correspond to the code

* **Store.** `users` and `sessions` are the two tables as functions from id and
  token to row; `nextId` is AUTOINCREMENT; tokens are numbered in the order they
  are issued, because 32 random bytes do not repeat. A user name stands for its
  class modulo case (`COLLATE NOCASE`), a password for its hash. One action per
  method that writes. In `UserStoreTx` a caller's `tx` holds the statement it
  runs next and its uncommitted rows; `ConnectionFree` is `SetMaxOpenConns(1)`,
  `Reject` and `StatementFails` are the early returns through the deferred
  rollback, `Crash` is the process dying.
* **Server.** `req[r]` is what a handler keeps in local variables between two
  calls: the pair it is logging in, the account a password was checked for, or
  the middleware's snapshot (token, account, role). Each store or limiter call is
  one action. `Restart` empties requests and limiter and runs `openUserStore`.
* **Limiter.** An entry's first-failure time is kept as its age, capped just past
  the window, so time needs no bound.
* **Watchers.** Each system call of a poll or of a rewrite is one action; the
  kernel's tables, the logger and logrotate act in between. Event and line
  texts are numbers in order of occurrence. The logger writes a line whole or in
  two parts; where it was cut decides which of the parts `parseSSHLine` would
  take for an event. In `ProcTCP` an address is its bytes, printed by the kernel
  in words of four, last byte first, and a line is four fields.
* **Window.** Slices are `[arr, lo, len]` onto arrays that others may share, and
  `append` writes in place or moves to an array with any spare capacity, as the
  Go runtime may. `MetricWindow` has no slices; the refinement maps a slice to
  what it shows and a reader's slice to what it showed when it was handed out.
* **Loop.** `Collect`, `SpawnSaves`, `Evaluate`, `Publish` and `Sleep` are the
  statements of `app.go:61-72` in order; `SaveRuns` is the window's goroutine and
  `InfluxAnswers` the other, which nothing makes happen. Requests only read, so
  they are not actions: an invariant is what any request may find.
* **Settings.** A setting goes by the name of its environment variable and its
  text stands for itself. `Load` works out the whole `Config`; `StartCollectors`,
  `ChooseAuth`, `OpenStore` and `Seed` are the steps of `Build` between which the
  process may die (`Fatal`, `StoreFails`, `Stop`), and `Redeploy` changes the
  environment, the file or the mounts before the next start.
* **Chart.** An average is kept as its total and its count; the value of a
  metric, a selector and a snapshot is worked out by family of metrics, over the
  devices in the order they are listed. A `Snapshot` is added to the window with
  any of them missing, and not always in the order of time, since the goroutines
  that save have none.
* **Uptime.** Time is in fractions of a second, so that rounding is visible;
  `Observe` and the rename are separate, with restarts and reboots in between.
* **Alarms.** A value is its level against the two thresholds.
* **Docker.** Listing, volume fetch, each container and the swap of the published
  list are separate actions; the engine acts between them. The several counters
  of a container are one, `work`, read through the two ways the code subtracts.
* **Rates, CPU.** Counters are unsigned modulo a constant that stands for 2^64;
  a percentage is kept as the growths it is the quotient of, `UsagePct` as what
  `cpuDeltaPct` takes it for: the total less the differences of idle and iowait,
  each of which may have gone round zero.
* **Disks.** A machine is any graph of mapped devices over partitions and disks.
  In `HostReadings` a later line of `/proc/mounts` covers an earlier one on the
  same mount point, and a path that has lost its mount is a directory of the root.

## 3. Runs

| run | asks | bounds |
|---|---|---|
| `sessions` | does everything the store promises survive interleaved handlers and restarts, does the server implement the store, and do expired sessions go? | 2 requests while the clock stands, or 1 over 4 instants; 2 accounts, 2 passwords, 2 sessions |
| `security` | what do the event log, the watchers and the limiter let through, repeat or lose? | log of 3 through 6 events; 4 connections, 2 services; tables of 2 sockets among 5 addresses; 3 lines, one of them cut, 3 files; 2 pairs, 2 requests, 2 failures to a block, window of 2 ticks |
| `metrics` | are the figures shown those of the host, and what becomes of them in the window, charts, uptime log and alarms? | 1 container, 5 ports, 2 devices, 2 cores, 6 block devices, 3 zones, 3 mounts; window of 2 with 5 snapshots and 2 readers; charts of 5 snapshots of 2 devices, each 2 later or 1 earlier than the one saved before, asked for 0 to 3 points; 4 sessions in 12 half seconds; 4 ticks of 3 gauges |
| `process` | does every start do as asked, does the loop keep its parts in step, and does the store, statement by statement, implement the atomic store and always give the connection back? | 58 environments, 4 `config.json`, 2 data directories; window of 2 with 4 snapshots, 1 restart; 2 callers, 2 names and passwords, 2 ids, 2 sessions, 2 instants |
| eight violations | see section 5 | |

Why the bounds are enough:

* Store and server: every check in the code is about one account against "some
  other" one, so two ids show each outcome; two sessions tell keeping one from
  dropping all or none; a handler races with at most one other at the moment it
  matters, and the proofs cover any number. No update in `process`
  promotes or sets the first password again, which differs from another call
  only in a value nothing depends on; `sessions` takes all updates.
* Limiter: the sweep is reached with two pairs (10000 in the code) and a block
  with two failures (5): one that does not block and one that does.
* Event log: six appends overflow a log of three and then rewrite it entirely.
* Connections: two from one address to an explicit port, in the table read last;
  one in the table read first to a port that is watched only while a service of
  the other table listens on it; one to a port only loopback listens on.
* SSH: three files are a rotation, another, and what a poll can still hold open;
  one line of three is cut, so that a whole one comes before and after it.
  `ssh_rotation` needs two files and no cut.
* Decoding: a loopback address of each kind, an IPv4 address that would be one
  backwards, the same one mapped into IPv6, and one of sixteen different bytes.
* Loop: four snapshots overflow a window of two, and a save can come two late.
* Settings: every mix of mode, legacy flag and credentials, and of each other
  setting the values its code tells apart.
* Charts: five samples for two or three points leave a shorter last bucket, fewer
  samples than points get one each, and 0 stands for the 60 the code puts in its
  place. One value is enough, since samples may be missing and a chart's totals
  then differ.
* Disks: the host and a container, each with every choice of its two mounts; a
  volume on a disk, a partition, both partitions of one disk, two disks, or
  another volume.
* Window: a full window moves through every array and both readers hold a slice
  while a third is grown into.
* Uptime: a capped log takes five boot times; half seconds are the coarsest unit
  in which a delay can carry the boot time over a rounding edge.
* Docker: every map is keyed by container and no figure of one is read for
  another, so one container shows all of it. Mountinfo: each line is handled by
  itself, so one line does; ports do interact, and five entries make a run of
  four with a repeated, a shifted, a UDP and an unpublished one among them.

Deadlock is checked except in `metrics`, `host_volumes`, `docker_cpu`,
`uptime_reboot` and `ssh_rotation`, where a clock or a number of events reaches
its bound and the model ends.

**Fairness.** `UserStoreTx`: a statement that can run returns, with a result or
an error (`database/sql` with a local file has no other outcome). `LoginLimiter`:
time passes; no request has to be served for a block to end. `SessionServer`:
the purge runs now and then, since its ticker is started with the server; no
request, and not even the clock, is fair. `SSHWatcher`: the ticker keeps polling
and system calls return. `CollectionLoop`: the loop goes on, since nothing in it
waits for anybody, and of the goroutines that wait for the window's mutex one
gets it; nothing is assumed of InfluxDB, whose writes may never return
(`influx.go:40` passes no deadline). Nothing else is assumed fair.

**What the runs show.** Safety of the store and of the server is as described in
section 1, with no exception. `RevocationAtOnce` names the one session that a
change of credentials may leave, the one the account's own password was changed
from, and `SessionsEndForAReason` the few steps that may end a live one. The
limiter lets `MaxFails + requests in flight - 1` failures through in a window, and
twice that in the worst stretch of one window, because windows do not slide.
`BlockEndsOnlyByRight` counts a window as the code does, from the first failure;
from the one that began the block it is less, which is the run `block_length`. The
event log and the uptime log survive a death at any system call; `FileIsRecent`
and `HistoryIsKept` make no claim about a disk that writes short (`whole`,
`WholeWrites`), which is a finding. `SteadyIsNoticed` is about explicit ports and
discovered ones, in either table. `LoggedAgainOnlyAfterGap` bounds the events of a
poll by the connections it may have found, which can be several of one address
(`once_per_address`). That there was a gap it claims where the connections of a
pair, and the services of a port, are in one of the two kernel tables
(`OneTable`): a connection that takes another's place in the table read already,
while the other leaves the one still to be read, is seen in neither. `NoReplay`
excludes polls that straddle a rotation (`crossed`), where the watcher opens
another file than the one it has measured. `FollowedIsReported` asks of a line cut
in its middle that it be whole before the poll begins; one that a read splits
there is lost, and one split elsewhere is still told by the half that matches.
`LoopGoesOn` shows that a database that never answers stops neither loop nor
window; its goroutines pile up, one a second. `StatsInStep` claims the order of
the window only while no save outlives a tick (`stalled`), and
`AlarmsAgreeWithWindow` claims its part without that. `ServedAsAsked` holds over
every mix of settings, starts that died between creating `users.db` and its first
account included. `BytesAreThePartitions` says of all eight ways to run the
program whether the numbers of a partition are its own: they are, except in a
container that has the host's `/` without its `/proc` (`RootAlone`), which is part
of the finding `host_volumes`. `NoTrafficIsLost` shows that stats calls that fail
delay the traffic of a container and lose none of it, while `TrafficIsReal` shows
that a restart adds none. `ChartKeepsTotal` claims the order of a chart's points
only for samples saved in order. `ReadingsAreReal` joins `MemoryAddsUp`,
`OnePrimary` and `MountsAreReported`, the last of which is about discovered
mounts: a configured list is taken as it is. `MemoryAddsUp` claims the swap only
if no more of it is free than there is, which `readMemInfo` does not check.
`FiguresAreTheGrowth` claims the idle, user and system time of the machine always,
its usage and iowait while the kernel takes no iowait back (`takenBack`), and the
single cores while, besides, none comes or goes (`replugged`): section 5 has the
reasons. `VolumesAreShown` is about devices named as sysfs names them, each
standing on one other; `OneDiskIsEnough`, about whatever stands on one disk in the
end, is the run that fails.

## 4. Proofs

Each theorem below is about the specification of one module, for every value of
its constants that satisfies the module's assumption. The assumptions say that
bounds are numbers and, beyond that:

* `StoreAssumption`: valid names and passwords are among those a client may send,
  the seed passes the store's own checks, and `Nil` is no number;
* `ProcsAssumption`, `ConnAssumption`, `WindowAssumption`, `RatesAssumption`,
  `HostAssumption`: requests, connections, readers, devices, disks and partitions
  are finitely many; the three kinds of block device have different names, none of
  them "other", and a device is mapped onto such as were there before it, never
  onto a disk and a partition of it, which the kernel refuses (`Machines`);
* `LimiterAssumption`, `EventLogAssumption`: the limits are not zero;
* `UptimeAssumption`: the clock reaches at least two ticks;
* `DockerAssumption`, `RatesAssumption`: counters are below the modulus, 2^64 in
  the code, and are not assumed to grow;
* `CPUAssumption`, `ReadingsAssumption`: three times the bound on the ticks ever
  counted, or on a kB figure, is below the modulus, so that the sums the code forms
  of them do not wrap (the differences still may);
* `ProcAssumption`: an address has 4 bytes or 16; `HistoryAssumption`: values are
  natural numbers, and no two snapshots have one time;
* `ViewAssumption`, `AlarmAssumption`, `LoopAssumption`, `SettingsAssumption`,
  `SSHAssumption`: ports, gauges, snapshots, settings and lines are of the kinds
  the code gives them.

Every proof of an invariant or an action property has the same course: a
conjunction that is inductive, checked by TLC before it was proved, one lemma or
one case for each action, and the property as a consequence. What the
conjunctions add to the properties is the reason why the code is right:

| theorems | of | the invariant, and why it is needed |
|---|---|---|
| `StoreInvariant`, `AdminRemains`, `NoOrphanSessions`, `NamesUnique` | `UserStore` | `StoreInv` is inductive and its parts are not: that `Update` leaves an active admin needs the row it merges to be a row; that a new account has no sessions yet needs ids below `nextId` |
| `TransactionsImplementStore`, `StoreSoundUnderTransactions` | `UserStoreTx` | `TxInv`: at most one transaction is open, and its rows are what its method makes of the committed ones, up to the statement it has reached (`Stage`). Nobody else can commit in between, so every statement but the last is a stutter and the commit is the whole method at once |
| `ServerInvariant`, `ServerRefinesStore`, `ServerKeepsAdmin`, `ServerRevokesAtOnce` | `SessionServer` | `ServerInv` adds the typing of what handlers carry from one call to the next; the store's next-state relation ranges over accounts and tokens only. The refinement is the identity on the store's variables. A merged row whose password differs, or whose `active` has gone down, can only come from an update for which `EndsSessions` holds (`UpdateRevokes`) |
| `EndedForGood`, `SessionsEndByRight`, `AdminsNeverFallAlone` | `SessionServer` | `HistoryInv`: the session behind a request is still its account's if it is there at all (`ReqKnows`), and a session that ended has no row, or an expired one waiting for the purge (`EndedGone`); tokens are never issued twice |
| `AttemptsAreLimited`, `NobodyBlockedForNothing`, `BlocksEndByRight` | `LoginLimiter` | `LimInv`: a pair's failures and its requests in flight together stay below the limit plus the requests there are (`InFlightBounded`), and the count of an entry is that of the failures since it began, with at most one full count left over from before (`CountsInStep`). `hist` is cumulative: the failures of a pair no older than each age |
| `FileFollowsLog` | `EventLog` | `LogInv`: the temporary file is itself a log in order, since any death may leave it and any rename may publish it |
| `SteadyConnectionsAreNoticed`, `LoggedOnce` | `ConnWatcher` | `WatchInv`: after the first table is read, what was heard and found so far covers the connections that have stayed since (`SteadyInSight`, `FirstHalfRead`), and a pair is remembered or was out of sight (`KnownOrGone`) |
| `NothingIsReplayed` | `SSHWatcher` | `SSHInv`: the files hold units in the order written (`LogsInOrder`); while no poll has straddled a rotation, all that a poll may still read is new (`AheadIsNew`), except the tail of a line whose head has told it; what it opens is what it measured (`ReadsWhatItMeasured`); and a file not yet created is empty, which makes starting over at 0 safe (`NewFilesAreEmpty`) |
| `StoreIsTheWindow` | `MetricStore` | `WindowInv`: a reader's slice in the array of `m.data` ends where `m.data` does or before it, so that append writes behind it or elsewhere |
| `NewestIsOngoing`, `SessionsAreKept` | `UptimeLog` | `UpInv`: closed sessions end in the order they are in (`EndsInOrder`), so that none is mistaken for another, and those in the file are those in memory but for the oldest, which the cap has dropped (`Shifted`) |
| `AlarmsSayWhenTheyBegan` | `Alarms` | `AlarmInv`: the map has exactly the gauges over a threshold, with their levels |
| `WindowInStep`, `AlarmsTellTheWindow` | `CollectionLoop` | `LoopInv`: which snapshots are being saved at each statement (`InPhase`, `SavedOnce`), that none is missing while nothing stalls (`WithoutGap`), and that an alarm's gauge fired in every snapshot since its Since (`AlarmRuns`) |
| `ServerIsServedAsAsked`, `StartsKeepAccounts` | `Settings` | `StartInv`: a start works with what `Load` made of settings that have not changed since, and seeds a directory only while nobody has an account in it |
| `NoBurstOfTraffic`, `AllTrafficIsTold` | `DockerCollector` | `DockerInv`: the counter of the last sample and the traffic since make up that of a container that has run all along (`BooksBalance`), and every row already made for the list to come says of its container what the property wants (`FairRow`). With it, a lemma on unsigned subtraction guarded by a comparison |
| `ChipsAreTheReport`, `MemoryNeverWraps` | `ContainerView` | `PortsInv`: `dedupePorts` keeps one port for each key; a run that `RunEnd` finds is linear in both port numbers, so that its chip expands to it. `MemoryInv` |
| `RatesAreReal`, `OneTickPerRate` | `Rates` | `RateInv`: the baseline is the table as it was read last, with one time for all of it |
| `BytesAreOfThePartition`, `VolumesFindTheirDisks` | `HostDisks` | `BytesInv`; `HostInv`, with an induction over devices in the order they were made: `Up` finds a disk exactly if the device stands on that one alone, through every level |
| `ReportsAreReal` | `HostReadings` | the property is inductive with the shape of the mount tables: the mounts resolved are those of the start, each once, and a row stands for what is on top of its mount point. The primary zone is the first of the best rank there is, whatever may be read of it |
| `UsageIsWhatWasSpent` | `CPUUsage` | `CPUInv`: the last reading and the growth since make up the counters, class by class, iowait only while none is taken back and the single cores only while none comes or goes besides (`ReadingsInStep`), and all growth together stays below the ticks there were (`WithinTicks`), so that no unsigned difference of it wraps |
| `TablesAreRead` | `ProcTCP` | `TableInv`: read now, the lines written so far would give the entries of the bound sockets written so far. Under it, `Decoded` undoes what the kernel prints, word by word, for both lengths of an address |
| `ChartsKeepTotals` | `History` | the window is one of snapshots, with no claim to their order. The rest is arithmetic: the buckets lie side by side and are as many as they should be (`Fits`), prefix sums telescope over them, and, for samples in order, an average rounded down lies between the first and the last time of its bucket |

`HistoryIsKept`, `RatesSpanOneTick` and the other action properties follow from
the same invariants, one case for each action. Recursion in a module with
theorems is a recursive function; what one computes is proved by exhibiting a
function that satisfies its equations. `Least` (a set of numbers has a least
one), `Climb` (induction up to a number, with a set for the predicate) and
`Stepwise` (a function made step by step exists) take the place of the library's
induction theorems, which need an operator as parameter.

Only model-checked: liveness, which is `ConnectionComesBack`, `ExpiredArePurged`,
`BlockEnds`, `FollowedIsReported` and `LoopGoesOn`. TLAPS does neither fairness nor
ENABLED. All other properties of the passing runs, 35 of 40, are stated by a
theorem of this section.

## 5. Where the code does not do what is said of it

Runs that end in a violation:

* `session_old_password`: `login` authenticates and opens the session in two
  calls (`session.go:136,145`). A password change in between ends the sessions
  there are, and the login then opens one on the old password, which lives its
  full week. `store.go:161-163` says the change takes effect at once.
* `event_log_short_write`: `persist` ignores the errors of its writes and renames
  a short file over the good one (`eventlog.go:96-98`). `uptime/log.go:133` does
  the same.
* `ssh_rotation`: a poll between the rename and the re-creation of the log forgets
  the path (`ssh.go:75`); `resolvePath` then starts at the end of the new file,
  whose first lines are lost (`ssh.go:23-25` says it is read from the start).
* `uptime_reboot`: the boot time is the tick's time less an uptime read later,
  rounded to a second; near half a second it flips with the duration of the
  collection and opens a session without a reboot (`log.go:32-33` denies it).
* `docker_cpu`: CPU counters are subtracted as `uint64`, so the check for a
  negative difference (`docker.go:211`) never sees one, and a restarted container
  shows an enormous CPU rate once.
* `block_length`: `blocked` counts its window from the first of the five failures
  (`session.go:237`), so a block that begins late in it lasts what is left of it,
  not the 15 minutes of `README.md:154-155`.
* `once_per_address`: a poll compares what it finds with the poll before and not
  with what it has found already (`connections.go:103`), so two connections of one
  address that it sees for the first time are two events; `README.md:301-303` says
  one for each address.
* `host_volumes`, by any of three causes. A volume mounted by its `/dev/mapper` name
  is looked up in sysfs under that name, where it is not, and appears under no disk
  (`host.go:300`; `host.go:292-294` says LVM volumes are resolved): the trace of the
  run. A volume on two partitions of one disk has two slaves and appears under
  none, although it stands on that disk alone (`host.go:301`; `host.go:294-295,302`
  speak of disks): the trace with `Nodes = {"sysfs"}` and `Setups <- MCOnHost` in
  `HostVolumes.cfg`. In a container with the host's `/` but its own `/proc`, mount
  points of the one are looked up in the other, and a partition is shown with
  another directory's bytes (`host.go:341`; `host.go:325-329` would rather show
  nothing, and `README.md:100-101` lets any mount be dropped): the trace with
  `Nodes = {"sysfs"}` alone.

Noticed while modelling, without a run of their own:

* Failures late in one limiter window and early in the next are not added up
  (`session.go:219`).
* Save goroutines are not ordered, so after a stall an older snapshot can be
  appended last and served as the latest (`multi.go:19`, `handler_stats.go:9`).
* A closed uptime session ends at the first tick after the reboot, so it includes
  the downtime and overlaps the next one (`log.go:32,73`).
* A port range published for TCP and UDP is not collapsed, since ports are sorted
  by port before protocol (`docker_ports.go:26,35-36`).
* A reused process id is skipped only while the new process has fewer ticks
  (`process.go:60-61`).
* iowait may decrease and cores may go offline; both wrap an unsigned difference
  for a tick (`cpu.go:65`, `system.go:81`). The first takes the headline `UsagePct`
  along, and the alarm on it (`cpu.go:68`).
* `swapUsed` is an unsigned difference nobody guards, unlike the ones around it
  (`memory.go:56-58`); a container's `/proc/meminfo` with more swap free than there
  is would make it enormous.
* Packet, error and drop counters and disk sectors have no check for a counter
  that started over (`net.go:72`, `diskio.go:70-72`).
* `resolveDiskMounts` says that "/" is always included (`disk.go:72-73`); a
  configured list without it is not completed, and then neither InfluxDB
  (`influx.go:24`) nor the default disk chart (`metric_lookup.go:48`) finds a disk.
* Mounts are resolved once: when a filesystem is unmounted its row goes on with
  the figures of the one below it (`system.go:33`, `disk.go:85-93`).
* A boolean that `strconv` does not know (`AUTH_ENABLED=yes`) and an empty list
  fall back to the file or the default without a word (`config.go`).
* The I/O time of a disk wraps at 2^32 milliseconds and is subtracted unchecked,
  which makes one enormous latency, and an alarm of it (`diskio.go:72,82`).
* Addresses are decoded as a little-endian kernel prints them
  (`connections.go:163-174`); on a big-endian one each word would come out reversed.

## 6. Plan

Done: the store, its transactions, the limiter and the server first, since the
login is what the rest hides behind; then the watchers, the window, the
collectors, the settings and the loop; then the proofs of section 4.

Left, should the code grow that way: the socket counts and the hardware identity,
once they keep something between two readings; and a theorem on
`OneDiskIsEnough` in place of the run that fails, once volumes are followed down
to their disks by the name sysfs has for them and through every slave.

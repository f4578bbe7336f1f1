# A TLA+ model of the Linux parental-controls toolkit

The toolkit is a server (`server/src`, TypeScript on SQLite) that keeps screen
time policies for supervised users and enforces them on Linux clients over SSH;
a browser front end (`server/frontend/src`: the admin console and the child's
`/app` page); and a client side (`client/`): an installer, a root-owned bridge
that holds the server's event stream, and per-user agents that warn the child
and close applications. These modules model the parts of all three that run
concurrently, fail and retry, and the policy algorithms in between. TLC checks
them on small instances; TLAPS proves the most important invariants of the queue, the
policy push, the nudges, the SSH pool, the policy store, the enforcement loop, the
telemetry pull, the logins, the event stream, the AdGuard supervisor, the mirror, the
purge and the data volume for every value of the constants.

Paths below are relative to `server/src` unless they start with `client/`,
`frontend/` (for `server/frontend/src/`) or `scripts/`.

## 1. Inventory

| Component | State | Operations | Interacts with |
|---|---|---|---|
| Offline transport queue (`transport/queue`) | table `transport_queue`: one row per (client, coalesce key), pending or failed; the drainer's snapshot | `enqueue`, `updateActionPayload`, `markDrained`, `recordAttempt`, `markFailed`; `pushOrEnqueue`; a cron tick that probes and drains client by client | called by policy push and time-today; executors use the SSH transport |
| Policy push (`transport/policy-push`) | executors in flight; what `timekpra` was last told | route handlers commit and dispatch; executor reads the store, resolves, runs one SSH setter after the other | queue, SSH, policy store and resolution |
| Time today (`transport/time-today`) | queued nudges with a date and a resolved target | online nudge; replay: expire, read the remaining time, persist the target, set it | queue, SSH, timekpr on the client |
| SSH transport (`transport/ssh`) | pool key -> connection; channels; timers; forwards | `exec`, `dispose`, `disposeAll`, `withPortForward` | everything that reaches a client |
| Policy store (`policy/repository.ts`, `policy/schema.ts`, `api/policy`) | users, clients, links, groups, activities, six rule tables, notification policies | one route per write, cascades, reorder; derives push commands | policy push, resolution |
| Policy resolution (`policy/resolve.ts` and neighbours, `transport/timekpr`) | none: functions of the store, the zone and the clock | windows, precedence, group inheritance, quotas, weekly grid, next transition, preview, allowed hours | policy push, status and preview routes |
| Enforcement (`enforcement`) | last-fired stamps, pending grace timers | pass = pull, then sweep; decide; dispatch to all clients | telemetry, event stream, SSH |
| Telemetry pull (`enforcement/telemetry-consumer.ts`, `transport/activitywatch`) | cursor in memory and on the client row; `usage_samples`; the tunnel's sockets and channels | forward, query, normalise, clip, insert | SSH port forward, aw-server |
| Event stream (`events`) and client bridge (`client/agent/src/bridge`) | sockets, hub registry, `clients.update_required`, heartbeat flags, `seq`; reconnect timer, attached agents | handshake, publish, ping/pong, close; connect, reconnect, relay | enforcement publishes; agents |
| Client agent (`client/agent/src/agent`) | countdowns and timers by activity; cached budgets, threshold trackers, socket buffer | `begin`, `forceCloseNow`, `cancel`, `stop`; tick, warnings, grants | aw-server, bridge |
| DNS filtering (`transport/adguard`, `api/dns`) | the AdGuard Home child process, binary and sentinel on disk, health; AdGuard's clients and user rules | bootstrap, restart with back-off, stop, probe; plan, reconcile, compose, apply | policy store, AdGuard's REST API |
| Ansible plans and re-apply (`transport/ansible`, `transport/reapply`) | what is installed on each client; per-client back-off | plan, run playbook, hourly pass | policy store, SSH |
| Timekpr mirror (`transport/timekpr-mirror`) | package files, sentinel, back-off | daily and boot-time refresh | Launchpad |
| Client health (`transport/health`, `api/clients`) | `last_seen`, check columns, probes under way | list under limit and deadline, single check, version verdict | SSH |
| Auth and integrations (`auth`, `api/app`, `integrations`) | limiter windows, PIN hashes, sessions, tokens | login, PIN change, session use, mint and revoke | policy store |
| Retention (`retention`, `policy/purge.ts`) | overrides, rows with an end | set and clear, run in batches, preview; roll-ups | the store |
| Audit trail (`transport/audit`) | one row per remote command | record, page, filter | SSH transport, console |
| Boot, set-up, backup (`main.ts`, `setup`, `scripts/pct-data-backup.sh`) | database and sidecars, keys, venv, snapshots, archives | boot, migrate, snapshot, prune, install, back up, restore | all of the server |
| Enrolment and installation (`client/install-client.sh`) | files of the machine; tokens and clients in the dashboard | the installer's steps, the exchange | policy store |
| Admin console and child's page (`frontend/`) | arrays, flags, selections, shared resources, set-up gate; caches of the service worker | handlers up to and after their await; poll, login, logout; install, activate, fetch | the API |
| HTTP plumbing, DTO schemas, layout | none | | |

What is hard in this code, and where the properties aim:

* **Un-serialised awaits.** Pushes are fire-and-forget, the drainer works on
  snapshots, agents and views run handlers without waiting, hashes and probes
  are awaited between a check and a write: at every `await` another actor may
  change what was just read.
* **Failure half way.** A push is several SSH commands, a blocklist several REST
  calls, an installer and a restore many writes; each may be cut.
* **Ambiguous timeouts and replay.** A command may have taken effect although it
  timed out, and it is replayed.
* **Crash and restart.** Promises, timers, cool-downs and the pool are volatile;
  the queue, the cursor, the policy, sentinels and the data volume are not.
* **Late events.** A closed connection's events arrive after its successor was
  pooled; a hello races its timeout; an answer reaches a view that has moved on.
* **Edges.** Rules that touch or nest, midnights that are skipped or repeated, a
  zone changed inside a window, samples that straddle a cutoff, minute 60.

`PROJECT.json` lists these as hazards, each at the line where it bites.

## 2. Modules

A module is the state of one component as variables, one action per operation or
per stretch of code between two awaits, and its properties at the end. Operators
marked `Mutant` are altered copies of the operator that follows; no specification
uses them. They record which plausible bug each property is known to catch.

| Module | Models | Composition |
|---|---|---|
| `QueueStore` | the repository functions on `transport_queue`, as operators on sets of rows | used by the next three |
| `OfflineQueue` | facade, scheduler and drainer, with un-serialised pushes, client deletion, crashes | extends `QueueStore`, implements `Mailbox` |
| `Mailbox` | the promise: one mailbox per target | abstract specification |
| `PolicyPush` | what the queue carries: routes, executor, setters, the client's limits | extends `QueueStore` |
| `TimeToday` | the same-day nudge, online and replayed | extends `QueueStore` |
| `SshPool` | pool and command execution | |
| `StoreTables`, `PolicyStore` | the tables and repository writes; every mutating policy route | the second extends the first |
| `Schedules`, `Resolution` | local time, precedence and windows; quotas, push, preview and `timekpra`'s effect; all of it against a running clock | the second extends the first |
| `Enforcement` | pass, decision, cool-down, grace timers, fan-out | |
| `Telemetry`, `TelemetryTunnel` | cursor, window, clipping, transaction; one client's turn: forward, queries, normaliser | |
| `EventStream` | server socket, hub, heartbeat **and** the bridge at the other end | composes two components |
| `AgentForceClose`, `AgentCadence` | the force-close controller; ticks, trackers, grants and the framed socket | |
| `AdGuardSupervisor`, `DnsBlocklist` | process, binary and health; plan and REST calls | |
| `Provision`, `TimekprMirror`, `ClientHealth`, `Access`, `Retention`, `AuditTrail` | as in the inventory | |
| `DataVolume`, `ClientInstall` | boots, upgrades, backups and restores; the installer and its exchange | |
| `ListView`, `AdminViews` | the behaviour of a list view; the sixteen views of the console as descriptors of it | |
| `PreviewPane`, `NotificationsPane`, `CommandPanes`, `AdminShell`, `ChildApp` | the panes, the page around them, the child's page with its service worker | |
| `MCServices`, `MCEdges`, `MCLive` | instances of the components that share no state, side by side | see below |
| `MCPolicyStore`, `MCResolution` | instances of one module | extend it |
| `OfflineQueueProofs`, `PolicyStoreProofs`, `SshPoolProofs` | theorems of one module | each extends that module and TLAPS |
| `PolicyPushProofs` | theorems of push and nudges | extends `PolicyPush`, instantiates `TimeToday` |
| `EnforcementProofs` | theorems of enforcement and the telemetry pull | extends `Enforcement`, instantiates `Telemetry` |
| `LiveProofs`, `ServicesProofs`, `EdgesProofs` | theorems of the components `MCLive`, `MCServices` and `MCEdges` instantiate | extend those modules |

`MCServices`, `MCEdges` and `MCLive` put several components that share no state
into one run. A behaviour is about one of them, named by `focus`. They declare the
variables of all of them, those of the others than `focus` staying `Null`, and their
parameters as CONSTANTS, so that theorems can be stated of a component within the
run's own specification (the list views and the notification pane, which are only
model-checked, have their values in the INSTANCE).
Each component's state space is explored in full and none is multiplied by another's.

### OfflineQueue

`rows` and `nextId` are the table and its AUTOINCREMENT counter; `pushes` are the
online executor calls awaiting an answer; `todo` and `batch` are the tick's
remaining clients and `drainClient`'s remaining snapshot, whose oldest row is
being executed; `hung` says that the call the tick awaits will never settle
(`DrainHangs`; `ssh_hang` shows that it may not), after which croner's `protect`
skips every tick until a restart. `Push` is `pushOrEnqueue` up to its await, and `PushDelivered`,
`PushDeferred`, `PushRejected` are the three ways it ends (`isRetriable`). A
command that times out is retriable like an unreachable host, so a push may be
deferred, and a drain stopped, on a client that is up.
`ProbeUp` takes the snapshot and starts the first executor;
`DrainSucceeds`/`DrainDeferred`/`DrainDeadLetters` finish one and start the next.
A push is its sequence number, so "newest payload" is visible in the state.
History variables: `owed` (the client may lack this push), `settled`, `raced`
(coalesced onto a row the drainer was executing).

`Mailbox` has no rows, ids or snapshots: a box per target that holds at most the
last action put there, and a server that empties, or marks as failed, only a box
it is serving. `ImplementsMailbox` maps the table to the boxes; a reused id, an
upsert that inserts, or a delete that hits another target's row would be a step
no mailbox can take.

### PolicyPush

One supervised user, so a client has at most one row. An executor is a record
with the payload it started on, the account and values it read then, and the
setters it has still to call. Any setter may fail retriably, the client being
reachable or not; that a command which timed out takes effect later, after the next
one, is left out. A null limit calls no setter, as in
`applyResolvedPush`; an unlink carries the account name in its payload because
the link row is gone. `limits` is what each account on each client was last told.
Route handlers are atomic: they are synchronous up to the dispatch. One action,
`EditPolicy`, stands for every route that changes the effective policy and then
pushes; what makes up that policy is outside the module.

### TimeToday

`Ask` .. `OnlineFailed` are `adjustTimeToday` around its await, with the effect
on the client (`OnlineLands`) separate from the answer, so a command may take
effect and still time out. `DrainStart` .. `DrainDeadLetters` are the replay.
The child's use of the time is left out: remaining time changes by nudges and at
midnight. `disturbed` collects what happened today that may spoil the sum.

### SshPool

`conn` is a connection's life as ssh2's events tell it, `pool` is `#connections`,
`call` the exec calls with the await they are at, their channel and outcome.
Eviction is by key, from `error`, `close` and an unreachable outcome, whichever
connection the key maps to by then. `GoesSilent` is a peer that stops answering
while TCP stays up. External: what ssh2 does with packets.

### StoreTables and PolicyStore

A database is a record of tables; the six rule tables are one set whose rows name
their table and owner. Repository writes are operators from a database to the
next one, with the cascades of the schema; every mutating route is an action that
checks (404, 400), writes (409 on a unique index) and hands over the push
commands it derives. Rule targets have no foreign key, so a deleted activity
leaves rules behind; `born` is a history field that tells a target from a later
one with its id. `policyInputs` is what the executor reads about one user,
`enforced` what it makes of it: the difference `ChangesPushedButFor` is about.

### Schedules, Resolution

A day is six ticks in two hours, a week two days, a month four: enough for every
carry. A zone is an offset that changes once, at any tick. `Resolution` has few
steps (the clock, edits, pushes, zone changes) and its properties compare what
the operators of the code compute with independent definitions: the first rule
that is on at this instant, the ticks an account may use, the window that
contains now.

### Enforcement

Time is relative: for each target the module keeps the age of its last-fired
stamp, capped at the cool-down. `PassStart` pins the instant, `Sweep` decides
with the ages at that instant however long the pull took and stamps with it.
`failed` are users whose evaluation threw. Quotas are inputs (`QuotaChanges`), and
a target may be among a user's quotas or not (`NoQuota`): a stamp is forgotten when
the target is seen under its quota, not when it is not seen. A grace timer fires at
any time after it was set. A job closes its clients one after the other; each close
reaches the agent, falls back to `pkill`, fails, or never settles (`CloseHangs`),
and then the clients left in the job are never reached. An audit write never throws
(`transport/audit/sink.ts`), so it cannot end a fan-out.

### Telemetry and TelemetryTunnel

In `Telemetry` time is cut into units; the log says who used the client in each.
ActivityWatch returns whole runs of use that meet the window; `ClipToWindow` cuts
them. `PullDone` is the transaction with both writes followed by the in-memory
cursor, with no await in between; a crash reloads the cursor from its column.
`TelemetryTunnel` is one pull in detail: sockets and channels of the forward,
whose `forwardOut` may call back after the close, the two queries, and the
normaliser on events that overlap, abut, straddle the window or do not parse,
with two ticks to the second so that rounding shows.

### EventStream

A socket has a server end and a bridge end that learn of its end separately, and
a network path that may die under both. `First` is the set of opening messages:
a hello with the force-close capability, without it, with an old protocol, and
garbage. `BridgeConnects` includes the authentication, which reads
`update_required`; the flag is used when the hello arrives. Assumed: one bridge
per client token. The bridge in the repository does not send a hello yet
(`client/agent/src/bridge/ws-client.ts:23`) while the server refuses a connection
without one; the model lets the bridge send any opening message or none.

### AgentForceClose

A run is one call of `#start` that passed the in-flight check. Timers look up the
countdown by activity when they fire, so one run's interval may count down
another's. `Resolved` covers a `resolvePids` that found processes; with the
resolver shipped today it finds none, which is `ResolvedNone`.

### AgentCadence

The tick asks aw-server and compares; its interval does not wait for it. A grant
changes the cached total between the query and its reading. Frames arrive in
pieces; a socket that drops loses its partial frame. `told` records what each
tracker announced.

### AdGuardSupervisor and DnsBlocklist

The supervisor's awaits are acquisition, back-off and stop; the container may die
at any of them and the disk (binary, whether it is whole, sentinel) survives.
`DnsBlocklist` runs two applies, each REST call a step that may fail with or
without effect, against edits of the policy and by the household, which changes
lines of its own and takes managed clients off the global settings.

### Provision, TimekprMirror, ClientHealth, Access, Retention, AuditTrail

`Provision` computes e2guardian and AppArmor plans with the two weekday
numberings and runs the hourly pass. `TimekprMirror` has the boot's own tick
beside the scheduled one. `ClientHealth` has runners under a limit, a deadline
that answers while probes go on, and versions compared by precedence; where an
`EXCEPT` stands inside another its old value is written out, since the prover takes
an inner `@` for the outer path. `Access`
splits each login and PIN change at its hash; a hash is taken to be injective.
`Retention` counts half seconds, since the columns hold whole ones. `AuditTrail`
includes the view that pages through it while rows are added.

### DataVolume and ClientInstall

Both are scripts meant to be run again after being cut anywhere. `DataVolume`
keeps of the database its schema, its changes and the key its clients trust.
`VACUUM INTO` may be cut or fail half way and leave a torn file that counts as a
snapshot when older ones are pruned; the private key's file may be left empty, which
the transports read as no key and the key generation takes for one. A key file is a
few hundred bytes and is taken to be written whole or left empty; `migrate` is a
transaction; the archive and the restored files are whole or absent.
`ClientInstall` keeps of each file what a later run can tell about it.

### The front end

A handler runs up to its await when clicked and the rest when its answer comes;
answers come in any order or not at all. `ListView` is that behaviour once;
`AdminViews` says per view which flag a handler holds, what it does with its
answer and which flags disable a control. `stale` names the crossings that may
leave a list behind. `CommandPanes` has both ends of an apply of the DNS blocklist:
the page, and the route's handler cut at its awaits into the plan, the read of the
rules and their write, any number of them at a time and under no lock (which REST
calls these are is `DnsBlocklist`'s subject). `AdminShell` has the set-up gate and
the shared resources, and a sign-out button that stays enabled while it is answered,
`ChildApp` two deployments of the page, the caches of their service workers and
PIN sessions of two children.

## 3. Runs

| Run | Shows |
|---|---|
| `queue` | the table is one mailbox per target; the drainer deletes or dead-letters only the row it executed; a push is lost only if it was coalesced onto a row under execution; a client that comes back and stays, and whose commands cease to time out, is drained past poison rows, other clients (whatever theirs do) and a crash, unless a call of the drainer never settles |
| `queue_dropped` (violation) | without that exception: `markDrained` deletes a row whose payload was replaced during the await, against "a missed push is queued, never silently dropped" |
| `push_race` (violation) | two edits in quick succession interleave their setters and the older one may come last, against "the latest wins" |
| `ssh` | the pool hands out no dead connection; a call settles once; calls sharing a session all settle |
| `ssh_hang` (violation) | the exec timer starts when the channel opens, so a peer that never answers the channel request blocks the caller, against "exec is time-boxed by default" |
| `enforce` | one timer per target; the cool-down holds through failures; an exhausted target is closed again and again, on all clients but those left behind a close that never settles or cut off by a crash |
| `resolve` | the grid is the first matching rule at every instant, the announced transition is exact, a shadowed rule never decides; a push leaves exactly what was resolved; the preview hides no change; quotas, grants and windows are right across zone changes |
| `hours_refused` (violation) | a window starting inside an hour and running past it becomes `H[mm-60]`, which the formatter refuses, so the hours never reach the client |
| `store` | no dangling or misdirected row after any three requests; what a request changes for an account is pushed |
| `services` | push and nudges converge; usage is counted once; blocks are the policy's; purge, mirror, access and data volume are sound |
| `edges` | console, child's page, installer and health list are sound with answers in any order and cuts anywhere |
| `live` | stream, supervisor and agent are sound and keep going; nothing wedges, lingers or goes unreported |

A run-level name such as `VolumeSound` is the conjunction of the properties its
component states and comments one by one (`ClientsTrustServerKey`,
`MigrationCanBeUndone`, `NoForeignSidecar`, ...).

### The exceptions the properties name

Several properties hold with an exception, which is itself information about the
code. Dropping any of them makes TLC find a counterexample.

* `DroppedOnlyIfRaced`: `raced`, see `queue_dropped`.
* `EventuallyDrained`: a client that flaps for ever; one whose commands fail
  retriably for ever (`PoisonCannotWedge`, below); a drainer that awaits a call that never
  settles (`ssh_hang`), which stops every client's queue.
* `FanOutComplete`: the clients of a job behind one whose close never settles, or not
  reached before a crash; timers and jobs are in memory. The next decision, a
  cool-down later, starts another fan-out (`EnforcedAgain`). So a hang does what
  `enforcement/force-close.ts:180-183` says a failure must not, "abort the rest of
  the fan-out", for the reason `ssh_hang` shows.
* `PushConverges`: clients on which two executors overlapped (`push_race`), one was
  reported as failed, or one was running online when the server died; accounts
  linked again since the unlink, whose queued name the relink's push overwrites
  (`transport/policy-push/executor.ts:127`). For nudges: a `=` nudge; a reported
  failure; an online `+N` that took effect and timed out, which is applied again;
  an online nudge while a queued one holds a target from an older reading;
  overlapping nudges one of which met no time left, since what is cut off at zero
  depends on their order; work left over from another day (`targetDate` is taken after the await,
  `transport/time-today/adjust.ts:188`).
* `SettlesUnlessSilent`: a silent peer (`ssh_hang`), and calls awaiting the `ready`
  of a connection that was disposed of.
* `AgentSound`: grants that arrive while `#start` awaits its toast or `#forceClose`
  its pids, and activities with two runs; ticks that straddle midnight.
* `CooldownHolds`: a pass that saw the target under quota or its user
  unsupervised, and a restart; both forget the stamp by design.
* `UsageCounted`: links that change between a use and its pull (a shared client's
  cursor waits, so shared time goes to the user left); a channel that opened late
  after a failed query.
* `ChangesPushedButFor`: group membership, deleting a group, reordering, deleting a
  user, and repointing a link push nothing that reaches the account.
* `PushExact`: a refused grid, and a week closed throughout, which sends no hours.
* `WindowsTile`, `QuotaSound`: zones that skip local midnight behind UTC or repeat
  it ahead of UTC, where the two-pass conversion takes the later offset.
* `BlocksSound`: a household edit between an apply's read and its write; applies
  that overlap.
* `AccessSound`: two PIN requests that overlap: the earlier may be stored last.
* `MirrorSound`: a package cut short while its own older sentinel stood.
* `InstallSound`: a cut between changing `timekpr.conf` and restarting the daemon
  (the next run finds the file unchanged); a stamp of a version before a cut
  change of version; a row deleted since, or one whose reply was lost. A 409 about a
  missing user, taken for "already enrolled", is not among them: the proof showed that
  it completes only on credentials stored before.
* `VolumeSound`: a volume a cut restore left behind, or one restored from a backup
  taken of such a volume; a clock that ran backwards between snapshots; the boot that
  generated the key; an image changed while the venv stood between two versions. The
  second half of the first exception, and that a failed migration counts as the one to
  be undone, came out of the proof: without them the statement is false two
  archives or one more boot beyond what the run explores.
* `ViewsSound`, `PanesSound`: the crossings listed in `stale`, `mixed`,
  `broken` and `crossed`: a load crossing a change, an older answer after a newer
  one, a selection or filter moved under a request, a lost answer; and an apply of
  the blocklist that overlapped another, whose older plan may be written last
  (`alone`).
* `ShellSound`: a poll, a load or the answer to a second sign-out that outlives its
  login (`late`).

### Statements of the repository the model refutes

Besides the four violation runs, these definitions state a sentence of the
repository and are not invariants of the code; they stand in their modules and no
run checks them.

* `OfflineQueue!PoisonCannotWedge` (`drainer.ts:19`): what fails for good is
  dead-lettered "so one poison action can't wedge the queue head", but a command that
  times out is retriable (`types.ts:90`) although "the host is reachable"
  (`transport/ssh/exec-buffer.ts:131`): one that times out each time stays at the head
  of a client that answers its probe, without a cap, and nothing behind it is tried.
* `EventStream!DeadPeerSurfaced` (`client/agent/src/bridge/ws-client.ts:13`): a
  bridge whose path died silently is never told; it has no timer of its own.
* `PolicyStore!EveryChangeIsPushed` (`docs/architecture.md:274`): see
  `ChangesPushedButFor`.
* `Resolution!PreviewExact` (`preview-routes.ts:6`): a removed limit is listed but
  calls no setter.
* `ClientHealth!ProbesBounded` (`health-service.ts:186`): after the deadline the
  probes go on and another list starts its own.
* `TelemetryTunnel!ClosedWhenSettled` (`port-forward.ts:13`): the late channel.
* `ClientInstall!AlreadyEnrolledIsSo` (`install-client.sh:447`): the 409 may be about
  a missing user.
* `AgentCadence!LastFiguresKept` (`usage.ts:13`): an outage reads as no use.
* `DataVolume!StubOnlyWithoutKey` (`docs/architecture.md:303`): the boot that
  generates the key has read it before.
* `AdGuardSupervisor!DeclaredTransitions` (`lifecycle.ts:39`),
  `AdminShell!NeverPinned` (`SetupProgressScreen.svelte:16`),
  `AdminShell!DroppedAtLogout` (`resources.svelte.ts:39`),
  `ChildApp!NetworkFirst` (`service-worker.ts:16`; the shell is precached, so it is
  served cache-first).

### Bounds

* `queue`: two clients, two keys, three pushes, one crash. Two clients are needed
  for the tick to move on, two keys for a snapshot of more than one row, three
  pushes for a coalesced row, a raced one and a bystander.
* `ssh`: two hosts, two connections, three calls: a shared session, an eviction, a
  reconnection and a call on the old session.
* `enforce`: one user and target (the maps are per user and target), two clients,
  cool-down two, one crash; a quota is any pair of 0 or 1 consumed and 0, 1 or 2
  allowed, which is exhausted in every way and left in every way.
* `resolve`: two own rules, a group rule and two exceptions in every combination
  that overlaps, touches or nests; five own policies with three group layers and
  grants; offsets either side of UTC changing at any tick of the second day.
* `store`: two users of one group on two clients, rules of every table, any three
  requests, bodies with one content and one ordinal besides those stored, and any target: create, delete and create again is three.
* `services`: for the push one client, one account, two policies, three operations
  and a crash; for nudges two, with less time left at the start than one of them
  takes off, so that one is cut off at zero, one midnight, one crash; for telemetry four units;
  for the tunnel up to three window events and two idle events; for DNS three
  devices of which two share a label, two applies, two edits; for the purge two
  rows in three tables; for access two users, two requests under way; for the data
  volume two boots, one archive, two images, one snapshot kept.
* `edges`: three acts in a view (a load and two changes cross), four or five in the
  panes, enough for two applies of the blocklist that overlap;
  two logins with two sign-outs; three runs of the installer with two
  tokens and two versions; one list and one check of two clients.
* `push_race` is the push of `services` alone.
* `live`: one activity, two runs of its countdown; two ticks, one grant and one midnight
  with a budget of four minutes, whose boundaries are three, two and one; one client with
  two sockets, so that one reconnect meets the socket the server still holds; four spawns
  over three boots; two clients.

Bounds are `Max...` constants in guards. Runs whose bounds let every actor finish
say `CHECK_DEADLOCK FALSE`; `enforce` has no such end and checks for deadlock.

### Fairness

* `OfflineQueue`: the cron keeps ticking and an awaited executor or probe
  answers unless it hangs. `SshPool` shows where the second comes from (the ready and
  exec timeouts) and `ssh_hang` where it fails. Nothing is assumed of the network.
* `SshPool`: a connection attempt settles (ssh2's ready timeout); a session that
  answers or died answers a channel request; the timeout ends an open channel.
* `AgentForceClose`: timers fire; toasts, sounds and pid lookups return.
* `EventStream`: timers fire, a closed socket emits `close`, bytes on a working
  path arrive. Nothing makes the bridge speak, answer or reconnect.
* `AdGuardSupervisor`: the health poller's interval fires and its request answers
  or times out. Nothing makes the child start, stay up or exit.
* `ClientHealth`: runners take the next client, the deadline's timer fires, a
  probe times out. Nothing makes a client answer.
* `Enforcement`: passes keep starting, timers fire, each awaited close ends or is one that
  never will (`CloseHangs`), and database
  reads do not fail on every pass from some point on (strong fairness of the
  sweep without failures).

## 4. Proofs

`OfflineQueueProofs` proves, for every set of clients and keys and all bounds,
`TypeOK` (`TypeCorrect`), `OneRowPerTarget` (`Coalescing`), `SnapshotIdsStable` with
`DeadLettersNotReplayed` (`DrainActsOnItsOwnRow`), and `DroppedOnlyIfRaced`
(`LossIsConfined`). None is inductive alone. The invariant `IInv` adds `IdsIdentify`
(ids are unique in the table and in the snapshot, and below the counter: without
AUTOINCREMENT a deleted client's id could be reused while the snapshot is being
drained) and `ChangedIsRaced` (a row whose payload is no longer the snapshot's was
raced), which is what bounds the loss in `markDrained`. Lemmas about the
`QueueStore` operators come first, then one lemma per action.

It also proves that `OfflineQueue` implements `Mailbox` (`QueueIsMailbox`: `Spec =>
ImplementsMailbox`). Lemmas about `Kept` say what an upsert, a delete by id, a dead
letter by id and a cascade do to what the table keeps for a target; the ones by id
need that the row with the executing id is the row of the executing target, and the
other way round (`ExecutingOwnId`). That takes, beyond `IInv`, the invariant
`SnapshotCovers`: a snapshot has one row per target and the row is still in the
table while its client is enrolled. Then each action is one action of `Mailbox`, and
`Tick`, `ProbeDown` and `Flip` are stutters.

`PolicyPushProofs` proves that a linked client with nothing under way has the stored
policy in force (`PushConverges`) and that an account whose link was deleted ends
unrestricted (`UnlinkFrees`), unless executors overlapped or one gave up, for any
number of clients, accounts, edits, offline spells and crashes. The invariant: such
a client has at most one executor (`OneExec`); the row a drainer's executor stands
for is still pending as it was read (`RowHeld`), so a failure or a crash leaves
something to replay; and that executor read the store as it is, and has either
called a setter or still has it to call (`CurrentOn`, and `Freeing` for an account
to be freed). The policy is seen through the settings it sends, so a policy is any
function from setters to values.

Its second half proves of `TimeToday` that `TypeOK` holds (the time left is never
negative, whatever is subtracted; `TimeTodayTypes`) and `ReplaySameTarget`
(`ReplayIdempotent`). A nudge's coalesce key is its own, so nothing is ever upserted
onto its row (`OwnKey`); the executor works on the row as it stands, and sends only
a target that is in it (`Held`); and since ids are not handed out again, what was
issued under an id is what its row says (`Persisted`). This is the order
`executor.ts` depends on: persist the target, then send it.

`PolicyStoreProofs` proves `StoreSound` for any starting database that is well
formed and any bodies. `Consistent` and `TargetsMean` are not inductive: that no
later row takes over a dangling target's id needs that every id in use *and every id
a rule still names* lies below its table's AUTOINCREMENT counter (`IdsBelowNext`,
`TargetsBelowNext`), and the cascades need to know the columns they select by
(`Columns`). One lemma says what each kind of write preserves, one what the routes
under each resource do. The module then proves the action property
`ChangesPushedButFor`: a user's policy is a function of the rows `policyInputs`
names (`InputsRead`), so a write to the rules of one owner moves that user or that
group's members only (`OwnerMoves`); commands for every client of those users reach
every account of theirs (`UserTold`, `MembersTold`); and the three routes that
change links are argued one by one, where the unique index on (client, OS account)
is what leaves at most the old account of a repointed link behind. It needs no
invariant but the one above.

`EnforcementProofs` proves `OneTimerPerTarget` and `CooldownHolds`, the second from
the invariant that the code's stamps equal the history of decisions, now and at the
pinned instant.

Its second half proves of `Telemetry` that no unit of use is credited twice
(`CountedOnce`), none between the first pull and the cursor is skipped (`NoneLost`)
and each goes to the user who had the session unless links changed (`RightUser`).
The invariant: the cursor in memory is the one a restart reads back (`CursorsKept`),
a client has one pull at a time, which begins where the last one ended and ends with
the pass (`PullsInTurn`), nothing at or after the cursor is credited
(`CreditedOnce`), all before it is (`Covered`), and logged use is by a linked user
(`UseByLinked`).

`SshPoolProofs` proves `TypeOK`, `NoDeadHandle` (`PoolHandlesLive`) and the action
property `OutcomeFinal` (`OutcomesFinal`). Eviction by key is safe because a pooled
connection is pooled under its own key, so the late event of an old connection can
only take a newer one out, never leave a dead one in. `OutcomeFinal` rests on
`Unsettled`: a call with an outcome is at no await, so only the `settled` guard of
`finish` is needed for channels that outlive a timeout.

`LiveProofs` proves four properties of the `live` run. `AgentIsSound` has two
halves. For the force-close: beside an unfinished run that has not overlapped no
other of its activity can act (`Solo`), so the timers, which look a countdown up by
activity, find their own; such a run is at its toast, in the map with exactly one
thing to do (a countdown, a lookup of pids, a pending SIGKILL), or out of it with
nothing left to do unless it was at an await or `stop` came (`OnCourse`), which is
why a grant that finds it in the map ends it (`Spared`). For the warnings: the last
boundary the tracker remembers is the least it told (`Tracked`), a tick knows no
more use of its day than there was (`UseKnown`), and the frames on the wire follow
those applied (`FramesFollow`). `StreamIsSound`: the bridge has at most one socket
that is not closed at its end, the newest, and a socket that has ended relays
nothing (`OneLink`); frames on their way and the events agents have seen increase
together (`InOrder`), which is what keeps a reconnect from replaying or reordering;
a socket remembers the flag it was authenticated with (`FlagAsRead`), from which the
action property `ConnectClearsFlag` follows (`StaleFlagCleared`).
`SupervisorIsSound`: acquisition, child and pending restart exclude each other
(`OneSpawner`), the spawns since a stable run are those the back-off has counted
(`Counted`), outside a write the sentinel names the binary on disk and that is whole
(`DiskKept`), and a stop that returned left no child (`Stopped`).

`ServicesProofs` proves four properties of the `services` run.

* `AccessIsSound`. The failures of a window and the verifications still awaited
  share one allowance (`Limited`), which is why the overshoot is bounded by the
  requests under way; ids are not handed out again, so a cookie or an awaited login
  of a deleted user never means another (`Named`); PIN requests for one user that
  never overlapped leave the last one stored or on its way (`Followed`); and a
  token's stamps lie in the past and in order (`Stamped`).
* `MirrorIsSound`. Failures in a row come at different instants, but for the one of
  the boot's own tick (`FewFailures`), and the sentinel of a version tells the truth
  about its file unless a crash tore that very download (`SentinelTrue`).
* `RetentionIsSound`. Each deleted row's instant lay before the cutoff of the rule
  of that time (`Deleted`), because the statements of the four categories select
  what the rule for one record does (`GoneIsSelected`); the preview's count is a sum
  over disjoint sets of rows; and a sample deleted under a rule no shorter than the
  window ended before the window began (`EndedBefore`, `WindowsKept`), a fact of
  arithmetic on stored seconds.
* `VolumeIsSound`. A volume that was not left by a cut restore has keys its clients
  trust (`Trusting`), and so has every archive and the copy a running backup holds,
  because keys are copied after the database is and are never replaced
  (`BackingUp`); a restore replaces everything before it says so (`Restoring`); a
  sidecar is the opened file's (`Sidecar`); the transports' key is the one on disk
  or the boot generated it (`Credentials`); a recorded venv is installed (`Pinned`);
  and the snapshots kept include that of the last migration (`MigrationCanBeUndone`,
  by the cardinality of the later ones).

`EdgesProofs` proves five properties of the `edges` run, over seven components.

* `InstallIsSound`. The rows are those the tokens were used for, at most one of them
  live (`RowsKept`); each part of the machine is tied to the step that sets it, so a
  run that ends well found every part done whatever an earlier run left
  (`ToolsKept`); and the credentials on disk, or on their way there, are those of
  the live row unless its reply was lost (`CredentialsFollow`).
* `ShellIsSound`. What is under way belongs to this login or to an earlier one,
  never to a login whose set-up state is still being asked for (`OfALogin`); the
  timer runs in a session only (`FlowKept`); a set-up screen without a watchdog was
  mounted on a set-up that had failed, and such a login polls nothing (`GateKept`).
  Nothing in the code keeps a poll or a load of an earlier login from being answered
  in this one, nor the answer to a second click on the enabled sign-out button: that is
  the property's `late`. On the child's page, the worker being
  installed is newer than the one in control and its cache whole once it is ready
  (`WorkersKept`); a page is served by the worker in control until a deployment
  (`PageKept`); a question about who is signed in is asked in the state it is
  answered in, one at a time (`SessionKept`).
* `PanesIsSound`. While neither a policy nor the debounce is awaited, the newest
  request, or the preview once that is answered, is of the sandbox as it stands
  (`NewestWins`). That selecting proposes nothing is arithmetic: rounding seconds to
  minutes and back loses nothing of a whole number of minutes (`WholeMinutes`). In
  the panes that act, a mount has one call of a kind under way, and reads again only
  when its push was answered (`Apart`); an adjustment carried out is shown, lost or
  on its way back (`TimeKept`, counted by cardinality); of applies that overlapped
  none is `alone`, so one that is found the rules as its predecessors left them and
  nobody wrote after it but with a newer plan, and the table read after its answer is
  newer too (`ApplyKept`, `DnsKept`).
* `HealthIsSound`. A list waits for the clients it has taken and has no entry for
  (`ListKept`), and before its deadline it waits for every probe it runs
  (`ProbeKept`), which bounds the probes; what a sighting will record is known when
  it begins, and while none overlapped no check ends between a probe's start and its
  end (`Sighted`). That `compareVersions` is an order (`VersionsAreOrdered`) holds
  since it compares two sequences of numbers by their first difference
  (`ReleaseVerdict`, `PreReleaseVerdict`) once a missing release number is read as 0
  and a missing identifier as below all.
* `AuditIsSound`. A command is running until it settles and settles once
  (`SettledOnce`); a row is a settled command's own, its only one, and missing only
  when the store refused it (`RowOfCommand`, which gives the cardinality). That no
  secret is logged is a fact about `redactArgv` alone (`Redacted`): of two arguments
  in a row the second is a value exactly when the first is a flag that is none
  (`MasksFollow`), which needs the scan's function to exist (`ConsumesExists`, by the
  least number at which it would not).

Assumptions: those stated with the constants (`ClientsAssumption`,
`NoConnAssumption`, `CooldownAssumption`, ...), which TLC evaluates in the runs,
among them `StartAssumption` (the starting database is well formed, as an empty one
is) and `BodiesAssumption` (contents are positive, names are strings). The modules
that `services` instantiates state theirs as `ConstantsOK` or a name of their own
(`AccessOK`, `MirrorOK`, `RetentionOK`), gathered in `ServicesAssumption`, in
`EdgesAssumption` for `edges`, or as a hypothesis of their theorems;
`LiveAssumption` does the same for `live`: bounds and amounts are natural numbers,
the null account, user and instant are no account, user or instant, a policy has a
value for each setter.

`MirrorOK` says of the delay that `Base * 2^f` is positive, because the provers know
no exponentiation.

Left to TLC: liveness under fairness and everything with ENABLED, which the prover
does not treat; what takes induction over data: `NudgesAddUp`, which sums over a set
(so `PushConverges` of the run, whose other half is proved), `UsageCounted` and
`BlocksSound`, whose operators filter and fold sequences of events and rules
(`CountedOnce`, `NoneLost` and `RightUser` are the provable half of the first), and
what `Resolution` and `Schedules` compute by folds over rules; and of the `edges`
run `ViewsSound`, which replays the effect of requests on sequences of rows and
entries, and compares the pages of the audit view with the log filtered and reversed.

## 5. Not modelled

* DTO schemas, serialisation, configuration parsing, logging, wording and layout:
  no state, or none a property is about.
* What timekpr, AdGuard Home, ActivityWatch, sshd, Ansible, apt and systemd do
  inside: they appear as external actions, by what the code relies on.
* The formats of archives, packages and generated configuration files.
* AF_UNIX listeners of the bridge and back-off delays, which only order what the
  models already leave unordered.
* Charts and history pages of the console, which read and render.
* The Windows client, which is planned, and deployment files.

`PROJECT.json` lists each with its reason.

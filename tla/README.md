# OneSpace in TLA+

OneSpace is a Tauri desktop application (Rust core, React front end) with an optional Python agent on a server. This
project models its core logic in TLA+, checks it with TLC on small instances and proves the most important properties
with TLAPS for every value of the constants. Paths below are relative to the repository root; `gw/` stands for
`src-tauri/src/ai_gateway/`, `ui/` for `src/components/`.

## 1. Inventory of the system

| Component | State | Operations | Talks to | What is hard |
|---|---|---|---|---|
| **AI gateway, key pool** (`gw/selection/keys.rs`, `gw/attempt_policy.rs`, `gw/daily_reset.rs`, `gw/commands/key.rs`) | per key: mark (kind, time), user intent; per request: private copy, attempted keys, one probe | sync, select, probe, mark, re-arm, clear, rotate, daily scan, re-enable | configuration file, attempt loops | requests write outcomes late, against marks others have changed |
| **AI gateway, mapping health** (`gw/selection/health.rs`, `gw/selection/probe.rs`, `RequestHealth`) | per row: auto_disabled, reason, time, failure counter; process-wide set of probed rows | count, disable, probe, re-arm, clear, settle, cancel | configuration file, attempt loops | single flight; outcomes buffered to the end of a request; stale plans |
| **AI gateway, attempt loops** (`gw/runtime_http/non_streaming.rs`, `streaming.rs`) | queues of candidates, retries, probe, fallback; waiting budget | first pass, retry, probe, fallback, rotate, give up | upstreams, key pool, health | two hand-written loops of 900 and 1200 lines for one policy; deadlines against a budget; termination |
| **AI gateway, session affinity and weighted order** (`gw/selection/session.rs`, `scheduling.rs`) | bindings of sessions to providers; current weights | resolve, settle, evict; smooth round robin | routing | concurrent requests of a session settle out of order; changing candidate sets |
| **AI gateway, model pools** (`gw/model_pools/`, `gw/pool_context_hold.rs`) | candidate cooldowns, continuation holds | plan, cool, release, admit, record | routing, attempt loops | out-of-order turns, expiring holds |
| **AI gateway, configuration store** (`gw/storage.rs`) | encrypted file, read cache, write lock | read, modify, write through a temporary file | everything in the gateway | cache identity, lost updates, failed writes |
| **AI gateway, the rest** (listener, Zen sidecar, conversions, usage log, templates, terminals) | process handles, SQL rows, files | start, stop, convert, record, synchronise | | life cycle of the listener |
| **SSH tunnels** (`src-tauri/src/ssh_tunnels/`) | desired set, start claims, running instances, stop flags, retry epoch | connect, disconnect, watchdog, supervise, reap | ssh, wake events, tray and window | four shared things under four locks; commands, watchdog and threads overlap |
| **SFTP transfers** (`src-tauri/src/sftp/transfer.rs`, `ui/quickSftp/actions/transferActions.ts`) | running child per task, partial file, card of the task | download, upload, cancel, retry, clear | ssh child processes | events and replies are not ordered; a retry shares the id of its task |
| **Updater** (`src/lib/updater.ts`, `src-tauri/src/updater.rs`) | one state, a pending update, a check in flight per transport epoch; the native update and its bytes | check, fall back, download, install, change of transport | GitHub, installer, schedulers, dialog | late replies of abandoned checks; a pending update replaced under a download |
| **Shared runtime status** (`src/lib/runtimeStatus.ts`) | per service: data, sequence, read in flight | event, read, publish | events of the Rust side, every page | a read overtaken by an event |
| **AI gateway page** (`ui/AiGateway/hooks/useAiGatewayPageData.ts`, `useAiGatewayPageActions.ts`) | configuration and status shown, three generations, two flags | full load, scoped read, broadcast, command, hide, show | gateway commands and broadcasts | which reply still counts; a broadcast during a read |
| **Cloud agent page** (`ui/CloudAgent/hooks/useCloudAgent.ts`) | selected host, its reads, spinners | select, poll, retest, deploy, act | cloud agent commands | replies of the host before |
| **Settings page** (`ui/settings/settingsContainer/`) | drafts and saved copies of every section | edit, save, reset | storage configuration, stores of the sections | one file read before a dialog and written whole after it |
| **SSH tunnels page** (`ui/sshTunnels/`) | snapshot shown, generation of its loads, one busy card, busy group, dialogs | load, command, save, broadcast | tunnel commands and broadcasts | a load overtaken by a command, a broadcast or another load |
| **Workspaces page** (`ui/Workspaces/`) | active workspace, detail, sessions, two sequence numbers | open, leave, select a tab, commands that go on | workspace commands | closures of an earlier workspace |
| **Cache diagnostics** (`tools/diagnose-deepseek-cache.mjs`) | requests in flight, bodies, predecessor, deferred reports | arrive, parse, finish, flush | a client and an upstream | a verdict waits for bodies of overlapping requests |
| **File sharing, quick tunnel** (`file_sharing/`, `tunnel/`) | the current share, its tunnel, passwords | start, stop, replace, enable public access | cloudflared | callbacks of an old tunnel arriving at a new share |
| **BLE lock** (`ble_lock/`) | presence, smoothing window, episode flags | feed, tick, manual lock | CoreBluetooth callbacks | order of callbacks and ticks |
| **Uptime and server monitor** (`uptime_monitor/`, `server_monitor/`) | per-target state, schedules | probe, alert, poll | network | flapping, stale results |
| **Remote bot** (`remote_bot/`) | supervised sessions | route, supervise | chat service, CLI | restarts |
| **Cloud agent** (`server/onespace-cloud-agent/core/`) and its desktop side (`cloud_agent/`) | plans, tasks, issues, sessions on disk | dispatch, execute, resume, report | git, CLI sessions, HTTP | crash and restart between a step and its record |
| **App store and synchronisation** (`app_store/`) | providers, projections | merge, migrate, activate | files | concurrent edits |
| Sessions, skills, subagents, MCP servers, protocol router, webhook catcher, certificates, DNS, URL tracer, the other pages | files and views | parsing, copying, display | | little concurrency |

`PROJECT.json` lists every component with what is modelled of it, and the hazards of the code, line by line.

What makes the modelled components correct:

- *key pool*: a marked key rests; a request probes at most one key; a mark is turned back only by an outcome that was under
  way when it was written;
- *mapping health*: a row has one probe at a time and is never locked out of probing by a dead request; failures are
  counted per request; a request does not disable what served it;
- *session affinity*: overlapping requests of a session agree on their first provider, a binding moves when its
  session has earned it, and the table forgets the idle and the oldest first;
- *weighted order*: a round gives every candidate its weight in turns, and no history of candidate sets piles up credit
  or starves a candidate;
- *attempt loop*: a bounded number of passes per source, waits within the budget, stages in order, a fallback queue that
  retries nothing, and an end;
- *SSH tunnels*: one thread of a tunnel works at a time, besides one about to be stopped, and a disconnect can find it; what
  the user disconnected stays down; what the user connected is not taken for disconnected;
- *updater, pages, shared status*: a reply that was overtaken changes nothing, what is shown belongs to what is selected,
  and nothing waits for a reply that will not come; a broadcast is read sooner or later;
- *settings*: a save stores the section saved, leaves the others as they were up to their normal form, and keeps their drafts;
- *SFTP transfers*: a download that fails leaves its target alone, and a failed transfer can be retried;
- *cache diagnostics*: an overlap is seen from both sides, each comparison is with the last request that was over, and
  every request is reported.

## 2. Plan

1. `KeyPool`, `MappingHealth`, `AttemptLoop` with their proofs: **done**.
2. `WeightedScheduler`, `SessionAffinity` with its proofs, and `GatewaySelection`, which composes the two: **done**.
   `PoolCooldown`, the continuation hold and the scheduler of the pools, which is a second instance of the same
   algorithm, follow.
3. `ConfigStore`: the read-modify-write of `storage.rs` against a simple atomic register, `ConfigRegister`, as its
   abstract specification, with failing writes and the cache; `KeyPool` and `MappingHealth` rest on what it promises:
   **done**.
4. The desktop: `SshTunnel`, `SftpTransfer`, `Updater`, `RuntimeStatus`, `GatewayPage`, `CloudAgentPage`, `SettingsPage`,
   `WorkspacePage`, `TunnelsPage` and `CacheObserver`, side by side with `ConfigStore` in `MCDesktop`, with the proofs of
   all of them: **done**. `FileShare` with the quick tunnel, `BleLock` and `UptimeMonitor` follow.
5. `PlanExecution` and `CloudGateway` of the cloud agent, with crashes and restarts.
6. Composition of the three gateway modules for one request, `AttemptLoop` as the abstract specification of the passes
   that `KeyPool` sees.

Abstract specifications worth stating: the atomic register of `ConfigStore` (done) and the passes of a request. Theorems worth
proving: type correctness and the safety properties of every module above (done), with bounds for the
scheduler that hold for any number of providers (done), and the safety of each module still to come.

## 3. Modules

| Module | Models |
|---|---|
| `KeyPool` | the ordered key pool of one provider and the requests that use it |
| `KeyPoolProofs` | its theorems |
| `MappingHealth` | the health of the mapping rows, buffered outcomes, half-open probes |
| `MappingHealthProofs` | its theorems |
| `AttemptLoop` | one request's way through candidates, retries, probe and fallback queue, for both transports |
| `AttemptLoopProofs` | its theorems |
| `WeightedScheduler` | the smooth weighted round robin over providers, models and protocols |
| `SessionAffinity` | the bindings of sessions to providers and the requests that use them |
| `SessionAffinityProofs` | its theorems |
| `GatewaySelection` | the two together, as `routing.rs` calls them; extends the scheduler, implements the session table |
| `GatewaySelectionProofs` | the theorems of the scheduler, alone and in the composition, and that the composition implements the session table |
| `SshTunnel` | one tunnel: its commands, its watchdog, the threads that supervise it |
| `Updater` | the updater's front end and the update its native side holds |
| `GatewayPage` | what the gateway's page reads, and which replies count |
| `RuntimeStatus` | the status of a service as all pages share it |
| `CloudAgentPage` | the selected host of the cloud agent and what is shown of it |
| `SettingsPage` | drafts, saved copies and stores of the sections, and other writers |
| `WorkspacePage` | the active workspace, its detail and sessions, and late commands |
| `TunnelsPage` | the list of the tunnels: its loads, broadcasts, commands and dialogs |
| `SftpTransfer` | one transfer task: card, commands, child, file |
| `CacheObserver` | the observing proxy of the cache diagnostics |
| `ConfigRegister` | what the configuration store promises: a register that is read and modified concurrently |
| `ConfigStore` | the configuration file, its cache and its writers; implements the register |
| `DesktopTools` | an instance of each of `SshTunnel`, `Updater`, `SftpTransfer`, `CacheObserver` and `ConfigStore` |
| `DesktopPages` | an instance of each of the six modules of the pages and of the shared status |
| `MCDesktop` | all eleven side by side |
| `DesktopToolProofs` | the theorems of the modules in `DesktopTools` |
| `DesktopPageProofs` | the theorems of the modules in `DesktopPages` |
| `DesktopProofs` | that what holds of each holds side by side |
| other `MC...` | the instances TLC checks |

Definitions named `Something_Mistake` in a module are deliberately wrong variants of the definition that follows them.
They show that the properties notice such a mistake; the specifications do not use them.

### KeyPool

`stored` is the mark of every key in the configuration file, `enabled` the user's switch, `req[r]` the private state of
a request. A request copies the provider (`Begin`), refreshes the marks (`Sync` is `sync_key_runtime_marks`; the user's
switch is not refreshed, as in the code), selects a key or the one key probe (`Select` is `select_attempt_key`, which
also clears an expired mark in the file), contacts the upstream, and writes what came of it: `Served`, `EndedUnserved`,
`ProbeFailed`, `KeyFailed`, `RateLimited`, `PassFailed`. `Exhausted` ends a pass without a key, `NextPass` begins a retry,
the half-open mapping probe or a fallback source, `Finish` stands for exhaustion and for a caller that hangs up anywhere.
Which passes refresh the marks between two keys, and which keep their set of attempted keys, differs between the two
transports and is modelled as it is (`Rotated`). `DailyScan`, `Reenable` and `Toggle` are the rest of the program.

Every write is one step because each goes through `modify_config`, which holds a process-wide lock around its
read-modify-write (`ConfigStore` shows that this is a register); writes succeed. The time a mark carries is read before that
lock is taken where `now_ts()` is an argument of the settlement (`gw/runtime_http/non_streaming.rs:180`, `:192`), so writes
may come in another order than their times: a mark is stamped with any time since its key was chosen (`Stamps`). Marks whose three stored fields disagree
(hand-edited files) are not modelled.

### MappingHealth

`rows` is the stored runtime state of each row, `active` the set behind `active_probes`, and `plan`, `held`, `out` and
`result` are the plan of a request, its probe guard and the two parts of its `RequestHealth`. `Begin` reads the plan once;
`AttemptFails` buffers a failure, and writes an immediate disable at once, as `record_failure` does; `Settle` is
`RequestHealth::apply`, in one write, the probe first; `Finish` and `Cancel` drop the future and with it the guard.
`Cancel` is possible wherever the code awaits, never between the end of the last attempt and `Settle`, which has no await
in between. `log` is history. One row stands for one identity with a provider of its own, so that the exclusion of
providers that already serve does not hide its probes.

### AttemptLoop

`queue`, `retries`, `probe` and `fallback` are the four queues of the loop, `wait` the remaining waiting budget, `cur`
the pass under way. `First`, `Retry`, `Probe`, `Fallback` and `GiveUp` are the choice of the next pass; `Contact` and
`NoKey` what a pass finds when it selects a key; `Answered`, `KeyFailed`, `RateLimited` and `Failed` the outcomes. `mode`
tells the transports apart where they differ: the buffered loop leaves its retries for good once none is ready (`over`),
schedules its first retry without asking for the setting, and rotates inside a pass; the streaming loop asks again on
every round and rotates through its queues. `slept`, `passes` and `stage` are history. Which key a pass uses is
`KeyPool`'s business and appears here as a choice; a probe guard may be denied at any time (`got`). The clock moves with
sleeps and contacts only, as nothing else in the loop takes time that matters.

### WeightedScheduler

`current` is the scheduler's map, an entry for each provider and scope (`WeightedSchedulerKey`); `providers` the
published configuration; `snap[r]` what request `r` has read of it. `Select` is `weighted_candidates`, which holds the
scheduler's lock throughout: `Accrued`, `Primary`, `Charged` and `Order` are its five steps, and a lone candidate is not
charged. `RemoveProvider` is a publication through `modify_config` with the pruning it ends in, both under the write
lock. A request reads the configuration and asks for its order in two steps, with nothing in between that would keep the
writer out. `turns` and `passed` are history. `Weigh` is the user's edit of a weight, of which the scheduler is not told: a
request that read the old weight still charges it, and entries keep what they gathered under it. Providers are
numbers because the code breaks ties by the order of their ids.

### SessionAffinity

`table` is the map of `SessionAffinityStore`, `req[r]` what the handler of a request keeps between `resolve_order` and
`settle`: its key, its order and `bound_was_eligible`. The two calls are one step each, as each holds the table's lock.
`ResolvePlain`, `ResolveBound` and `ResolveFirst` are the three exits of `resolve_order`; the order the scheduler returns
is any permutation here. `Serve` and `Fail` end a request that has contacted an upstream, `Drop` one that the client left
or that found no key. `kept`, `streak` and `answered` are history: `kept` says that the binding a request was ordered
by has not been replaced, dropped or evicted since.

### GatewaySelection

The variables of both: it extends the scheduler's module and has the table's as an instance. A selection is a step of the
two at once, because the scheduler is called inside the table's critical section, for requests of bound sessions too.
`TableSpec` says that the composition implements the session table: that the scheduler's answer, from whatever its
credits are and whichever configuration the request has read, is one of the orders the table is modelled with. `begun` is
history: the sessions bound to each provider at their first request, counted over `SessionRounds` rounds, for
`SessionsFollowWeights`.

### SshTunnel

A step is what a command does under one lock. `desired`, `claim`, `instance` and `threads[t].stop` are
`DESIRED_TUNNEL_IDS`, `TUNNEL_START_CLAIMS`, the manager's entry and the stop flag of each thread; `locked` is the
manager's lock where the watchdog's start takes another one inside it. `BeginReplacing` to `Await` are `connect_internal`
and `connect_after_claim`, `ClearDesired`, `RemoveRuntime`, `TellToStop` and `Join` are `disconnect_tunnel` (taking the entry
out and setting its thread's stop flag are two steps, as the manager's lock is released in between), `WatchdogReads` to
`MarkDesired` the watchdog; `Up`, `Backoff`, `TryAgain` and `End` are a thread in `run_supervision`, and `Panic` one that
ends without it. A command is at most one of each caller, and any number of callers may overlap. Groups, deletion,
editing, start and shutdown of the application are connects and disconnects of single tunnels. Tunnels share nothing but
the maps, so one stands for all. `wanted` (the user's last word) and `raced` are history.

### SftpTransfer

The card and the commands of one task. Each attempt is called, registers its child, streams, meets the end of its stream
and replies; `StreamEnds` leaves open whether the stream was whole unless the child was killed. Events are delivered in
the order they were sent, replies of commands at any time after their end. `file` tells the target as it was from a whole
file and a part of one; an upload writes its target from the start.

### Updater, RuntimeStatus, GatewayPage, CloudAgentPage, WorkspacePage, TunnelsPage

Each models the page's JavaScript as steps between two awaits: the call, its effect on the native side, its reply. What
is shown is the version, or the name of the host or workspace, that it was read from. A request carries, for each
sequence number or generation of the code, whether its number is the current one; raising the number clears the flag of
all requests. This loses nothing, as the code compares the numbers for equality only. Pages that count requests without
telling them apart hold them in a bag. `Updater` has both sides: the pending update of `lib/updater.ts` and the entry of
`updater.rs`, found by its id. `RuntimeStatus` has the microtask of the fallback and a page that publishes what it read
itself. `GatewayPage` names the six kinds of reads by what they carry. In `WorkspacePage` a command that has returned goes
on with the workspace of its closure (`GoesOn`), and `Effect` is the effect that reads the sessions whenever its
dependencies have changed.
`TunnelsPage` numbers the changes of the native side and knows what is shown by the set of changes it shows, since the page
adds what a dialog has saved to an older snapshot (`Saved`). A command has three outcomes (`Execute`): a change and a load, a
load only, neither; which command may have which is listed there. A command that loads is over when its load is answered, so
the load carries what the command is about. The flags of the three dialogs are one function, as each keeps its own button
off. Left out are the poll that reads the statuses of the tunnels every five seconds, the form of the editor and the group on
show. The page may be hidden at any moment, which shows only in the broadcasts it passes over (`PassOver`).

### SettingsPage

A section is a set of fields; `stored`, `saved` and `draft` give each a value, which stands for what the page's comparison
(`getTabSnapshot`) does not tell apart. `mount` is what the page was opened with: six loads (`MountReads`, `MountLands`,
`MountFails`, for `loadConfig` and the five others of `ui/settings/SettingsContainer.tsx:287`), each of which replaces the drafts
and the saved copies of its sections when it answers, while the user may already edit, save and reset. `job` is the save or
the reset under way (one at a time: the buttons wait for `loading`). Sections of the storage configuration read it, ask the
user, write all of it and read it again; sections with a store of their own write that; the gateway's section writes three
stores one after the other. What is read of the storage configuration is completed by `normalizeConfigForUi` (`Shown`, with
any conversion `Normal`), and a save writes the other sections so completed. `Written` has the two files of
`save_storage_config`, of which the second may fail after the first. `OtherReads` and `OtherWrites` are any other writer of
the configuration, in two steps as in the code. `overlapped` is history.

### CacheObserver

Requests are numbered by arrival. `Arrive` makes it and those in flight in its session peers of each other, `BodyEnds` decides whether it belongs to the observed session,
`Finish` defers its report, and whatever no longer waits for a peer's body is reported in order (`Flushed`).

### ConfigStore, ConfigRegister

`disk` is the file with its identity, `cached` the entry of `CONFIG_READ_CACHE`, `writeLock` the holder of
`CONFIG_WRITE_LOCK`, `calls[c]` where a caller is. A read is `read_config_file_shared` step by step: it looks into the
cache, takes the identity, reads the file, and keeps what it read under the identity it took before; a file of an earlier
version is migrated under the lock instead, after a second look. `BeginModify` is the read half of `modify_config`,
`Change`, `ChangeNothing` and `Refuse` the caller's closure, `Publish` and `PublishFails` the write through a temporary file,
`Store` the cache's new entry and the end of the lock. The look into the cache that `read_config` adds in front repeats
`Lookup`. `Outside` replaces the file from outside the application, `Crash` ends the application anywhere. What the file says
is the set of settings that are switched on, one for each caller, so that a lost modification shows. Identities are
numbers that only rise: two publications of the same length within one tick of the file system's clock would have the
same identity and are left out, and so are rewrites from outside in the middle of a modification, which no lock of the
application could keep apart.

`ConfigRegister` is what the comments of `modify_config` and of the cache promise: a read returns what the register has held
at some time during the read, a modification works on what it holds and takes effect at once, or fails without a trace.
`Register` maps the file to the value, and each caller to reading, modifying, failed or done; `during`, history, is the set
of values a read may return.

### MCDesktop

The eleven modules have no state in common and do not call each other: the Rust side of each has its own commands, and the
pages that read the same status do so through `RuntimeStatus`, which has its own model of such a page. `focus` names the
one that runs. A step of one leaves the enabled steps of the others as they are, and each property speaks of one module,
so exploring each with the others at their start loses nothing. `DesktopTools` and `DesktopPages` declare the variables and
instantiate the modules; the names that two modules use for different things are renamed there.

## 4. Runs

All instances but `key_pool` and `desktop` are finite without a state constraint; the bounds are in the guards. The
constraint of `desktop` (`Bounded`) keeps three requests of the cache diagnostics open at once (two when the last has
arrived), fixes the session of the first (sessions are interchangeable), and lets a thread of a tunnel panic only while at
most one command is under way. Of the settings page's first loads, those of one kind of store at most are under way once
anything has changed or another writer has read, and none at the last change; one fails only after the first change. The constraint of `key_pool` keeps two
requests that are under way together to one of each transport, in their first pass and without edits of the user; the later
passes and the edits are explored for one request at a time. The view of `desktop` keeps the variables of the module in focus, as all others are at their start, and
counts the checks, fetches, attempts, users, threads and clients in each state instead of naming them.

| Run | Instance | Result |
|---|---|---|
| `key_pool` | 2 requests, 2 keys (the second reset daily, the first switched by the user), clock to 2, three passes | `TypeOK`, `MarkedKeyRests`, `OneKeyProbe`, `MarksAdvance` hold |
| `key_pool_auth` | 2 requests, 1 key | `AuthMarksManualOnly` is violated (finding 1) |
| `mapping_health` | 2 requests, 1 row, threshold 2, clock to 2, fair | `TypeOK`, `SingleFlight`, `CountsRequests`, `ServedNeverDisables`, `GuardsFreed` hold |
| `mapping_health_recover` | 2 requests, 1 row, threshold 1 | `DisabledRowsProbeable` is violated (finding 2) |
| `attempt_loop` | both transports, 3 plans over 3 sources, 2 retries, fair | `TypeOK`, `PassBudget`, `WaitBudget`, `FallbackOnce`, `FallbackSchedulesNothing`, `BufferedInOrder`, `Ends` hold |
| `scheduler` | 2 scopes, weights 2, 1 and 1 or 2, the third provider removed, created and weighed anew | `TypeOK`, `FairShare`, `NoDrift`, `NoStarvation` hold |
| `affinity` | 2 requests, 3 sessions, 2 providers, room for 2 bindings, clock to 4 | `TypeOK`, `SameFirst`, `WithinCapacity`, `MovesAreEarned`, `IdleIsForgotten`, `OnlyOldestLost` hold |
| `selection` | 2 requests, one without a session, 2 providers, one removed and weighed anew | `TableSpec` holds |
| `selection_share` | 1 request at a time, 3 sessions, 2 providers of weight 1, 2 rounds | `SessionsFollowWeights` is violated (finding 5) |
| `desktop` | eleven modules: 2 checks, 1 download, 2 releases; 2 reads and a command of the gateway page; 2 status reads and a page; 2 hosts; 4 requests of 2 sessions; 6 fields in 4 sections; 2 commands and the watchdog over 2 threads; 2 workspaces; 2 attempts of a transfer; 2 callers of the configuration store and 2 publications; 2 tunnels, a dialog, 2 loads, 2 commands and 2 changes of the list of the tunnels | the 9 invariants and 3 action properties below hold (1.2 million states) |
| `gateway_broadcast` | 3 reads, no commands | `BroadcastsShow` is violated (finding 3) |
| `tunnel_replace` | 1 command, 2 threads | `ReplacedRuns` is violated (finding 4) |

The properties of `desktop` join those of its modules, where each is explained: `NobodyWaitsInVain` (`CheckingHasFlight`,
`NeverLockedOut`, `LoadingIsFetched`, `SpinnersStop`, `WorkspaceSpinnersStop`, `CardsEnd`, `TunnelSpinnersStop`), `OwnOnly` (`OwnHostOnly`,
`OwnWorkspaceOnly`), `ComparedRightly` (`OverlapIsSymmetric`, `ComparedWithLast`, `NothingStuck`), `TransferKept`
(`FailureKeepsFile`, `RetryOffered`), `NothingGoesBack` (`ReadsNeverGoBack` of the gateway page, `RepliesNeverGoBack` of the
shared status, `LoadsNeverGoBack` of the list of the tunnels), `UpdaterAgrees` (`OneFlight`, `PendingIsShown`), `SectionsKeepApart` (`OnlySavedIsStored`, `DraftsSurvive`),
and `OneWorks`, `DisconnectHolds` and `CacheFresh` as they are. `StoreIsRegister` says that the configuration store implements
`ConfigRegister` under the mapping `Register`; the specification of the register is `IsRegister` in `ConfigStore`, here guarded
by the focus so that TLC evaluates it on the store's steps only. History variables exclude what the code does not promise and section 5 records: a command that goes on for
another workspace (`strayed`), a tab selected twice (`idleSpin`), writers of the configuration that overlap
(`overlapped`), a disconnect inside the watchdog's start (`raced`), attempts that overlap (`disturbed`).

*Bounds.* Two requests are enough for every race here: the properties relate a request to one other writer. Time to
live 2, cooldown 1 and a day of 2 put the three boundaries at different times within a clock of 2 or 3, each reached and
passed. Threshold 2 lets a counter rise, be reset and reach the threshold; 1 is the smallest configuration in which a
single request disables a row. The waiting budget 3 with delays 1 and 4 has waits that fit once, that fit several times
and that never fit; contacts of 0 and 2 let deadlines pass meanwhile; sleeps end up to 1 late; two key rotations let a
pass rotate, and rotate again after its retry. The three plans hold each shape a plan may have: a probe with and without
a fallback queue, a fallback queue that lends its own probe, and a source that is both a candidate and a fallback
(`fallback_queue` offers a probe only when the regular stage has none, so no plan holds two).

The scheduler needs no bound: its state space is finite by itself, because credits stay bounded, and the run visits
every history of candidate sets and removals. Without removals they stay below the total weight here; with them the balance
that a removed provider leaves behind raises the bound. `NoDrift` and `NoStarvation` state bounds that section 6 proves for
every instance: with three providers, twice the total for a credit or a debt, and the way from the one to the other, with
one weight more for a request that has read a lower one, for what a candidate is passed over. One request is
enough, as a selection is one step and what a request has read may be as old as it likes. The third provider's weight moves
between those of the other two. The table is smaller than the number of sessions, so that insertion evicts; the clock passes the timeout by
more than one. Threshold 2 is the code's own.

The races of the desktop are between a request and the one that overtakes it, so two requests, hosts, workspaces and
threads are the smallest instance in which they happen; the gateway page needs three reads for finding 3, and the
updater a second release and a change of the transport. Four requests of the cache diagnostics are a
predecessor, an overlapping pair and a successor. Six fields are one section of each kind: shared profile, device file,
own store, and the gateway's three stores. Two changes, by the user or another writer, let the user edit, save and be
overtaken; the stores begin with other values than the page shows
before its loads, and the normal form of a section may differ from what is stored.
Two tunnels let a command of one end while another's is under way, and two loads and two changes let a load be
overtaken by a command and by a broadcast; at most one broadcast is on its way at a time, and no more than three loads and
commands, two once the last change is made.
Two callers and two publications let a read be overtaken by one writer and its entry met by the next, and a file be
migrated and then changed.

*Symmetry* is used in the runs without liveness properties: for requests in the key pool, for requests, sessions and
providers in the session table, and by the view of `desktop`. The modules compare these values for equality only.

*Deadlock* is checked in all runs but three. An attempt loop that is done has no further step; `Ends` says instead that it
stops nowhere else. In `desktop` and `gateway_broadcast` everything stops once the bounds on changes are used
up and all replies have come; that nobody is left waiting then is `NobodyWaitsInVain`.

*Fairness.* `MappingHealth!FairSpec` asks that a request between its arrival and its end keeps moving: each upstream
attempt has a timeout and the number of attempts is bounded. Arrivals, cancellations, the clock and the operator are
not fair. The desktop's modules state no fairness: replies may take for ever, and the properties say what holds until
then. `AttemptLoop!FairSpec` asks the same of `Loop`, again without `Hangup`. The number of key rotations is bounded
by `MaxRotations`: in the code the bound is the number of keys, because a rotation marks or remembers the key.

## 5. Findings

1. **An authentication mark can be overwritten.** `mark_key_failure` (`gw/selection/keys.rs:111`) replaces whatever mark
   a key has by now. With two requests in flight on one key, a quota failure that arrives after a 401 turns the mark into
   one that expires, where `gw/attempt_policy.rs:33` and `gw/types_config/provider.rs:97` call authentication marks
   manual-only.
2. **A disabled row can lose its probe for ever.** `register_mapping_success` (`gw/selection/health.rs:86`) resets the
   counter of a row that another request has just disabled; `find_probe_candidate_with_settings`
   (`gw/selection/probe.rs:145`) asks for that counter, so the row is never probed again. `README.md:53` promises a probe
   after the cooldown.
3. **A broadcast can be lost.** `runConfigScoped` clears `configInFlight` and `configPending` in its `finally` even when its
   read was superseded (`ui/AiGateway/hooks/useAiGatewayPageData.ts:372`). With a full load under way that began before the
   change, a broadcast that arrives in between is put off for a follow-up that nobody does, and the page shows the old
   configuration until it is hidden or reloaded. The comment at line 425 says that the page refreshes what a
   broadcast concerns.
4. **Connecting anew can end disconnected.** `connect_internal` (`src-tauri/src/ssh_tunnels/forwarding_runtime/remote_spawn.rs:409`)
   marks the tunnel desired and then waits for the thread it replaces, whose `run_supervision` clears the flag as it ends
   (`supervisor.rs:394`). `reconcile_started_tunnel_with_desired` finds the flag cleared, stops the new instance, and the
   connect returns a disconnected view without an error. The card offers Connect while a tunnel is reconnecting
   (`ui/sshTunnels/components/TunnelCard.tsx:175`), which is when this happens. `DisconnectHolds` and `OneWorks` still hold.
5. **New sessions do not follow the weights.** `resolve_order` (`gw/selection/session.rs:138`) calls the scheduler before it
   looks for a binding, so each request of a bound session takes a turn whose result the binding replaces. With two accounts
   of equal weight, and one such request between any two new sessions, all new sessions are bound to the same account. The
   architecture note `.ai-workflow/notes/implemented/architecture/2026-09-20-api-gateway-weighted-routing.md:19` says that
   sessions distribute "in exact proportion to their configured weights over time". The turns themselves are fair
   (`FairShare`).

Observations without a run of their own. Three are stated as definitions of their modules, which the code does not keep:

- *A failed probe can disable a healthy row* (`MappingHealth!ProbeOnlyRearms`). `rearm_mapping_probe_cooldown`
  (`gw/selection/health.rs:22`) sets `auto_disabled` on a row that the operator re-enabled while the probe was in flight;
  its comment says the row *stays* disabled.
- *Streaming retries may come after the probe and in the fallback stage* (`AttemptLoop!StagesInOrder`). `next_ready` is asked
  on every round (`gw/runtime_http/streaming.rs:145`), so a retry the budget refused becomes ready while a later stage takes
  its time; the comments at lines 107 and 111 exclude it. `WaitBudget`, `PassBudget` and `FallbackSchedulesNothing` hold.
- *Failed requests move bindings* (`SessionAffinity!MigratesToServing`). A request that every provider failed is settled with
  the provider of its last attempt (`gw/runtime_http/routing.rs:769`), so a session may be bound to a provider that has
  never served it, where the comments speak of the serving provider.

The others:

- *Retries switched off are not off.* With `max_retries_per_provider = 0` the buffered loop
  (`gw/runtime_http/non_streaming.rs:214`) still schedules one retry; the streaming loop does not. `PassBudget` is violated
  for `MaxRetries = 0`, which is why `ContactsAreBounded` assumes `MaxRetries >= 1`.
- *A removed provider can leave an entry with the scheduler.* `weighted_candidates` (`gw/selection/scheduling.rs:118`)
  enters whatever provider its caller names. A request that read the configuration before the removal and asks after the
  pruning brings the entry back, where two architecture notes promise fresh accounting for a reused id. `NoDrift`, `NoStarvation`
  and `FairShare` hold nevertheless.
- *A request can replace a binding it could have used.* `bound_was_eligible` (`gw/runtime_http/routing.rs:667`) is taken
  from the binding at arrival and applied to the binding at the end. When another request of the session has moved it
  meanwhile, the later one replaces it at once instead of counting a miss. `MovesAreEarned` is stated accordingly: it
  speaks of what the request had found.
- *A mark can go back in time.* `now_ts()` is read before the settlement takes the write lock
  (`gw/runtime_http/non_streaming.rs:180`, `gw/attempt_policy.rs:891`), so of two requests that fail with one key the one that
  read the clock first may write last, and the key's cooldown ends earlier than the later failure asks for. `MarksAdvance`
  says how far that goes: only by a request that was in flight with the key and has not seen the newer mark, and not to
  before it chose the key.
- *Clearing an expired mark clears what is there.* A request that chose a key through an expired mark of its private copy
  clears the key's mark in the file (`gw/attempt_policy.rs:727`), which another request may have replaced by an authentication
  mark meanwhile. `AuthMarksManualOnly` excludes this too; finding 1 shows the shorter history.
- The first buffered retry uses the default base delay instead of `retry_base_delay_ms`, and the streaming half-open
  probe rotates with an empty set of attempted keys, which relies on the mark just written being readable.
- *Configuration store.* The cache knows a file by its length and modification time (`gw/storage.rs:142`). Two
  publications of the same length within the resolution of the file system's clock look alike; a reader that took the
  identity before the second one and keeps the first under it makes the next modification work on an outdated copy.
  `ConfigStore` leaves this out.
- *SSH tunnels.* `disconnect_runtime` and `connect_internal` release the manager's lock between the removal of an entry and the
  stop flag of its thread (`remote_spawn.rs:383-389`, `:409-410`); a connect that falls in between starts a second thread while
  the first still works, until its flag is set. `OneWorks` excepts that thread. The watchdog's start asks whether the tunnel is desired and marks it desired under two locks; a disconnect
  in between is undone (`raced`). `abandon_tunnel_start` releases the claim before it clears the flag. A thread that ended
  without `Error` is not restarted by the watchdog until a refresh has reaped its entry. The reply of a connect sets
  `Connected` on whatever instance is current by then.
- *SSH tunnels page.* One place holds the busy tunnel, so the end of one card's command clears the flag of another whose
  command is under way, and its buttons are on again. A broadcast does not overtake a load that has been read before it: the
  older snapshot is shown until something else is. Nor does anything overtake the poll of the statuses. A hidden page passes
  broadcasts over and reads only the statuses when it is shown again. A deletion that is not confirmed loads the list.
- *Settings.* The configuration is read before the confirmation dialog (`save.ts:512`) and written after it, so a language
  switch or a synchronisation meanwhile is undone. When `update_shortcuts` fails after the write, the page says that the
  save failed (`save.ts:651`). A reset whose loader fails shows the defaults as if they had been saved (`loaders.ts:241`). An
  edit made before the first reply of its section is overwritten by it (`loaders.ts:150`); a first reply that is slower than a
  save shows, as saved, what was stored before the save, and a later save of that section writes it back.
- *Workspaces.* Leaving while the detail loads does not raise the sequence number, so the reply opens the workspace again.
  Selecting the tab of the sessions while it is shown starts its spinner without a read. A refresh, a save or a binding
  that returns late shows the workspace it began with. An event during a reload of the list is dropped.
- *SFTP transfers.* A late rejection of an earlier attempt shows an error on a retry that runs, and both write the same
  partial file. A rename that fails, or a local file that cannot be opened, emits no event. `sftp_cancel_transfer`
  takes the child out of the running transfers before it kills it, so a cancelled download that reads the end of the stream
  finds no child whose exit status it could check (`src-tauri/src/sftp/transfer.rs:288`), renames what it has read over the
  target and announces `completed`.

## 6. Proofs

All theorems are about the specifications TLC checks and hold for every value of the constants that satisfies the
assumption named in the module (`KeyPoolAssumption`, `MappingHealthAssumption`, `AttemptLoopAssumption`,
`SessionAffinityAssumption`, `WeightedSchedulerAssumption`, and for the desktop `DesktopAssumption`, the conjunction of the
assumptions of its eleven modules): sets of any size, any thresholds, delays and plans. What the assumptions ask for is types,
that the names for "none" are no members of the sets they stand outside of, and three things besides: providers and the requests that are selected for are finitely many, and so are the weights a provider may be edited to;
in `SettingsPage` the fields of the sections and the kinds of sections are disjoint (the conversion `Normal` may be any); in `AttemptLoop` a plan names a source
as a candidate once and does not name its probe among the candidates.

| Theorem | Statement | Argument |
|---|---|---|
| `KeyPoolProofs!TypeCorrect` | `Spec => []TypeOK` | inductive as it stands |
| `KeyPoolProofs!KeyProbeBudget` | `Spec => []OneKeyProbe` | `ProbeInv`: a request that sent a probe has `probeUsed`, and one that has not sent none |
| `KeyPoolProofs!MarksAreHonoured` | `Spec => []MarkedKeyRests` | `RestInv`: no mark lies in the future, and in every phase the private copy still respects what the last sync saw, or the key in question was attempted, or its mark had rested; what a request has seen was there when it chose its key (`InTime`) |
| `KeyPoolProofs!MarksOnlyAdvance` | `Spec => MarksAdvance` | from `RestInv`: marks lie in the past, and one that the request has seen is older than its choice of the key, hence than its stamp; the other writers stamp with the present |
| `MappingHealthProofs!TypeCorrect` | `Spec => []TypeOK` | inductive as it stands |
| `MappingHealthProofs!OneProbePerRow` | `Spec => []SingleFlight` | inductive with types and the fact that a request that may still start a probe holds no guard |
| `MappingHealthProofs!HealthCountsRequests` | `Spec => CountsRequests` | invariant that `log` and `out` agree |
| `MappingHealthProofs!ServedRowsStayUp` | `Spec => ServedNeverDisables` | same invariant, and that a probed row is not planned as a candidate |
| `AttemptLoopProofs!TypeCorrect` | `Spec => []TypeOK` | `Typed`: types, and the slot of a pass stays within the queue of retries it will be inserted into |
| `AttemptLoopProofs!ContactsAreBounded` | `MaxRetries >= 1`: `Spec => []PassBudget` | `Counted`: the candidates, the retries, the probe and the pass under way concern different sources, and the passes of each source are tied to the attempts of its retry |
| `AttemptLoopProofs!WaitsWithinBudget` | `Spec => []WaitBudget` | each sleep debits at least what it adds |
| `AttemptLoopProofs!FallbackIsFresh` | `Spec => []FallbackOnce` | from `Counted`: a contacted source is remembered |
| `AttemptLoopProofs!FallbackIsFinal` | `Spec => FallbackSchedulesNothing` | case split on the outcomes |
| `AttemptLoopProofs!BufferedStagesInOrder` | `Spec => BufferedInOrder` | `Ordered`: `over` and `active` record which stages are behind |
| `SessionAffinityProofs!TypeCorrect` | `Spec => []TypeOK` | part of `IInv` |
| `SessionAffinityProofs!TableBounded` | `Spec => []WithinCapacity` | `RoomMade`: pruning and eviction leave room for one |
| `SessionAffinityProofs!OverlapAgrees` | `Spec => []SameFirst` | `Agreement`: a request whose binding stands and was eligible has its provider in front |
| `SessionAffinityProofs!BindingsMoveWhenEarned` | `Spec => MovesAreEarned` | `MissesCounted`: an entry's misses never exceed the requests that ended elsewhere in a row |
| `SessionAffinityProofs!EvictionTakesOldest` | `Spec => OnlyOldestLost` | from `RoomMade`: whoever is evicted, the table was full of live entries |
| `SessionAffinityProofs!IdleBindingsAreForgotten` | `Spec => IdleIsForgotten` | each step that changes the table starts from what pruning leaves |
| `GatewaySelectionProofs!SchedulerTypeCorrect` | `Spec => []TypeOK` (of the scheduler) | part of `SchedulerInv` |
| `GatewaySelectionProofs!SharesAreFair` | `Spec => []FairShare` | `SchedulerInv`: in a round of `n` turns, `b[p]` of them taken by `p`, the credit of `p` is `n * weight[p] - b[p] * total`. Credits gained sum up to the total, so the first in the order has more than nothing, which says that its turn is within its share |
| `GatewaySelectionProofs!CreditsAreBounded` | `Spec => []NoDrift` | `Drifting`: what any set of providers has, or owes, together (see below) |
| `GatewaySelectionProofs!NobodyStarves` | `Spec => []NoStarvation` | `AllPatient`: what a candidate would have gained since it came first it has gained, from its deepest debt on, except with requests that had read a lower weight of it (see below) |
| `GatewaySelectionProofs!ImplementsTable` | `SelectionSpec => TableSpec` | `RankedExists`: the keys of a finite set of candidates can be put in their order, by induction over the set; so `OrderShuffles`: the scheduler's answer names every candidate once; `SchedulerInv` says that they are candidates the scope may find |
| `GatewaySelectionProofs!SharesAreFairToSessions` | `SelectionSpec => [](TypeOK /\ FairShare /\ NoDrift /\ NoStarvation)` | the lemma `GatewaySchedules` (a step of the composition is one of the scheduler, or leaves it alone), and the theorems on the scheduler |
| `DesktopProofs!DesktopTypeCorrect` | `Spec => []TypeOK` | the types of each module, inductive with the invariants below where they are not so by themselves |
| `DesktopProofs!OneTunnelWorks` | `Spec => []OneWorks` | `ClaimHeld`: only the holder of the claim is between its beginning and its reconciliation; `NoEntryYet`: until it inserts there is no entry; `WorkIsKnown`: what works is the entry, about to become it, or held by the command that is about to stop it |
| `DesktopProofs!TunnelsStayDown` | `Spec => []DisconnectHolds` | `MarksUnderLock`, `LockIsWanted`, `DesiredIsWanted`: the flag is set only for a tunnel the user wants; `WorkIsAnswered`: what works against the user's word is about to be reconciled or removed |
| `DesktopProofs!UpdaterInAgreement` | `Spec => []UpdaterAgrees` | `UpdaterInv`; `EpochsPast`: no check is of an epoch to come, so a new epoch begins without one |
| `DesktopProofs!TransfersKept` | `Spec => []TransferKept` | `TransferInv`; `OneAttempt`, `OwnChild`: undisturbed, one attempt runs, with a child of its own; `CallKept`, `LastEvent`, `EndComes`: what the card keeps of its call, and which event or reply is still to come |
| `DesktopProofs!CachesAreFresh` | `Spec => []CacheFresh` | `StoreInv`: two files of one identity say the same, whoever has read them; no entry is of a file to come; what a modification has read under the lock is still the file |
| `DesktopProofs!RegisterImplemented` | `Spec => StoreIsRegister` | `DesktopToolProofs!StoreIsARegister`: every step of the store is one of the register or none, action by action: a read takes effect at its end, within `during`; a modification when its file is renamed into place |
| `DesktopProofs!PagesShowTheirOwn` | `Spec => []OwnOnly` | `CloudAgentInv`, `WorkspaceInv`: of the requests of each kind one counts, and it is about what is selected |
| `DesktopProofs!RepliesNeverGoBack` | `Spec => NothingGoesBack` | `GatewayInv`, `RuntimeInv`, `TunnelsInv`: one read of each kind counts (`OneLive`), it began after what is shown was read (`LiveIsNewer`), and nothing shown or broadcast is of the future |
| `DesktopProofs!SectionsAreApart` | `Spec => SectionsKeepApart` | `SettingsInv`: what a save has read of the configuration is what is stored unless writers overlap (`ReadIsStored`), no draft that cannot be stored is on its way (`ValidJob`); of the steps that change a draft, those of the first loads have it due before and not after |
| `DesktopProofs!NobodyWaits` | `Spec => []NobodyWaitsInVain` | each flag of a page has, in the invariant of its module, the request that will clear it |
| `DesktopProofs!RequestsComparedRightly` | `Spec => []ComparedRightly` | `ObserverInv`: reports wait in the order in which their requests were over, the first of them for a peer under way; the predecessor at hand is the last of those reported; a request in between waits for nobody who is over |

`DesktopToolProofs` and `DesktopPageProofs` prove the same of each module by itself, from its own assumption and for the
instance in `DesktopTools` or `DesktopPages`: `AlwaysUpdaterInv`, `AlwaysTransferInv`, `AlwaysStoreInv`, `AlwaysObserverInv`,
`AlwaysGatewayInv`, `AlwaysRuntimeInv`, `AlwaysCloudAgentInv`, `AlwaysWorkspaceInv`, `AlwaysTunnelsInv` and `AlwaysSettingsInv` are the inductive
invariants. `DesktopProofs` then shows, for each, that `MCDesktop` implements its specification (`UpdaterRuns` to `ObserverRuns`),
because every step of the composition is a step of the component in focus and leaves the others where they are.

*Credits.* That one credit is bounded is not inductive: a provider passed over gains, and what keeps it from gaining for ever is
what the others have. `Drifting` speaks of all sets at once: with `n` providers that weigh at most `T` together, no `k` of
them have, or owe, more than `k * (2n - 1 - k) / 2` times `T` together, in any scope, and so none alone more than `(n - 1) * T`
(`Room`, twice the factor of `T`). A turn pays what it gives, so a set that holds whoever pays gains nothing in
sum (`SetGains`). If it does not, the members that gain have no more than the one who pays, and the bound of a smaller set
and that of the set with the payer in it leave room for the turn (`RoomIsRound`, `CreditKept`; `DebtKept` for debts, the
other way round). A removal sets one account to nothing, and the sets without it bound the rest (`RoomGrows`,
`ForgettingKeepsWithin`).

*Waiting.* A candidate that is passed over gains the weight its request has read. `Patient` ties the turns it was passed over,
at its present weight, to the credit gained and to `Spare`, the requests that may have read a lower weight or a provider
removed since: `Behind` counts those still to select, a selection ends one, and an edit or a removal, which may put
requests behind, starts the count afresh. With the bounds on the credit this is `NoStarvation`.

Sums and orders need more than first-order steps. The sums of the scheduler are folds over sets of any size. The library's
induction theorems take an operator, which the provers cannot instantiate, but its theorem on well-founded orders (`WFMin`)
takes a set: what does not hold of every subset of a finite set fails for a smallest one (`SmallestSet`, `SetInduction`), and from there come
`SumStep`, `SumTyped`, `SumRemove`, `SumScaled` and the rest of the lemmas on sums. In the same way the cache diagnostics take the first request of a
queue that still waits, and the last one that leaves a predecessor (`LeastOf`, `GreatestOf`). Requests that a page counts
without telling them apart are a bag; that one of them at most counts is said by the copies it holds (`OneRequestMore`,
`OneLoadMore`, `RaisedRequests`, `OutdatedLoads`).

The hypothesis `MaxRetries >= 1` and the restriction of `BufferedInOrder` to one transport are where the code does not
keep what it says (the observations on retries).

Only model-checked:

- the liveness properties `GuardsFreed` and `Ends`: liveness under fairness is out of the prover's reach;
- that the mistakes are noticed.

## 7. Not modelled

The relay of a stream after its first byte, the mapping of statuses and texts to failure classes, texts of diagnostics,
logging and events; what a request does after a configuration write that failed; edits of the lists of keys and rows;
how a request's session is read from its headers; of the desktop, the connection of a tunnel and its back-off
times, the bytes of a transfer, the drawing of the pages, their dialogs and forms, the switch of the gateway, the list of
workspaces; and the components that
`PROJECT.json` lists as not modelled, with the reason or the module planned for them.

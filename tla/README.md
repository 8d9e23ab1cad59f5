# RouteViewNet in TLA+

RouteViewNet is a single-host network monitor: a Go daemon (`routeviewnetd`) whose collector loops probe the
network and the machine, an alert engine that turns their observations into alerts, a SQLite database, a REST
and WebSocket API, a webhook notifier and a web dashboard. This directory holds TLA+ models of the parts of the
daemon whose correctness depends on interleavings, failures, restarts and time, the TLC configurations that check
them on small instances, and proofs of the main invariants for every instance.

## 1. Inventory

The daemon is one process. Its goroutines share the database, the event bus, the configuration store and the alert
engine; nothing but the database survives it.

| Component | State | Operations | Talks to |
|---|---|---|---|
| alert engine `engine/alerts.go` | debounce counters per rule and source, under a mutex | `Observe`, `SweepStale` | alerts table, bus, health score |
| alerts table `storage/alerts_repo.go` | alert rows, event rows | find, create, touch, resolve, list | SQLite |
| health score `engine/health_score.go` | score rows | `Recompute`, `ComputeScore` | alerts table, bus |
| stale sweep `engine/stale.go` | last tick, grace deadline | `SweepTiming`, `Tick` | alert engine |
| scheduler `scheduler/scheduler.go` | one timer per loop | nine loops, `Wait` | collectors, sweep, retention, configuration |
| event bus `engine/events.go` | subscriptions with buffers of 64 | `Subscribe`, `Unsubscribe`, `Publish` | every publisher, notifier, WebSocket handlers |
| notifier `engine/notify.go` | queue of 64, draining flag | watcher, deliverer, `Wait` | bus, configuration, the endpoint |
| daemon lifecycle `cmd/routeviewnetd/main.go` | context, open database | startup, shutdown | everything |
| configuration store `config/config.go` | live and desired document | `Get`, `Desired`, `Apply`, `Adopt` | every loop and handler |
| settings API `api/settings_handler.go` | settings row | GET and POST | store, database, logger |
| WebSocket hub `api/websocket_handler.go` | client count, one subscription per client | connect, relay, close | bus |
| collection manager `collector/manager.go` | link states, spike windows, loss windows | one cycle per loop | collectors, database, bus, alert engine |
| collectors `collector/*.go` | previous counters, hostname cache | samples and probes | `/proc`, netlink, sockets |
| storage `storage/sqlite.go`, `migrations.go`, repositories | SQLite file | open, migrate, clean up, queries | SQLite |
| API reads, dashboard, desktop shell, packaging | none in the daemon | rendering | API |

What is hard in it, and what makes each part correct:

* **Alerts.** A lookup, a counter section and a write are three separate steps of `Observe`; the sweep and other
  loops run between them; any of the calls may fail and the process may die at any point. Right means: one open
  alert per key, hysteresis in both directions, every transition announced once and in order, failures that last
  end open and recoveries end closed, and a score that agrees with the open alerts.
* **Time.** Go timers are monotonic and stop during a suspension; alert ages do not. Right means: the sweep resolves
  what nobody observes any more, and what still fails only where the code cannot tell the two apart.
* **Notifications.** Bounded buffers that drop, a slow or dead endpoint, retries, and a shutdown in the middle of it.
  Right means: order per source but for requests given up and still on their way, no silent loss, a bounded shutdown
  that ends.
* **Settings.** Two documents (live and desired), in-place decoding into shared slices, overlapping requests, failing
  saves, restarts. Right means: what was answered 200 is what a restart brings back, and nothing else becomes live.
* **Live clients.** Upgrades overlap, clients stall or vanish, the limit moves. Right means: no slot, subscription or
  goroutine outlives its handler, nobody is let in over the limit, and a handler whose client is gone ends.
* **From the network to a diagnosis.** Two loops share the primary interface and the gateway, links and routes come and
  go under them, echoes get lost one by one, and a shutdown cuts a round of checks. Right means: no alarm without a check
  that really got no answer, no alarm about a port nobody uses, and a diagnosis that settles on the layer at fault.
* **Counters.** They start over when a driver reloads, an inode is used again or the daemon restarts, and the clock that
  dates them may be set. Right means: a
  rate, and an app's total, is what really passed; what is missing has a known reason.
* **Devices.** Cached names of addresses that change hands, rows written in several statements, labels set meanwhile.
  Right means: names settle on the truth, a device is new once, and a row never loses what is known.
* **The file.** Kills, power losses, failing statements. Right means: the schema is the one its recorded version says,
  retention deletes what is expired and nothing else, and a client that pages through a list misses nothing.

## 2. Modules

| Module | Models | Composes |
|---|---|---|
| `AlertEngine` | `Observe`, `SweepStale`, `Recompute`, the rows they use, crash and restart | `AlertLifecycle` as the abstract specification it implements |
| `AlertLifecycle` | what the engine promises about one key: numbered alerts that open on evidence, one at a time, and close for good | |
| `AlertEngineProofs`, `StaleSweepProofs`, `NotifierProofs`, `SettingsProofs`, `WebSocketHubProofs`, `DevicesProofs`, `DatabaseProofs` | theorems about the module each is named for | extends it |
| `CollectorProofs` | theorems about what the collection manager runs | extends `Connectivity` (and so `Diagnosis`) and `Traffic` |
| `StaleSweep` | `SweepTiming`, `Tick`, the loops' timers, suspension, restart, hot reload | abstracts `SweepStale` to one step |
| `Notifier` | bus buffer, watcher, queue, deliverer, publishing loops, shutdown of `run()` | abstracts `Observe` to "commit, then publish" |
| `Settings` | store, POST /settings, settings row, startup override | |
| `WebSocketHub` | the handler of `/api/v1/live` from the origin check to its last deferred call, its reader, the bus's subscriptions | |
| `Diagnosis` | `ComputeScore` and `Diagnose` as operators over the open rules | |
| `Connectivity` | the network, checks, memory and load cycles, the choice of interface and gateway, the sweep of what is not observed | extends `Diagnosis`; abstracts `Observe` to thresholds of one |
| `Traffic` | interface rates and spike alerts, bytes per app, over the kernel's counters | |
| `Devices` | neighbour table to device rows, the hostname cache, new-device alerts, PATCH | abstracts alerts to a resolve threshold of one |
| `Database` | `Open`, the migrations, `Cleanup`, keyset listings, kills and power losses | |
| `MC...` | constants of the TLC instances | |

### How state and actions correspond to the code

**AlertEngine.** A goroutine's place (`pc`) is between two statements that touch shared state; each action is one
database statement, one critical section of `AlertEngine.mu`, or one `Publish`. `Lookup`, `Count`, then `Touch`,
`Create` + `AnnounceCreated` or `Resolve` + `AnnounceResolved`, then `ReadOpen` and `StoreScore` are `Observe` with its
`OnChange`; `StartSweep`, `Resolve`, `AnnounceResolved`, `ClearCounters` per row, then `ReadOpen` and `StoreScore` are
`SweepStale`. `Count` contains the whole mutex section and the reading of `TriggerN()` or `ResolveM()`, which is only a
read. A row is its key, its status and whether its `updated_at` is older than the sweep's cutoff; a row may grow old
(`GoStale`) only while nobody observes its source, which is what `StaleSweep` examines. `alerts` is a sequence because
ids are handed out in order. `streak` is a history variable: the consecutive failing or healthy observations, and those
since the key's last resolution. A collector's every rule is observed by one loop (`Owner`), as in
`collector/manager.go`. `FindOpenAlert` has no ORDER BY, so the model lets it return any open row of the key.

**StaleSweep.** A unit of time is a fraction of a tick period (`Every`). `StartCycle` and `EndCycle` are one run of `fn(ctx)`
between two firings of a loop's timer, `Tick` is `StaleSweeper.Tick`, `Pass` lets wall clock and timers advance together,
`Suspend` only the wall clock. `RestartDaemon` forgets `lastTick` and the grace, and every loop starts at once.
Ages and gaps are cut off beyond the largest value any comparison can tell apart. `slow` and `doubt` are history
variables: the collectors that ever ran no faster than the sweep, and those not checked since a suspension too short for
a tick to notice, or since their interval was lowered under a running timer.

**Notifier.** `Raise` commits a loop's next transition, `PublishAlert` publishes it. `Receive` and `StartDraining` are the
two branches of the watcher's select; the two deferred calls are `WatcherUnsubscribe` and `CloseQueue`. `Take`, `Post`,
`Retry` and `ExitDeliverer` are the deliverer. A post that fails did not reach the endpoint, or did, or was given up at
its timeout while still on its way (`late`), from where it may arrive at any later moment (`Arrive`), after its own retry,
after later posts, or never. `main` is where `run()` waits. `fate` and `newest` are history variables.

**Settings.** A slice is a length and a reference into `arrays`, because copying a `Config` copies references and
`encoding/json` writes list elements into the array it finds. `Begin`, `Decode`, `Apply`, `Reread`, `Save` and `Answer` are
the handler's steps; `Boot` is the startup, reading the settings row of the database `config.yaml` names. The log level
stands for all hot-reloadable scalars, `port` for host, port and ping mode. `owed` is a history variable: the
documents a start may rightly come up with.

**WebSocketHub.** A handler's place (`pc`) is between two statements that touch the counter, the bus or the connection:
`Arrive` is the origin check and the reading of the limit, `Claim` the `Add(1)`, `Refuse` the answer 503 after its
`Add(-1)`, `Upgrade`, `Join` the subscription and the reader, `Relay`, `PingFails`, `ReaderDone` and `SayGoodbye` the
branches of the select, `LeaveBus`, `CloseConn` and `GiveBack` the deferred calls in their order. Events are counted:
which ones a full buffer drops is the subject of `Notifier`. The process may exit before a handler says goodbye, because
`http.Server.Shutdown` does not wait for hijacked connections; the model lets it end by itself. Two refusals that overlap
may make a third request see a full house that is not, which `AdmittedWithinLimit` does not forbid and the code allows.

**Connectivity.** `Collect`, `StoreRoute` and `ObserveLinks` are `RunNetworkCycle`. `RunChecksCycle` is `BeginChecks`, then `Echo`
by `Echo` a check of the gateway and `ObserveGateway`, for each target `CheckTarget`, its echoes and `ObserveTarget`, then
`ObserveInternet`, for each domain `LookUp` and `ObserveDomain`, and `EndChecks`; `enable_latency_checks` and
`enable_dns_checks` leave parts of it out. The network may change between any two of these steps, so it may be back before
a check that failed is observed. Under "loss" some but not all echoes of a check are lost; under "heavy loss" any of them,
also all, and the check fails with its target up. Of a domain the A lookup is a step, since it alone decides; the AAAA
lookup runs between it and the observation. `deaf` and `silent` are history variables: whether the check in progress
has met only echoes the network left unanswered, and which checks of this cycle ended so. The memory and load cycles are
one step, sampling and observing. An alert is a pair of rule and source; `Observe` does nothing once the context is
cancelled, because the lookup fails. `Sweep` resolves what no loop observes any more, whenever it likes: when that is, is
the subject of `StaleSweep`. Interfaces that `DefaultExcluded` names are left out, as they are never observed.

**Traffic.** `CollectAndCheck` and `CollectFails` are a network cycle, `ListConnections` and `Accumulate` an app cycle: `ss`
runs, then its answer is charged and stored, and the world moves in between. Samples are dated by the wall clock, since
`time.Now().UTC()` drops the monotonic reading; `SetClock` sets it forwards or back by one of `Jumps`, and `ComputeRates`
gives no rate when the time between two samples is none or negative. A rate keeps the time it spans, so that
bytes can be recovered from it; `Scale` is a multiple of every span that gives one, so no division is inexact. Rows of
`interface_metrics` keep their time, so that one dated later than now stays in the window of the average. A key of `ss` is
a slot that may close and open again, which stands for an inode used twice. `since` (with the ticks that really passed,
and whether the counters or the clock were set), `moved`, `unseen`, `inHand`, `lost` and `reused` are history variables:
where every byte went. Its specification is named `TrafficSpec`, because `CollectorProofs` extends `Connectivity` too.

**Devices.** `Collect` lists the neighbours, prunes the cache and serves hits; `Resolve` is one lookup of the worker pool,
in any order; `Upsert` writes one row, and may fail between insert and read-back; `Announce` publishes it and opens its
alert; `ResolveNewDeviceAlerts` ends the cycle. Time is kept as ages that stop counting where nothing depends on them.
With a discovery cycle in flight an address may pass to another device, and the former holder's name is stored with it;
`NameSettles` says that this mends. It does not mend for a device that answers nothing: a cached or stored name of its
row stays, since an empty name never overwrites one.

**Database.** A migration is the set of tables it creates and the set it drops, since every statement of it says
`IF NOT EXISTS` or `IF EXISTS`. `BeginMigration`, `ExecMigration` and `CommitMigration` are one round of `migrate`;
`StartCleanup` takes the cutoff, `DeleteBatch` is one DELETE of up to `Batch` rows, `DeleteAlerts` the last statement.
Rows of a time series are counted, within and beyond the window, and `cut` is how many of them the pass is to delete.
A power loss may take back commits since the last checkpoint (`synchronous=NORMAL`); the model takes back schema
changes, as nothing here depends on which rows are lost. `owed` is a history variable: what a listing still has to show.

## 3. Runs

| Run | Question | Bounds | Result |
|---|---|---|---|
| `alert_engine` | Does the score survive failing writes and crashes, and do ids keep naming rows? | one loop, two keys (one of an immediate rule), thresholds 2 and 3, 4 changes of the world | holds |
| `alert_sweep` | Do two loops and the sweep together keep one open alert per key, hysteresis, announcements and the abstract lifecycle, and does everything settle? | two loops, two keys, one may vanish, 2 changes | holds |
| `stale_sweep` | Which sources that still fail may be swept, and is the alert of a vanished one always resolved? | one loop faster than the sweep, one as slow as it, suspensions of 2 and 12, 3 events, intervals up and down | holds |
| `notifier` | Order, accounting, bounded and certain shutdown | 4 transitions, buffer 2, queue 2, 2 attempts, late arrivals, metrics, URL changes | holds |
| `notifier_shutdown` | Is what the last cycle raised delivered? | one transition | violated |
| `settings` | What is live, what is persisted, what comes back | 2 requests of any content, saves that fail, stops anywhere | holds |
| `settings_alias` | Does the live configuration change by `Apply` alone? | 1 request | violated |
| `live` | Does any exit of a handler leak, is the limit kept, does every handler end? | 3 clients and a foreign one, limits 1 and 2, buffer 1 | holds |
| `connectivity` | Does an alarm open only if a check really got no answer, and never about an unused port, and does the diagnosis settle on the layer at fault? | 2 uplinks, 2 targets, a domain, 2 echoes, any link state and one of 8 faults at the start, one change or a shutdown later | holds |
| `traffic` | Are rates and app totals what really passed, and is every byte accounted for? | 1 interface, 2 connections (one loopback), 2 apps (one hidden), 4 cycles, 5 events, the clock set back by a cycle | holds |
| `devices` | Do names settle, is a device new once, does its alert end, do rows keep what they know? | 2 devices at an address, lifetimes 1 and 2, new for 2, swept at 3, 2 changes or faults | holds |
| `database` | Do schema and version agree, does retention delete all that is expired and nothing else, do listings miss nothing? | every release's file, one series of 2 expired rows, batches of 1, 3 alerts, pages of 1, one fault | holds |

More configurations show behaviours section 7 describes, each by a counterexample: `AlertSweepRace.cfg`, `AlertTwice.cfg`
and `AlertScoreRace.cfg` with `MCAlertEngine`, `StaleSweepNaps.cfg`, `StaleSweepReload.cfg` and `StaleSweepCycles.cfg` with
`MCStaleSweep`, `SettingsPath.cfg` with `MCSettings`. `AlertCrash.cfg` (590,000 states) holds: it checks beside the sweep, with
crashes and every statement failing, what `alert_sweep` checks without them and the theorems prove with them:
`OneOpenPerKey`, `AnnouncedTwiceAtMost` and `DebouncedUnlessSwept`.

Why the bounds suffice. Debounce thresholds of two distinguish "counted" from "counted afresh", and four changes of the
world let a key fail, recover, fail and recover again; saturating counters at the largest threshold loses nothing, since
they are only compared with thresholds. Two keys and two loops give every pair of goroutines that can meet: two
observers, and observer against sweeper. Buffers of two can be empty, half full and full, and four transitions fill
both and the delivery in progress. Two requests are enough for one to leave traces for the other. In `StaleSweep` the
constants keep the code's proportions, a grace of one period and two intervals, a window of two periods (the code has
fifteen) and five intervals. A period is two units, so that one loop fits between two ticks and the other just does not;
a suspension of one period goes unnoticed on some ticks, one of six never does; three events are one that makes
alerts old and two that use up a grace. In `live`
three clients are one more than the larger limit, so two can race for the last slot while a third leaves. In
`connectivity` the start already is any combination of links and at most one fault, so the one later change moves between
any two such states, between any two steps of a cycle; two uplinks and two targets tell "one" from "all" and "this" from
"another"; two echoes tell a check that lost one from a check that lost all. A shutdown counts as the change, so it meets
every such state, but not a network that has just changed; `NoFalseAlarmHolds` has that. In `traffic` four cycles give
either collector a baseline, a difference and a difference after a reset, a failed reading makes a gap as long as the limit,
and a clock set back by a cycle makes a time of none, by two a negative one. In `devices` a change of holder and one of silence,
or a fault and a restart, meet any phase of the cycle; lifetimes differ, so that hits, misses and rows expire apart. In
`database` pages of one and three alerts have a first, a middle and a last page; batches of one and two expired rows take
a full, a full and an empty DELETE.

Configurations leave out what their question excludes, and only that. `alert_engine` has one loop and no sweep, because two
recomputations can overtake each other (`AlertScoreRace.cfg`), and its score reads and writes do not fail, because a failed
one leaves the old score by design until the next transition. `alert_sweep` lets both fail instead, and has no crash,
because a crash between a write and its `Publish` leaves a transition unannounced. In `stale_sweep` a cycle takes no time,
though it may be under way when the machine is suspended, the daemon stops or an interval changes: a cycle must fit into the
grace period beside its interval. Nothing in the code bounds a cycle, and one whose checks outlast the grace is swept
(`StaleSweepCycles.cfg`); `SweptOnlyInDoubtHolds` of section 6 has every length that fits.
`CHECK_DEADLOCK FALSE` is set where the bound on changes of the world lets the system come to rest.

## 4. Properties

Each is stated in its module with a comment. `AlertEngine.TypeOK` is checked because the proofs rest on it; elsewhere the
properties are about hazards alone:

* `OneOpenPerKey`, `Hysteresis`, `DebouncedUnlessSwept`: alerts open and close on evidence only, one at a time. The last says
  what remains of the debounce of a swept alert: all of it, but for an observation between the sweep's UPDATE and the reset
  of the counters. `DebouncedSinceClosed` has no such exception and is what `AlertSweepRace.cfg` refutes.
* `ImplementsLifecycle`: the engine refines `AlertLifecycle`; `OpenId` maps the table to the number of the open alert.
* `CreatedBeforeResolved`, `EveryTransitionAnnounced`, `AnnouncedTwiceAtMost`: what subscribers hear. `ResolvedAnnouncedOnce`
  is refuted by `AlertTwice.cfg`; a resolution is announced at most by its loop and by one sweep, and once if its source
  never vanishes.
* `ScoreMatchesAlerts`: the newest score is that of the open alerts whenever nothing is in progress.
* `FailureEndsOpen`, `EndOfFailureEndsClosed`: convergence once a source stops changing.
* `SweptOnlyInDoubt`, `VanishedIsResolved`: the two halves of what the sweep promises. What fails is swept only if its loop
  was ever slower than the sweep and it is in doubt; `StillFailingNeverSwept` is the promise as the comment has it, which
  holds where every loop is faster.
* `NothingLostWhileRunning`, `OnlyLateOutOfOrder`, `QueuedIsAttempted`, `DrainBounded`, `ShutdownEnds`: the notifier.
* `OnlyValidSettings`, `LiveIsInUse`, `LevelIsLive`, `RestartDelivers`, `RestartOnlyWhenAsked`: the settings.
* `NothingLeaks`, `AdmittedWithinLimit`, `EveryHandlerEnds`: live clients.
* `UnusedPortNeverReported`, `NoFalseAlarm`, `DiagnosisSettles`: alarms and the diagnosis against the network as it is.
* `RatesAreReal`, `SpikeNeedsHistory`, `AppNeverOvercharged`, `EveryByteAccounted`: counters against the bytes that passed.
* `NameSettles`, `NewDeviceAlertOnce`, `NewDeviceAlertEnds`, `RowsKeepKnowledge`: devices.
* `SchemaMatchesVersion`, `RetentionExact`, `PagesComplete`: the file.

## 5. Fairness

Liveness is checked only where the code's scheduling supports it. A goroutine that can run does (weak fairness of its
next statement). Timers fire again and again and a cycle observes each of its keys, so `Lookup` is strongly fair per key:
the loop is often busy with another one. The sweep ticks every minute, and time passes over a source that stays gone
(`GoStale`, strong because touches may postpone it). A Go select with several ready branches picks one at random, so
neither the watcher nor a loop overlooks a cancelled context for ever. In `WebSocketHub` each deferred call and each
branch that stays ready is weakly fair, per handler; relaying is not, so a handler must end whatever is published. In
`Connectivity` and `Devices` each loop, the clock and the sweep are weakly fair, because every timer is set again after its
cycle and probes have timeouts. `Traffic` and `Database` claim safety only. Nothing is assumed about the operator, the
endpoint, suspensions, crashes or the network.

## 6. Proofs

Eight modules prove, for every value of the constants, each safety and action property the passing runs check. Bounds
(`MaxEvents`, `MaxFaults`, `MaxRequests` and the like) are arbitrary numbers in them. Some theorems assume more, of the
constants or of the behaviour; their statement then names what they assume, and the last column says which behaviour
(section 7 has most) forbids stating them without it:

| Theorem | Assumes | Because of |
|---|---|---|
| `CreatedFirst`, `AllAnnounced` | no crash | a crash between a write and its `Publish`, after which it is never announced |
| `ScoreFollowsAlerts` | recomputations do not overlap between read and store, and their statements succeed | `AlertScoreRace.cfg`; a failed store keeps the old score until the next transition |
| `StillFailingKept` | every interval plus a cycle shorter than the sweep period, window of two periods | `StaleSweepReload.cfg`, `StaleSweepNaps.cfg` |
| `SweptOnlyInDoubtHolds` | a cycle fits in the grace beside its interval, least stale age no less than least grace and two periods | `StaleSweepCycles.cfg`; the code's constants |
| `RestartAskedFor`, `RestartBringsBack` | requests save while the open database is the one `config.yaml` names | `SettingsPath.cfg` |
| `SettingsReturn` | requests leave the database path alone | the same |

**AlertEngineProofs.** From `ProcAssumption` and `DebounceAssumption`, whose substantial part is that each key has one
loop:

* `TypeCorrect` (`TypeOK`). Not inductive alone: that a goroutine writes through an id of the table depends on where it
  is. `Placed` says what each place implies; `Base == TypeOK /\ Placed` is inductive and carries all that follows.
* `OneOpenHolds` adds `NoneOpen`: while a collector holds the lookup's answer "none open", none is. Only the key's own
  loop inserts for it, and that loop is the one holding the answer; every other step at most closes rows. This is where
  one loop per rule matters: nothing else forbids duplicates.
* `HysteresisHolds`. Healthy observations, the sweep and crashes clear the counters, so they are compared with what was
  really observed: `CountersBounded` says they never exceed it.
* `DebouncedUnlessSweptHolds`. `DebounceInv`: what a failure counter holds was counted since the key's last resolution,
  unless a sweep has resolved the row and not yet cleared the counter; a loop that resolves has cleared it before, with the
  healthy observation that made it resolve.
* `LifecycleImplemented` (refinement). The insert is an `Open` because the answer still holds and the evidence suffices;
  an UPDATE that names an id and checks no status is a `Close` if the row is open and nothing otherwise; an observation
  is an `Observe`, a crash a `Restart`, every other statement is invisible.
* `CreatedFirst`, `AllAnnounced`. `AnnouncedInv`: every event is of a row, each row has been announced as created or is in
  the hand of the loop that is about to, and likewise for resolutions. A row in that hand is neither stale nor in the
  sweep's batch, and its own loop is not done with it: so nobody resolves it before it is heard of.
* `AnnouncedTwiceAtMostHolds`. `TwiceInv`: nobody takes up a row that is closed, so after one announcement at most one
  goroutine still has the row in hand, and after two none has; a source that never vanishes is never in the sweep's
  hand (`NeverSwept`).
* `ScoreFollowsAlerts`. Its hypothesis `OneRecompute` is what a lock around `Recompute` would give, and no more: transitions
  may still fall between another goroutine's read and its store. `ScoreInv`: a goroutine that has moved the table and not
  read it since (`Owing`) is going to recompute; with none of those, what a `Recompute` has in hand is the set of open
  keys, and with none of those either, the newest score is.

**StaleSweepProofs.** `StillFailingKept` and `SweptOnlyInDoubtHolds` cover any number of suspensions, restarts and reloads in
either direction. For the loops that were always faster than the sweep, the invariant `Touched` says that unless the next
tick is going to notice a gap (`Missed`), the alert of a failing source has been touched since the last tick or will be
before the next. At a tick that may sweep, its age is therefore less than two periods, whatever was slept in between; a
window of at least that is enough, and the grace is not needed at all. It speaks of one loop at a time, so a slow loop
does not endanger the sources of a fast one. The other loops need the grace: unless in doubt, a timer runs no longer than
the interval configured now (`Bounded`), and a failing source's alert is touched before the grace ends or before it is older
than an interval and a cycle (`Covered`).

**NotifierProofs.** No hypotheses. `PostedInOrder` (`OnlyLateOutOfOrder`): buffer, the watcher's hand, queue
and delivery are one line, sorted, and behind everything already posted and every request still on its way (`OrderInv`); only
an arrival of the latter can go back. `NothingLost` and `WaitCoversTheQueue`: `Stages` says which
of the watcher's and deliverer's places can occur together, `AccountInv` where each published transition is.
`ShutdownPostsBounded`: posts made while draining, plus the queue, plus what remains of the delivery in progress,
never exceed the queue's capacity and the attempts (`DrainInv`).

**SettingsProofs.** `SettingsStayValid` follows from the types: every way into the live, the desired or a stored
document leads through `Validate`. `LiveSettingsAreInUse`: a request never makes a restart-only field live, whatever
overlaps. `LoggerUsesLiveLevel` (`LevelInv`): live and desired level are always equal; a single request that gets as
far as saving saves the desired document (`Alone`). `RestartAskedFor` (`Asked`) follows one request from `Apply` to
its answer. A start reads the row of the database that `config.yaml` names, so both theorems suppose that requests save while
that one is open (`SavedAtHome`); requests that change the path are otherwise free to, and `SettingsReturn` has the case
where none does, in which the hypothesis holds by itself (`OnePathIsHome`). `RestartBringsBack` compares the row with `owed`; it needs `HeapInv`, that each document has a slice of
the heap of its own length, and that between requests the heap holds nothing else, so that a request always finds a
free array.

**WebSocketHubProofs.** `NothingLeaksHolds` (`NothingLeaks` is inductive with the types alone: each place of a handler
says what it holds, and each step changes both) and `AdmittedWithinLimitHolds` (only the claim lets a handler in, and
what it counted includes everyone who is in). The only assumption is that clients are finitely many.

**CollectorProofs, Connectivity.** About every set of open rules: the score is in 0..100 (`ScoreInRange`), no further alert
raises it (`ScoreMonotone`), it is full exactly when nothing that costs is open, the diagnosis is "healthy" exactly
when nothing is, and a critical diagnosis never comes with a healthy score. About the cycles:
`UnusedPortNeverReportedHolds` (`UsedInv`: the interface traffic goes by, the one a cycle has sampled and the one the
manager remembers were all used by the machine) and `NoFalseAlarmHolds` (`ChecksInv`: unless the daemon is told to
stop, a check that has got no answer so far has met only echoes the network left unanswered, and what the cycle has checked
without an answer is on record until its alert is decided; `FailedCheck`). A check that lost every echo counts as unanswered,
and nothing is claimed about the moment of the observation: the network may be back by then.

**CollectorProofs, Traffic.** Totals are sums over connections and apps, whose number is not known. What the proofs need of
them (a sum of sums, of one function changed at one point, of a set split in two, of parts by label) comes from
`SubsetInduction`: if a property of sets of subsets fails for a finite set, it fails for a smallest one. Its property is
a set and not an operator, which is what keeps it within the provers' reach; `SumFacts` then gets the recursion equation
of `SumFunctionOnSet` from the `CHOOSE` that defines it. `TrafficInvariant` is the inductive invariant:

* `CountersInv`: between two cycles the difference the collector would take is no more than what `ss` has not listed yet
  (`Ahead`), and just that if no key was used again; while a sample is in hand, the counters are ahead of that sample.
* `InHandInv`: the bytes in hand cover the differences about to be charged, and are equal to them unless the sample is the
  first or a key was used again. It carries what `Ahead` says across the step from listing to charging.
* `ChargesInv`: an app has moved what it was charged and all that its connections may yet add. `NeverOvercharged`
  (`AppNeverOvercharged`) follows, but is not inductive alone: the charge compares counters, and only `ChargesInv` relates
  these to what the app moved. A key in the sample is of the app that had it when `ss` ran or of nobody (`Connect`), so its
  bytes are never charged to another app.
* `Accounts` (`EveryByteAccounted`) adds that each step moves bytes between stored, unseen, in hand and lost and drops none.
* `IfaceInv`: the interface's counters exceed the last sample by what passed since, or have started over and hold no more
  than that; and unless the clock was set since, it is ahead of the last sample by the ticks that passed. `RealRates`
  (`RatesAreReal`) follows by `RateOverSpan`: multiplying by `Scale` and the span and dividing by both gives the bytes back.
* `SpikeIsARise` (`SpikeNeedsHistory`): of n rates with the new one among them, the new one can be more than `Multiplier` times
  the average only if n is more than `Multiplier`.

They assume finitely many keys and apps, and a `Scale` divisible by every span up to `MaxGap`; the code has floating-point
rates instead of a scale. The clock may be set by any amount at any time. Of a rate over a span with such a jump in it
nothing is claimed about the span, only that it is positive: such a rate is wrong in the code too.

**DevicesProofs.** `NewDeviceAlertOnceHolds` from `AlertsOfRows`: a device to be announced has no alert yet, open
alerts are among those ever opened, those are of rows, and an alert is no older than its row until the row is no
longer fresh. `RowsKeepKnowledgeHolds` from the types.

**DatabaseProofs.** `SchemaMatchesVersionHolds` adds what each place of `migrate` holds in its transaction and that a
power loss goes back to a schema of some version. `RetentionExactHolds` joins `RetentionCompleteHolds` (`PassInv`: what is left
to delete of a pass is there, and a series it is done with has nothing left, because the cutoff is taken once and rows only
ever get older) and `OnlyExpiredDeletedHolds` (a recent row leaves only into the expired, and of those no more go than
the pass counted). `PagesCompleteHolds` (`ListInv`): what is owed to the client is in its list and below the cursor, and what it
has is in order and above; `PageFacts` says that a page is the largest ids below the cursor, and `DescendingExists`,
by a minimal counterexample, that every finite set of ids can be listed in descending order.

Reasoning about the models corrected one: in `Settings` a body that is rejected while decoding also lets go of the
arrays it had allocated, which `Collected` now says at every exit. One definition was restated
without changing what it says: `Database.Descending` by its order instead of a sort.

Only model-checked: liveness under fairness (`FailureEndsOpen`, `EndOfFailureEndsClosed`, `VanishedIsResolved`,
`ShutdownEnds`, `EveryHandlerEnds`, `DiagnosisSettles`, `NameSettles`, `NewDeviceAlertEnds`), which is out of the
prover's reach.

## 7. What the runs found

* **Swept alerts skip the debounce** (`AlertSweepRace.cfg`). `SweepStale` clears the counters after the row is resolved; a
  failing observation in between reopens the alert at once. `alerts.go:175` promises "the normal debounce".
* **A resolution announced twice** (`AlertTwice.cfg`). A collector and the sweep that both read a row while it was open both
  resolve it, since `ResolveAlert` checks no status, and both report it resolved (`alerts.go:148`).
* **A stale health score** (`AlertScoreRace.cfg`). `Recompute` is unlocked, and the older of two overlapping ones may be
  stored last.
* **A live source swept after a reload** (`StaleSweepReload.cfg`). Lowering an interval shrinks the window at once, while the
  loop still sleeps on its old timer.
* **A live source swept after short suspensions** (`StaleSweepNaps.cfg`). A suspension shorter than the gap `Tick` looks for
  ages alerts unnoticed. One long suspension renews the grace, but the grace counts wall-clock time: two short ones use
  it up before a loop slower than the sweep has observed again. `scheduler.go:96` says such a source "is never swept".
  Loops faster than the sweep observe between any two ticks.
* **A live source swept after long cycles** (`StaleSweepCycles.cfg`). The grace is a multiple of the interval; a first cycle
  that outlasts it leaves an old alert unobserved, though `architecture.md:72` says sources "are re-observed before anything
  is judged stale".
* **Rates over a clock that was set.** `ComputeRates` rejects a time of none or below, but a clock set forwards or a little
  back gives a positive time that is not the real one, and a rate that is wrong by that factor (`SetClock`).
* **Alerts lost at shutdown** (`notifier_shutdown`). The watcher stops on the same signal as the collectors.
* **Settings lost after a database move** (`SettingsPath.cfg`). Startup always reads the override from the original path.
* **Rejected settings take effect** (`settings_alias`). The decoder writes into the live configuration's lists.

Also reproduced by the models without a run of their own: the sweep resolving a row that was touched after the sweep
read it; two overlapping POST requests that persist the older document last.

## 8. Plan

1. *Done:* `AlertEngine`, `AlertLifecycle`, `StaleSweep`, `Notifier`, `Settings`, `WebSocketHub`, `Diagnosis`,
   `Connectivity`, `Traffic`, `Devices`, `Database`, and the safety properties of all of them as theorems.
2. *Done:* the hypotheses of the theorems that `StaleSweepNaps.cfg`, `StaleSweepReload.cfg`, `SettingsPath.cfg` and
   `AlertScoreRace.cfg` limit, stated as what those behaviours do instead of as constants that exclude them.
3. Naps too short for `Tick` to notice, but far enough apart for every loop to run in between: how seldom is enough for
   the sources of slow loops.
4. `CreatedFirst` under a behavioural hypothesis as well: no crash between a write and its announcement.

Not modelled, with the reason:

* API reads, middleware, dashboard, desktop shell: rendering of what the tables hold. The dashboard throttles live events
  and polls every fifteen seconds, so a dropped event costs it that long.
* Parsing of `/proc`, `/sys`, `ip` and `ss` output and of mDNS packets: functions of text that keep no state; the models
  start from what they return.
* The recovery of a panicking loop in `scheduler.go`: the loop ends and the daemon runs on without it. No statement of a
  cycle is known to panic, and a model would repeat what the recover says.
* Plain inserts and read-only queries of the repositories, logging, HTTP draining, packaging.
